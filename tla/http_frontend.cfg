SPECIFICATION FairSpec
CONSTANTS
  MaxRequests = 3
  Kinds = {"page", "lastPage", "missing", "folder", "query", "command", "incomplete", "unknown", "malformed"}
INVARIANTS TypeOK AnsweredOnce InStep OnlyCommandsAreLate NothingAfterTheLast FilesAreReleased
PROPERTY FailuresEnd
CHECK_DEADLOCK FALSE

PROPERTY LastAnswersClose
