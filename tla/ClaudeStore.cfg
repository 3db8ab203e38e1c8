SPECIFICATION FairSpec
CONSTANTS
  Views = {v1, v2}
  CLAUDE_MAX_PUBLICATIONS = 2
  MaxRevision = 3
  MaxFailures = 2
CHECK_DEADLOCK FALSE
PROPERTIES
  ImplementsLog
  RevisionsArePublished
