SPECIFICATION FairSpec
CONSTANTS
  Views = {v1}
  CLAUDE_MAX_PUBLICATIONS = 2
  MaxRevision = 2
  MaxFailures = 1
CHECK_DEADLOCK FALSE
PROPERTIES
  EveryRevisionIsPublished
