CONSTANTS
  Tasks <- Categories
  MaxErrors = 2
SPECIFICATION FairSpec
INVARIANTS
  TypeOK
  VerdictIsRight
  SeenBugIsNotLost
  NoVerdictReasons
PROPERTIES
  Ends
