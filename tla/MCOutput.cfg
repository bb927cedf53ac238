CONSTANTS
  Token = {"text", "nl", "lead", "trail", "cr"}
  MaxOutput = 3
SPECIFICATION FairSpec
INVARIANTS
  TypeOK
  LinesArrive
PROPERTIES
  Delivered
