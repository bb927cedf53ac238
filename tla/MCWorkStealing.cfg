CONSTANTS
  Verifiers = 3
  Inputs = 4
  Names <- TwoOfAName
  Replaced = {1, 2}
SPECIFICATION Spec
INVARIANTS TypeOK InputsCovered ErrorReasons
PROPERTY OncePerName
