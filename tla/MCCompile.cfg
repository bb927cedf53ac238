CONSTANTS
  lib = lib
  CFiles = {main, util, list}
  LlvmFiles <- OneLlvmFile
  Overflow = TRUE
SPECIFICATION Spec
INVARIANTS
  TypeOK
  ProgramIsComplete
  LinkerGetsAll
