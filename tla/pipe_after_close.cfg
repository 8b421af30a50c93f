SPECIFICATION PipeSpec
CONSTANTS
  PipeTtl = 2
  MaxMessages = 2
  MaxCloses = 1
  MaxReceivers = 1
INVARIANT NothingReadAfterClose
