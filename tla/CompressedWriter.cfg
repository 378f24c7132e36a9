SPECIFICATION FairSpec
CONSTANTS
  Thread = {t1, t2}
  BlockSize = 2
  Sizes = {1, 5}
  MaxBytes = 11
  MayFail = TRUE
INVARIANTS
  FileIsPrefix
  BufferNotLapped
PROPERTIES
  ImplementsLog
  CallsReturn
