SPECIFICATION Spec
CONSTANTS
  Signatures <- MCSignatures
  Checksum <- MCChecksum
INVARIANTS
  ReadsBack
  HeaderDescribesFile
CHECK_DEADLOCK FALSE
