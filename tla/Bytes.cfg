CONSTANTS
  None = None
  Base = 4
  W32 = 1
  W64 = 2
  MaxImageBytes = 9
  MaxLiveEntries = 2
  MaxRead = 10
  Payloads <- SmallPayloads
  Names <- SmallNames
SPECIFICATION Spec
INVARIANTS CanonicalBytes EditedAsWritten NoOverflow EncodeIffReadable
CHECK_DEADLOCK FALSE
