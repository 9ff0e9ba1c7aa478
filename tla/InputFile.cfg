\* A file open for input: lines, raw records, SET, REWIND and BACKSPACE.
CONSTANTS
  Byte <- MCByte
  EOL = "n"
  Zero = "z"
  Size = 2
  MaxPos = 5
  IoInp = TRUE
  IoOup = FALSE
  Apps = {FALSE}
  MaxFaults = 1
  Contents <- MCContents
  RecSizes = {1, 2, 3}
  Records <- MCRecords
  Garbage <- MCGarbage
SPECIFICATION Spec
INVARIANTS
  LineRecordRead
  RawRecordRead
  EofAtEnd
  BackspaceToLineStart
  BackspaceRecord
