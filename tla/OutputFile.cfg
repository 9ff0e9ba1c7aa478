\* A file open for output: each association empties it or, with -A, appends.
CONSTANTS
  Byte <- MCByte
  EOL = "n"
  Zero = "z"
  Size = 2
  MaxPos = 4
  IoInp = FALSE
  IoOup = TRUE
  Apps = {FALSE, TRUE}
  MaxFaults = 1
  Contents <- MCFewContents
  RecSizes = {2}
  Records <- MCRecords
  Garbage <- MCOneGarbage
SPECIFICATION Spec
INVARIANTS
  AppendAtEnd
PROPERTIES
  ImplementsByteFile
