\* Every call on a file open for update ends.
CONSTANTS
  Byte <- MCByte
  EOL = "n"
  Zero = "z"
  Size = 2
  MaxPos = 3
  IoInp = TRUE
  IoOup = TRUE
  Apps = {FALSE}
  MaxFaults = 1
  Contents <- MCOneContents
  RecSizes = {2}
  Records <- MCFewRecords
  Garbage <- MCOneGarbage
SPECIFICATION Spec
PROPERTIES
  CallsReturn
