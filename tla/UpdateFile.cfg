\* A file open for update (option -U): reads and writes share the buffer.
CONSTANTS
  Byte <- MCByte
  EOL = "n"
  Zero = "z"
  Size = 2
  MaxPos = 4
  IoInp = TRUE
  IoOup = TRUE
  Apps = {FALSE}
  MaxFaults = 1
  Contents <- MCFewContents
  RecSizes = {1, 2}
  Records <- MCRecords
  Garbage <- MCGarbage
SPECIFICATION Spec
INVARIANTS
  TypeOK
  BufferConsistent
  RecordStored
  SetLands
PROPERTIES
  ImplementsByteFile
