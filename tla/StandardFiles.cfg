CONSTANTS
  NoFile <- MCNoFile
  Shell <- MCShell
  ShellOut <- MCShellOut
  Listing <- MCListing
  Dash = "-"
  SourceExts <- MCExts
  Places <- MCPlaces
  Includes <- MCIncludes
  Text <- MCText
  SaveFiles <- MCSaveFiles
  Commands <- MCCommands
  Depth = 2
  BufRecs = 2
  FirstArg = 1
SPECIFICATION Spec
INVARIANTS
  DescriptorsExact
  OutputFollowsPhase
  SourceIsCounted
PROPERTY ServesTheStream
CHECK_DEADLOCK FALSE
