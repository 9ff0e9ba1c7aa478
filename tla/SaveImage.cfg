SPECIFICATION Spec
CONSTANTS
  FirstCode = 2
  LzwBits = 3
  Images <- MCImages
  Edits <- MCEdits
  Temps = {t1, t2}
  Target = spx
  Builds = {r1, r2}
  Null = Null
  BuffSize = 3
  Ahead = 2
  Heaps <- MCHeaps
  DecodeLimit = 5
  MaxFaults = 1
  MaxSaves = 2
  MaxCrashes = 1
INVARIANTS LoadedIsSaved WholeFileLoads OneCopySurvives TempsRemoved PointersRestored
