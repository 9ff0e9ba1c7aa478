SPECIFICATION Spec
CONSTANTS
  Limits <- MCLimits
  FirstLimit = 3
  Grace = 1
  PollCount = 4
  MaxErrors = 2
  MaxBreaks = 2
  MaxAssigned = 2
INVARIANTS CountExact RearmedWhenSeen
 
