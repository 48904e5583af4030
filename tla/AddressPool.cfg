SPECIFICATION Spec
CONSTANTS
  Base = 4
  Width = 2
  Ranges <- RangesBelowMax
INVARIANTS
  NoDuplicates
  ExhaustedMeansAllIssued
PROPERTIES
  EventuallyExhausted
