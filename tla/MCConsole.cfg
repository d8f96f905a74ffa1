SPECIFICATION Spec
CONSTANTS
  Line <- ThreeLines
  MaxPrograms = 2
  MaxLines = 2
  MaxStarts = 3
INVARIANTS
  TypeOK
  RecalledLineExists
  HistoryKept
PROPERTY RunsWhatIsShown
CHECK_DEADLOCK FALSE
