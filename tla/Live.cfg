SPECIFICATION Spec
CONSTANTS
  Counts = {0, 1, 2}
  Buttons = {0, 1}
  Modes = {0}
  Rates = {30, 60}
  Period <- Periods
  LongAgo = 3
  MaxTokens = 4
  MaxChars = 10
  HistoryMax = 12
  Byte = 16
  MaxEvents = 4
INVARIANTS
  ViewIsTrue
  CommandsAreSound
  ReportsAgree
