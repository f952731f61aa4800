SPECIFICATION ConsoleSpec
CONSTANTS
  SCR_COLUMNS = 2
  SCR_ROWS = 3
  SCR_REST = 1
  FONT_H = 1
  CIN_BUFSZ = 3
  MaxKeys = 4
  ScanCodes <- MCScanCodes
  Commands <- MCCommands
INVARIANTS
  LineTyped
  EchoMatches
  HandlerAlone

  
