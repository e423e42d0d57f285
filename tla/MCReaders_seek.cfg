CONSTANTS
  Handles = {h1,h2}
  Formats = {"bz"}
  Images <- MCImages
  Reads <- MCReads
  InBuf = 2
  OutBuf = 2
  IndexDistance = 1
  ExtraDist = 1
  LookupCost = 2
  MaxNodes <- MCMaxNodes
  MaxCaches = 2
  MaxFaults <- MCMaxFaults
  GzHeader = 1
  GzTrailer = 1
SYMMETRY Sym
INIT ReadersInit
NEXT ReadersNext
INVARIANT SeekBackWorks
CHECK_DEADLOCK FALSE
