SPECIFICATION PartsSpec
CHECK_DEADLOCK FALSE
CONSTANTS
  Devices = {d1, d2}
  MaxTokens = 3
  MaxCodes = 2
  Tabs = {a, b}
  MaxSessions = 3
  MaxPids = 3
  MaxCalls = 3
  SvcCalls = {x, y}
  SvcFields = {f}
  ItemTypes = {"reasoning", "commandExecution"}
  MaxDeltas = 1
  Deltas = {"a"}
  MaxLines = 3
  LineCells = 3
  ChunkSize = 2
  MaxCancelled = 1
  MaxCommands = 2
  Openers = {1}
  MaxFiles = 2
  MaxLists = 2
  MaxBoxCalls = 1
  MaxSearches = 2
  MaxDraftEdits = 2
  HttpRoutes = {"complete", "revoke", "rename", "events"}
  Attempts = 1
  Window = 2
  MaxTime = 4
  MaxTries = 4
INVARIANT
  OverridesAreChosen
