\* An int of 4 bits, a uint32_t of 5 and a long of 8, a second of 10 ms.
SPECIFICATION Spec
CONSTANTS
  INT_MAX = 15
  LONG_MAX = 127
  UINT32_MAX = 31
  TIMEOUT_MIN_SUPPORTED_VALUE = 1
  TIMEOUT_MAX_SUPPORTED_VALUE = 12
  DefaultTimeout = 3
  DefaultDelay = 30
  MsPerSecond = 10
  CommandLines <- MCCommandLines
  SocketNames = {0, 1, 2, 3, 4}
  Number <- MCNumber
  DefaultSocket = 0
  Interfaces <- MCInterfaces
  XNumbers = {0, 1, 33}
  WithScreenSaver = {0, 1}
  Unset = unset
  Empty = empty
  Environments <- MCEnvironments
  Directories <- MCDirectories
  MaxChanges = 2
CONSTRAINT OneCommandLine
INVARIANTS
  SettingsAreUsable
  ParsesAsMeant
  ProtocolTimeoutIsLongest
  GuessIsBest
  HonoursEnvironment
  WorksUnderWayland
  WorksUnderX11
CHECK_DEADLOCK FALSE
