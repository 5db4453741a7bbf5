\* Words of 8 bits; the shell ends with `go'.
CONSTANTS
  WIDTH = 8
  MAX_ARGS = 4
  HALF = 2
  MAX_HI = 1
  PEEK_MAX_WORDS = 3
  IMEM_BASE = 0
  UART_BASE = 64
  GPIO_BASE = 96
  RTOS_BASE = 128
  CLINT_MTIME = 192
  DeviceValues = {5}
  MAX_LOAD = 3
  Spell <- MCSpell
  Lines <- MCLines
  LoadLines <- MCLoadLines
SPECIFICATION Spec
INVARIANTS
  TextMeetsItsReferences
  UptimeIsATime
  LoadedImage
  ShowsWhatIsStored
PROPERTY WritesAreAsked
CHECK_DEADLOCK FALSE
