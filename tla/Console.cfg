\* A line of three characters, FIFOs of two, a one-character prompt.
CONSTANTS
  FIFO_DEPTH = 2
  SIZE = 4
  MAX_ARGS = 4
  Chars = {"a", "b", " ", ">", "^", "C", "CR", "LF", "BS", "DEL", "ETX", "ESC"}
  Keys = {"a", " ", "DEL", "LF", "CR", "BS", "ETX", "ESC"}
  PROMPT <- MCPrompt
  Outputs <- MCOutputs
SPECIFICATION Spec
INVARIANTS
  ConsoleTypeOK
  ScreenShowsBuffer
  JumpKeepsOutput
PROPERTIES
  ImplementsEditor
  ComesBack
