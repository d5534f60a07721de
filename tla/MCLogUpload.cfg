SPECIFICATION Spec
CONSTANTS
    MaxLines = 2
    LogMaxLines = 2
    MaxWritten = 3
    MaxLife = 2
INVARIANTS OnlyOverflowLoses
PROPERTIES LinesArrive
