CONSTANTS
  BYTE = 2
  DEPTH = 2
  Programs <- AllPrograms
  Fatal <- TheFatal
  GatesAfter = 1
SPECIFICATION Spec
INVARIANTS BytesArrive PrintsWhatIsDue
PROPERTY LogIsHeard
CHECK_DEADLOCK FALSE
