\* Timer, keyboard and a device on the second controller; a page fault, a
\* non-maskable interrupt and withdrawn requests may come.
SPECIFICATION Spec
CONSTANTS
    Devices = {0, 1, 8}
    Exceptions = {2, 14}
    FirmwareMasks = {0, 184, 255}
    Withdrawals = TRUE
INVARIANT LinesHaveHandlers
INVARIANT InServiceMatchesStack
INVARIANT LinesDoNotNest
INVARIANT OnlyTheTimerIsOpen
PROPERTY TimerNeverStops
