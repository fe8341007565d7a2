SPECIFICATION Spec
CONSTANTS
    Objects = {1, 2, 3}
    Edited = {1}
    PageSize = 2
    MaxPages = 2
    PollSeconds = 1
    Intervals = {0, 2}
    MaxCatchup = 1
    SinceArgs = {1}
    EditsDuringPoll = FALSE
    MaxNow = 2
    MaxStops = 1
INVARIANTS TypeOK NoEventLost NoOldHistory
PROPERTIES OncePerWait EventuallyDealtWith
