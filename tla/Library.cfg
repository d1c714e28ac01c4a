SPECIFICATION Spec
CONSTANTS
    Services = {"memory", "numbers", "format", "clock", "timer"}
    Width = 7
    Size = 6
    Chars = {0, 32, 97}
    Formats <- TheFormats
    Room = 4
    Seconds = 2
    Minutes = 2
    Hours = 2
    StartYears = {0, 3, 4, 19, 96}
    MaxDays = 800
    TicksLate = FALSE
    SINT32_MAX = 9
    FREQUENCY = 2
    Naps <- TheNaps
    MaxDepth = 6
    MaxElapsed = 20
CHECK_DEADLOCK FALSE
INVARIANTS LibraryAgrees TimeIsKept
