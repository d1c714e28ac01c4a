SPECIFICATION ConsoleSpec
CONSTANTS
    LINE_WIDTH = 4
    Tab = 2
    Height = 2
    Lines = 4
    Monitors = {0, 1}
    Strings <- MCStrings
    Tags = {"{RED}"}
    Scrolls = "unwrapped"
    PrintsScrolled = FALSE
    SwitchDrawing = FALSE
    MaxPrints = 2
INVARIANTS PaneShowsText LimitsCountLines RefreshOffWhileDrawing
CHECK_DEADLOCK FALSE
