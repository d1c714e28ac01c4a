SPECIFICATION Spec
CONSTANTS
    Apps = {"snake", "pong", "line", "shell", "bf", "editor", "memview", "synth"}
    W = 6
    H = 2
    MaxLength = 6
    Apples <- TheApples
    Columns = 6
    Rows = 9
    Points = 0
    MaxSpeed = 5
    Frames = 2
    BufSize = 8
    Letters = {"a", "b"}
    Commands <- TheCommands
    MaxCompleted = 2
    MaxKeys = 6
    Shells = {s1}
    Args <- TheArgs
    Texts <- TheTexts
    Buf = 2
    MaxDepth = 2
    MaxNodes = 3
    Preempt = FALSE
    Programs <- ThePrograms
    TapeLength = 3
    MaxTape = 3
    Values = 3
    Fuel = 60
    Characters = {"a", "nl"}
    OldTexts <- TheOldTexts
    MaxText = 7
    InUse = FALSE
    Slots = 2
    Cells = 6
    Step = 1
    Header = 1
    HeapSizes = {12, 15}
    Sizes = {1, 4}
    MaxBytesPerBlock = 4
    Notes = {0, 1, 2, 3, 4, 5, 6, 7, 8, 9, 10, 11}
    TopOctave = 2
    FirstOctave = 1
    Lengths = {0, 10}
    InitialLength = 4
    ToneBytes = 8
    MaxSong = 2
    Width = 10
CHECK_DEADLOCK FALSE
INVARIANTS SnakesApart TextsAsTyped WholeFileMoved RunsAsDefined MemoryShown SongReadsBack
PROPERTY BallTurns
