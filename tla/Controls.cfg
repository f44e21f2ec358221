SPECIFICATION BenchSpec
CONSTANTS
    text1 = text1
    text2 = text2
    clock1 = clock1
    clock2 = clock2
    menu1 = menu1
    menu2 = menu2
    check1 = check1
    radio1 = radio1
    NoClock = NoClock
    NoAction = NoAction
    Texts = {text1, text2}
    MaxRows = 4
    MaxLines = 3
    MaxTabs = 3
    MaxLength = 5
    FirstLength = 3
    Short = 4
    Clocks = {clock1, clock2}
    MaxSources = 3
    MaxCalls = 7
    MenusMade = {menu1, menu2}
    ChecksMade = {check1}
    RadiosMade = {radio1}
    Hideable = {menu2}
    Dimmable = {menu2}
    Heights = {2, 3}
    Screen = 12
    Thin = 1
    Thick = 2
    MenuBar = 3
    StatusBar = 4
    Kids <- SomeKids
    Rooms <- SomeRooms
    MaxKids = 3
    Largest = 3
    Margins = {1}
    Alignments = {1}
    Modulus = 32
CHECK_DEADLOCK FALSE
INVARIANTS SameRow MarksAgree LitIsChosen FrontShown KnobAgrees OneSource
    MenuShown NothingDead FrameAgrees AsAsked LaidOut
PROPERTIES Chooses TogglesTold NoLateTick KeepsTicking
