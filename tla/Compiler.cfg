SPECIFICATION MCSpec
CONSTANTS
    Dirs <- MCDirs
    Cwd = "cwd"
    Names = {"a", "b"}
    Inside <- MCInside
    Paths <- MCPaths
    Texts <- MCTexts
    Disks <- MCDisks
    SourceMustExist = FALSE
    MaxCalls = 1
    x = x
    y = y
    Off = Off
INVARIANTS
    SlotsSound ReadsWhatWasAssigned JumpsLand HandlerInnermost StreamExact ModulesSound
