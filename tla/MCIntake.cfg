SPECIFICATION Spec
CONSTANTS
    album = album
    single = single
    Messages = {album, single}
    NoMsg = NoMsg
    MediaOf <- TheMedia
    Runes <- SomeRunes
    Numeral <- Numerals
    Albums <- NameAlbums
    Wide = {"w"}
    Lower <- UpperCase
    TitleRunes = {"a", "t", "w"}
    Filename <- NameTemplate
    Directory <- DirTemplate
    MaxBytes = 9
    TitleMax = 6
    TitleTail = 2
    Filter <- Rules
    Callers = {1, 2}
    Capacity = 1
    LinkQueue = 1
    Limit = 2
    Routes <- SomeRoutes
    Scenarios <- Meetings
    MaxEvents = 3
INVARIANTS SubmittedOnce AnswersRight
PROPERTIES AllSettles
CHECK_DEADLOCK FALSE
