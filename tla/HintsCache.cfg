SPECIFICATION HSpec
CONSTANTS
    m = m
    c = c
    Uri <- MCUri
    Closure <- MCClosure
    Editor = {e1}
    Reader = {}
    Interactive = {}
    Worker = {w1}
    Text = {t1}
    FileText = {t1}
    TypedText = {t1}
    Version = {1}
    MaxRevision = 5
    MaxDisk = 1
    MaxConfig = 1
    Null = Null
INVARIANTS HitsOutliveNoEditOrClose
