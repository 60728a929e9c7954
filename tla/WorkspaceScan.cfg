SPECIFICATION WSpec
CONSTANTS
    x = x
    y = y
    machine = machine
    context = context
    both = both
    File = {1, 2, 3}
    Alias = {3}
    Target <- MCTarget
    Folder = {1, 2}
    FolderOf <- MCFolderOf
    Name = {x, y}
    Edges = {1, 2}
    Layer <- MCLayer
    Text = {machine, context, both}
    LayerOf <- MCLayerOf
    Job = {j1, j2}
    Startup = j1
    Editor = editor
    Writer <- MCWriter
    Initial <- MCInitial
    MaxGeneration = 20
    MaxEvents = 2
    Null = Null
CONSTRAINT MeetEarly
ACTION_CONSTRAINT Turns
INVARIANTS WTypeOK IndexInStep SavedLayersSettle AnswersOnce
CHECK_DEADLOCK FALSE
