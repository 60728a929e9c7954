SPECIFICATION MCSpec
CONSTANTS
    Project = {p1}
    MaxSaves = 3
    MaxVersions = 2
    MaxSessions = 3
    MaxFaults = 2
    MaxEvents = 3
    Null = Null
    Line = {l1}
    Value = {x, y}
    Blank = x
    Marker = Marker
    Builder = {b1, b2}
    MaxVersion = 3
    MaxRestarts = 1
    Absent = Absent
CONSTRAINT Budget
SYMMETRY Symmetry
INVARIANTS CancelledNeverLaunches SavesAreBuilt ArmedWorkIsMirrored
PROPERTIES BootsAlone DeletionsAreRodins StaleMergesAreRefused OwnWritesAreDropped
CHECK_DEADLOCK FALSE
