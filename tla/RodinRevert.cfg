SPECIFICATION SyncSpec
CONSTANTS
    Line = {l1, l2}
    Value = {x, y}
    Blank = x
    Marker = Marker
    Builder = {}
    MaxVersion = 2
    MaxRestarts = 0
    Absent = Absent
SYMMETRY Symmetry
PROPERTIES OnlyRodinsLinesMove
