SPECIFICATION RacesSpec
CONSTANTS
    Io = {i1, i2}
    Workers = {}
    Slugs = {a, b}
    Texts = {x, y}
    Pages = {0}
    HomeKey <- MCHomeKey
    PageSize = 1
    MaxId = 2
    Absent = Absent
    Blank = Blank
SYMMETRY Symmetry
INVARIANTS
    UniqueSlugs
    StaleOnlyByOverlap
PROPERTIES
    GoneForGood
    BlankOnlyBySweep
