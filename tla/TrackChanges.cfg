SPECIFICATION MCSpec
CONSTANTS
    x = x
    y = y
    m1 = m1
    m2 = m2
    g1 = g1
    g2 = g2
    N = 4
    Contents = {x, y}
    Images = {m1, m2}
    Generations = {g1, g2}
    MaxNumber = 3
    Blank = Blank
    MaxForeign = 2
    MaxWrites = 2
    Races = {}
SYMMETRY TrackSymmetry
INVARIANTS TrackingTypeOK CopyMatchesSnapshot RangesAreExact
PROPERTY ImplementsBackups
