SPECIFICATION MCSpec
CONSTANTS
    x = x
    y = y
    m1 = m1
    m2 = m2
    g1 = g1
    g2 = g2
    N = 2
    Contents = {x, y}
    Images = {m1, m2}
    Generations = {g1, g2}
    MaxNumber = 2
    Blank = Blank
    MaxForeign = 1
    MaxWrites = 2
    Races = {"consume"}
SYMMETRY TrackSymmetry
INVARIANTS CopyMatchesSnapshot
