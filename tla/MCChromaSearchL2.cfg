CONSTANTS
    Ids = {i1, i2, i3}
    DocIds = {d1, d2}
    Unit <- MCUnit
    Sims <- MCSims
    TopKs <- MCTopKs
    Thresholds <- MCThresholds
    Metric = "l2"
    Absent = Absent
SPECIFICATION Spec
INVARIANT ScoreIsSimilarity

