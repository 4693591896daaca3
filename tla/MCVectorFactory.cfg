CONSTANTS
    Procs = {p1, p2}
    Datasets = {ds1, ds2}
    None = None
SPECIFICATION Spec
INVARIANT NameStable
