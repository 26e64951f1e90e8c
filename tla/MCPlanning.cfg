SPECIFICATION PlanningSpec
CONSTANTS
    k1 = k1
    k2 = k2
    k3 = k3
    k4 = k4
    u1 = u1
    u2 = u2
    p1 = p1
    g1 = g1
    g2 = g2
    s1 = s1
    s2 = s2
    r1 = r1
    r2 = r2
    t1 = t1
    t2 = t2
    w1 = w1
    w2 = w2
    x1 = x1
    acc = acc
    tx1 = tx1
    Categories = {k1, k2, k3, k4}
    NoCategory = NoCategory
    Editors = {1, 2}
    Members = {u1, u2}
    Watchers = {u2}
    Requester = u1
    Reports = {x1}
    Generators = {1, 2}
    Records = {acc, tx1}
    Writers = {1, 2}
    Handlers <- Known
    Connections = 2
    MaxWrites = 6
    Endpoints = {p1}
    Subjects <- Abouts
    MaxSame = 3
    Nobody = Nobody
    Slots = {s1, s2}
    LastMonth = 2
    Amounts = {4}
    Limits = {4, 5}
    Spenders = {r1, r2}
    Keepers = {1, 2}
    Open = Open
    Goals = {g1, g2}
    Targets = {1, 2}
    Sums <- InAndOut
    TransferSlots = {t1, t2}
    Savers = {w1, w2}
    Worlds <- Household
SYMMETRY Swaps
INVARIANTS
    ExceededAnnouncedOnce
    TreeSoundUnlessOverlapped
    EveryoneToldUnlessBroken
    ReportsKeepTheirWord
    LogCanBeReplayed
PROPERTIES
    GoalsCompletedWhenReached
