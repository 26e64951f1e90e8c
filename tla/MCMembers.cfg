SPECIFICATION MembersSpec
CONSTANTS
    u1 = u1
    u2 = u2
    d1 = d1
    t1 = t1
    t2 = t2
    a1 = a1
    x1 = x1
    r1 = r1
    r2 = r2
    Users = {u1, u2}
    Tokens = {1, 2, 3}
    Devices = {d1}
    Tabs = {t1, t2}
    DeviceOf <- MCDeviceOf
    Remembered = {u1}
    MaxMoves = 1
    Creator = u1
    Invites = {1, 2}
    MaxJoins = 3
    MaxAsked = 5
    Accounts = {a1}
    Rows = {x1}
    Requests = {r1, r2}
    NoToken = NoToken
    NoUser = NoUser
    NoAccount = NoAccount
SYMMETRY Peers
INVARIANTS
    SessionsSound
    ForeignDataOnlyBySlip
PROPERTIES
    TokensKeepTheirPromise
    OwnerlessOnlyByStaleRemoval
    RemovedStaysOut
    SightLostOnlyByOthers
    RowsLoseAccountOnlyByStaleCount
