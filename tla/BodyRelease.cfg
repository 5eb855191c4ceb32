SPECIFICATION FairSpec

CONSTANTS
    s = s
    m = m
    r1 = r1
    r2 = r2
    Account = {1, 2}
    Sender = {s}
    Message = {m}
    Request = {r1, r2}
    AccountOf <- MCAccountOf
    SenderOf <- MCSenderOf
    MessageOf <- MCMessageOf
    Base = 0
    Scope = {0, 2}
    First <- MCFirst
    MaxWrites = 2

INVARIANTS
    RestrictionBinds
    ReleasesChecked

PROPERTIES
    PolicyNeverGoesBack
    RequestsAnswered
