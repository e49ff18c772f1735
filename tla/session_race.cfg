SPECIFICATION SessionSpec
CONSTANTS
    t1 = t1
    t2 = t2
    ana = ana
    root = root
    Tabs = {t1, t2}
    Tokens = {ana, root}
    RoleOf <- Roles
    NoToken = NoToken
INVARIANTS
    StoredTogether
    SendsWhatItShows
