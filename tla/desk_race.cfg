SPECIFICATION Spec
CONSTANTS
    r1 = r1
    r2 = r2
    c1 = c1
    c2 = c2
    k1 = k1
    k2 = k2
    StaffPages = {"console", "aid-requests", "beneficiaries"}
    Requests = {r1, r2}
    Images = {c1, c2}
    Api = {c1}
    MaxChanges = 3
    NoCover = NoCover
    Slots = {k1, k2}
    None = None
CONSTRAINT OneConsoleCall
SYMMETRY Symmetry
INVARIANTS
    UnpickedAsksBack
PROPERTIES
    ListsMoveForward
