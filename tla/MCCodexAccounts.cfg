CONSTANTS
    Users = {u1, u2}
    Homes = {1, 2}
    Ambient = Ambient
    Windows = {w1}
    Lanes = {l1}
    MaxLogins = 3
    NoFile = NoFile
    Torn = Torn
    None = None
SPECIFICATION Spec
SYMMETRY SymUsers
CONSTRAINT LastLogin
INVARIANTS TypeOK RecordsSound
PROPERTY LoginsKept
