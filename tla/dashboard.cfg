\* Two users, four tokens and two overlapping requests, with one failure.
SPECIFICATION Spec
CONSTANTS
    ann = ann
    bob = bob
    fa = fa
    fb = fb
    NoToken = NoToken
    Nobody = Nobody
    Users = {ann, bob}
    Tokens = {t1, t2, t3, t4}
    Requests = {r1, r2}
    Facts = {fa, fb}
    OwnerOf <- FactOwners
    MaxFaults = 1
SYMMETRY Interchangeable
INVARIANTS
    OneSessionPerLink
    BurntLinkByFault
PROPERTIES
    LogoutEndsSessions
    OwnersEditOnly
