CONSTANTS
    ann = ann
    bob = bob
    staff = staff
    pub = pub
    k1 = k1
    k2 = k2
    k3 = k3
    a1 = a1
    a2 = a2
    c1 = c1
    c2 = c2
    root = root
    feeder = feeder
    rd = rd
    pw1 = pw1
    pw2 = pw2
    None = None
    Users <- UsersMC
    Groups <- GroupsMC
    Public <- pub
    Keys <- KeysMC
    Admins <- AdminsMC
    Calls <- CallsMC
    Prefixes <- PrefixesMC
    Caps <- CapsMC
    Passwords <- PwMC
    Root <- root
    CacheTime = 2
    Scenarios <- Scenarios_MC
SPECIFICATION Spec
SYMMETRY Symmetry_MC
INVARIANTS
    TypeOK
    CurrentKeyWorks
    ReplacedKeysRefused
    EditsHold
    ChangesTakeEffect
