\* Two disturbances, of CRDs, of TLS settings, or one of each.
CONSTANTS
    HcoCRD = HcoCRD
    Soft = Soft
    CRDs = {HcoCRD, Soft}
    NoCRD = NoCRD
    None = None
    Assets <- MCAssets
    RequiredCRD <- MCRequiredCRD
    GateCRD <- MCGateCRD
    TTL = 1
    MaxLatency = 1
    MaxCRDMoves = 2
    Profiles = {"modern"}
    Hollow = "hollow"
    Default = "intermediate"
    NoProfile = "none"
    NoObject = "absent"
    CAs = {"ca1", "ca2"}
    BadCA = "bad"
    APIServers = {"none", "modern", "absent"}
    HCOs = {"none", "hollow"}
    Bundles = {"ca1", "ca2", "bad"}
    MaxTLSMoves = 2
    MaxMoves = 2
SPECIFICATION RunSpec
INVARIANTS OperatorTypeOK StaleAnswersAreBounded ChangesReachPasses
PROPERTIES PoolStaysUsable RestartsEnd AssetsFollowCRDs TLSSettles
CHECK_DEADLOCK FALSE
