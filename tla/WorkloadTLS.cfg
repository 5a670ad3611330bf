\* One change of the TLS settings under a running process.
CONSTANTS
    HcoCRD = HcoCRD
    Soft = Soft
    CRDs = {HcoCRD, Soft}
    NoCRD = NoCRD
    None = None
    Assets <- MCAssets
    RequiredCRD <- MCRequiredCRD
    GateCRD <- MCGateCRD
    TTL = 1
    MaxLatency = 1
    MaxCRDMoves = 0
    Profiles = {"modern"}
    Hollow = "hollow"
    Default = "intermediate"
    NoProfile = "none"
    NoObject = "absent"
    CAs = {"ca1"}
    BadCA = "bad"
    APIServers = {"none", "modern"}
    HCOs = {"none", "modern"}
    Bundles = {"ca1"}
    MaxTLSMoves = 1
    MaxMoves = 1
SPECIFICATION RunSpec
PROPERTIES WorkloadsGetHCOPolicy
CHECK_DEADLOCK FALSE
