SPECIFICATION Spec
CONSTANTS
    VersionSizes <- MCVersionSizes
    HashSize = 2
    TypeSize = 2
    LineSize = 3
    EndSize = 2
    HexBits = 2
    AuditReports <- MCAuditReports
    PoliceReports <- MCPoliceReports
    AuditorTypes = {0, 1, 2}
    PoliceTypes = {0, 1}
    Threshold = 6
CHECK_DEADLOCK FALSE
INVARIANTS TypeOK NothingIsLost RecodesTheSame VerdictIsOfFullReports
