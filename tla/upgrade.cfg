SPECIFICATION FairSpec
CONSTANTS
    None = None
    Users <- MCUsers
    Classes <- MCClasses
    Toilets <- MCToilets
    Requests <- MCRequests
    Origins <- MCOrigins
    CrashLimit = 2
INVARIANTS
    RoutesConverted
    AuditComplete
    CredentialsCarried
PROPERTIES
    SourcesUntilPublished
    Upgraded
CHECK_DEADLOCK FALSE
