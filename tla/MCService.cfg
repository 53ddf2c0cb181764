CONSTANTS
 Requests <- ProtocolRequests
 MaxRequests = 2
 NULL = NULL
SPECIFICATION FairSpec
INVARIANTS PayloadsAreFreedOnce PoliteClientsDoNoHarm
PROPERTIES ImplementsServiceContract TheServiceGoesOn
