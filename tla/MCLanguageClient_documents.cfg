\* Documents, a shadow, a server that fails: what the server is told, and when.
SPECIFICATION FairSpec
CONSTANTS
    source = source
    header = header
    Docs = {source, header}
    includes <- MCIncludes
    Generated = {header}
    MaxRestarts = 1
    MaxActs = 3
INVARIANTS
    StaysLegal
    InSync
PROPERTIES
    Recovers
    ShutsDown
\* A client that is deleted does nothing more.
CHECK_DEADLOCK FALSE
