\* A bucket of 40 tokens a minute, two thirds of one a second; a WAL that
\* crashes, loses power and meets a bad disk; a watched server; two kinds
\* of finding; three buckets; batches of up to three entries.
SPECIFICATION ServicesSpec
CONSTANTS
    tokens_per_minute = 40
    burst_size = 3
    MaxTime = 6
    WalFaults = {"crash", "power", "disk", "torn", "locked"}
    MaxWrites = 4
    Torn = Torn
    Hosts = {"a", "postmark", "unknown"}
    KernelEvents <- MCKernelEvents
    Policies <- MCPolicies
    SmtpPorts = {"smtp"}
    minute = 2
    NoPolicy = NoPolicy
    MaxEvents = 4
    MaxUptime = 3
    FindingKeys = {"pii", "injection"}
    cooldown_seconds = 2
    Reporters = {r1, r2}
    MaxAlertTime = 3
    Buckets = {1, 2, 3}
    MaxObserved = 6
    Messages <- MCMessages
    NotAnObject = NotAnObject
    MaxBatch = 3
    Remotes = {"mx", "web", "local", "any"}
    LocalRemotes = {"local"}
    Wildcards = {"any"}
    Ports = {"smtp", "https"}
    MailPorts = {"smtp"}
    NoPort = NoPort
    Addresses <- MCAddresses
    Tables <- MCTables
    MaxAlerts = 2
    Keys <- MCKeys
    Synonyms <- MCSynonyms
    Resembles <- MCResembles
    EmailIndicators <- MCEmailIndicators
    ExtraWords <- MCExtraWords
    semantic_sensitivity = 70
    Submitted <- MCSubmitted
    known_gateway_servers <- MCKnownServers
    NoServerId = NoServerId
    gateway_domains <- MCDomains
    NoDestination = NoDestination
    eps_window = 1
    recent_limit = 2
    latency_limit = 2
    eps_limit = 2
    MaxScans = 3
    MaxScanTime = 2
    MaxReplays = 2
    Agents = {ann, bob}
    Guarded <- MCGuarded
    OtherTrace = OtherTrace
    OtherSpan = OtherSpan
    Traceparents <- MCTraceparents
    NoParent = NoParent
    max_spans = 2
    MaxSpans = 4
    Patterns = {"override", "roleplay"}
    PIITypes = {"ssn", "email"}
    Servers = {"s1", "s2"}
    NoServer = NoServer
    NoPrefix = NoPrefix
    Capabilities <- MCCapabilities
    ToolCalls <- MCToolCalls
    ToolOutputs <- MCToolOutputs
    trust_per_call = 30
    MaxInspections = 2
    MaxRegistrations = 2
    Processes = {p1, p2}
    Models = {m1, m2}
    NoModel = NoModel
    Absent = Absent
    Empty = Empty
    Partial = Partial
CHECK_DEADLOCK FALSE
INVARIANTS
    BucketInv
    RateBound
    WalKept
    RateAlertExact
    ScanIsTrue
    ReportsInv
    DeployedInv
    SimulatorInv
    VerdictIsDue
    TrustIsUse
    StoreInv
PROPERTIES
    RefusalIsDue
