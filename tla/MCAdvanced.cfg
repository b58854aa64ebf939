\* The drift detector, the canary, the manifests, the correlation engine, the enforcer.
SPECIFICATION Spec
CONSTANTS
    mail = mail
    query = query
    to = to
    bcc = bcc
    string = string
    list = list
    Tools <- MCTools
    Inputs <- MCInputs
    Fields <- MCFields
    Outputs <- MCOutputs
    baseline_window = 5
    sensitivity = 8
    MaxRecords = 6
    Responses <- MCResponses
    Probes <- MCProbes
    NoOutput = NoOutput
    MaxProbes = 3
    MaxChecks = 2
    Objects = {live, other}
    ToolKeys = {"mail", "chat"}
    Params <- MCParams
    NoSchema = NoSchema
    Unsigned = Unsigned
    Foreign = Foreign
    Contents <- MCContents
    MaxSigned = 2
    Events <- MCEvents
    NoDatum = NoDatum
    Outbound = {"send"}
    Kinds = {"read", "secret", "send"}
    DefaultRules <- MCDefaultRules
    ExtraRules <- MCExtraRules
    window_size = 3
    MaxRecorded = 4
    MaxClock = 2
    Documents <- MCDocuments
    DocTools = {"mail", "db"}
    BUILTIN_INVARIANTS <- MCBuiltinInvariants
    CustomInvariants <- MCCustomInvariants
    MaxCustom = 1
SYMMETRY Symmetry
INVARIANTS
    ChecksAgainstHistory
    VerdictsHold
    SequencesFound
