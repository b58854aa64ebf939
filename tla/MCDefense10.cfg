SPECIFICATION Spec
CONSTANTS
    mail = mail
    boss = boss
    spy = spy
    company = company
    outside = outside
    canary = canary
    Servers <- MCServers
    Emails <- MCEmails
    Tokens <- MCTokens
    Domains <- MCDomains
    DomainOf <- MCDomainOf
    Calls <- MCCalls
    Configurations <- MCConfigurations
    Approvable <- MCApprovable
    Outbound <- MCOutbound
    max_age = 1
    max_entries = 2
    max_count = 1
    window = 1
    auto_learn = FALSE
    max_verdicts = 1
    MaxCalls = 4
    MaxTime = 2
    MaxRouted = 1
    MaxListed = 2
INVARIANTS
    RegistryInv
    SentAsStated
    WindowBound
    RefusedWhenFull
