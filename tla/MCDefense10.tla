----------------------------- MODULE MCDefense10 -----------------------------
(* A small instance of Defense10.  `boss` is at the company, `spy` is not. *)
EXTENDS Defense10

CONSTANTS mail, boss, spy, company, outside, canary

MCServers == {mail}
MCEmails == {boss, spy}
MCTokens == {canary}
MCDomains == {company, outside}
MCDomainOf == [e \in MCEmails |-> IF e = boss THEN company ELSE outside]

MCConfigurations == {{company}}
MCApprovable == {spy}
MCOutbound == {{boss}}

Call(stated, emails, leaks, threat) ==
    [server |-> mail, stated |-> stated, emails |-> emails,
     leaks |-> leaks, threat |-> threat]

\* A plain send; one with an address hidden in another field; one stated to an
\* outsider that leaks a canary; one with no address, which the classifier, where
\* there is one, takes for a threat.
MCCalls == {Call({boss}, {boss}, {}, FALSE),
            Call({boss}, {boss, spy}, {}, FALSE),
            Call({spy}, {spy}, {canary}, FALSE),
            Call({}, {}, {}, TRUE)}
=============================================================================
