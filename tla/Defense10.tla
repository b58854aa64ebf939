------------------------------ MODULE Defense10 ------------------------------
(***************************************************************************)
(* defense10/orchestrator10.py: a tool call passes the honeypot, the       *)
(* classifier, the recipient whitelist and the rate limit; what the server *)
(* then really sends is compared with the recipients the call stated.      *)
(*                                                                         *)
(* A call is what the layers tell apart of it: its server, the recipients  *)
(* its agent stated, all addresses anywhere in its arguments, the canary   *)
(* tokens in it and what the classifier makes of it.  Text is abstracted.  *)
(***************************************************************************)
EXTENDS IntentRegistry, SlidingWindow

CONSTANTS Servers, Emails, Tokens,
          Domains, DomainOf,    \* DomainOf[e]: what follows the @ of e
          Calls,                \* the tool calls clients make
          Configurations,       \* the lists of domains servers are configured with
          Approvable,           \* the addresses an operator approves one by one
          Outbound,             \* the sets of addresses outbound calls are made to
          auto_learn,           \* of the whitelist; the orchestrator leaves it FALSE
          max_verdicts,
          MaxCalls, MaxTime,    \* bounds on the calls and the clock
          MaxRouted,            \* bound on the sends counted before a route may ask
          MaxListed             \* bound on the verdicts listed

ASSUME DomainAssumption == DomainOf \in [Emails -> Domains]
ASSUME CallAssumption ==
    Calls \subseteq [server : Servers, stated : SUBSET Emails, emails : SUBSET Emails,
                     leaks : SUBSET Tokens, threat : BOOLEAN]
ASSUME PolicyAssumption ==
    /\ Configurations \subseteq SUBSET Domains /\ Approvable \subseteq Emails
    /\ Outbound \subseteq SUBSET Emails
ASSUME ListAssumption == max_verdicts \in Nat /\ MaxListed \in Nat /\ auto_learn \in BOOLEAN

VARIABLES
    now,            \* the clock
    ml_available,   \* _ml_available: the classifier could be trained
    intents,        \* intent._intents
    limited,        \* the servers with an entry in rate._limits
    events,         \* rate._events, for the action "send"
    approved,       \* whitelist._approved: addresses and domains
    pending,        \* the length of whitelist._pending
    tokens, trips,  \* honeypot._tokens, the length of honeypot._trips
    verdicts,       \* the length of _verdicts
    calls,          \* history: the calls inspected, in the order of their ids
    attempts        \* history: the sends of each server its limit was asked about

policy == <<limited, approved, tokens>>
vars == <<now, ml_available, intents, limited, events, approved, pending, tokens,
          trips, verdicts, calls, attempts>>

Init ==
    /\ now = 0 /\ ml_available \in BOOLEAN
    /\ intents = [id \in {} |-> {}]
    /\ limited = {} /\ events = [s \in Servers |-> <<>>]
    /\ approved = [s \in Servers |-> {}] /\ pending = 0
    /\ tokens = {} /\ trips = 0 /\ verdicts = 0
    /\ calls = <<>> /\ attempts = [s \in Servers |-> <<>>]
-----------------------------------------------------------------------------
(* Policy: set up by the operator, also while calls arrive. *)

configure_server(s, domains) ==
    /\ limited' = limited \cup {s}
    /\ approved' = [approved EXCEPT ![s] = @ \cup domains]
    /\ UNCHANGED <<now, ml_available, intents, events, pending, tokens, trips,
                   verdicts, calls, attempts>>

approve(s, e) ==
    /\ approved' = [approved EXCEPT ![s] = @ \cup {e}]
    /\ UNCHANGED <<now, ml_available, intents, limited, events, pending, tokens, trips,
                   verdicts, calls, attempts>>

mint(t) ==
    /\ tokens' = tokens \cup {t}
    /\ UNCHANGED <<now, ml_available, intents, limited, events, approved, pending,
                   trips, verdicts, calls, attempts>>
-----------------------------------------------------------------------------
\* Only allowed calls trim the list.
_block == verdicts < MaxListed /\ verdicts' = verdicts + 1
_allow == verdicts' = IF verdicts + 1 > max_verdicts THEN max_verdicts ELSE verdicts + 1

Trips(c) == c.leaks \cap tokens
Threat(c) == ml_available /\ c.threat

\* whitelist.check(): the addresses neither approved nor of an approved domain.
Unknown(c) == {e \in c.emails : {e, DomainOf[e]} \cap approved[c.server] = {}}

ByHoneypot(c) ==
    /\ Trips(c) # {} /\ trips' = trips + Cardinality(Trips(c))
    /\ _block /\ UNCHANGED <<approved, pending, events, attempts>>

ByClassifier(c) ==
    /\ Trips(c) = {} /\ Threat(c)
    /\ _block /\ UNCHANGED <<trips, approved, pending, events, attempts>>

ByWhitelist(c) ==
    /\ Trips(c) = {} /\ ~Threat(c) /\ Unknown(c) # {}
    /\ pending' = pending + 1
    /\ approved' = IF auto_learn THEN [approved EXCEPT ![c.server] = @ \cup Unknown(c)] ELSE approved
    /\ _block /\ UNCHANGED <<trips, events, attempts>>

Reaches7(c) == Trips(c) = {} /\ ~Threat(c) /\ Unknown(c) = {}

\* rate.check(): a server without a limit leaves no event.
Limits(c) == c.emails # {} /\ c.server \in limited

Attempt(s, granted) ==
    /\ events' = [events EXCEPT ![s] = Recorded(@, now)]
    /\ Within(Recorded(events[s], now)) = granted
    /\ attempts' = [attempts EXCEPT ![s] = Append(@, [ts |-> now, granted |-> granted])]

ByRateLimit(c) ==
    /\ Reaches7(c) /\ Limits(c) /\ Attempt(c.server, FALSE)
    /\ _block /\ UNCHANGED <<trips, approved, pending>>

Passes(c) ==
    /\ Reaches7(c)
    /\ IF Limits(c) THEN Attempt(c.server, TRUE) ELSE UNCHANGED <<events, attempts>>
    /\ _allow /\ UNCHANGED <<trips, approved, pending>>

\* inspect_call()
inspect_call(c) ==
    /\ Len(calls) < MaxCalls
    /\ intents' = record(intents, now, Len(calls) + 1, c.stated)
    /\ calls' = Append(calls, [stated |-> c.stated, ts |-> now])
    /\ \/ ByHoneypot(c) \/ ByClassifier(c) \/ ByWhitelist(c)
       \/ ByRateLimit(c) \/ Passes(c)
    /\ UNCHANGED <<now, ml_available, limited, tokens>>

\* Arguments that are no object raise in record(), after the eviction.
inspect_call_raises ==
    /\ intents' = Evicted(intents, now)
    /\ UNCHANGED <<now, ml_available, policy, events, pending, trips, verdicts,
                   calls, attempts>>

\* What the registry still authorises for an id.
Authorized(id) ==
    LET found == got(intents, now, id)
    IN  IF id \in DOMAIN found THEN found[id].recipients ELSE {}

\* inspect_egress(): id 0 is one that no call was given.
inspect_egress(id, actual) ==
    /\ intents' = got(intents, now, id)
    /\ \/ /\ actual \subseteq Authorized(id)
          /\ _allow
       \/ /\ ~(actual \subseteq Authorized(id))
          /\ _block
    /\ UNCHANGED <<now, ml_available, policy, events, pending, trips, calls, attempts>>

\* The addon of a live proxy: an outbound request with its id in a header, whose
\* answer is 403 unless Authorized(id) covers it; the orchestrator hears nothing.
request(id) ==
    /\ intents' = got(intents, now, id)
    /\ UNCHANGED <<now, ml_available, policy, events, pending, trips, verdicts,
                   calls, attempts>>

\* check_rate_limit(): a route asks for the same limit, and answers 429 if refused.
check_rate_limit(s) ==
    /\ s \in limited /\ Len(attempts[s]) < MaxRouted
    /\ \E granted \in BOOLEAN : Attempt(s, granted)
    /\ UNCHANGED <<now, ml_available, intents, policy, pending, trips, verdicts, calls>>

\* scan_network(): a verdict on whether the network monitor raised an alert.
scan_network(alerted) ==
    /\ IF alerted THEN _block ELSE _allow
    /\ UNCHANGED <<now, ml_available, intents, policy, events, pending, trips,
                   calls, attempts>>

Tick == /\ now < MaxTime /\ now' = now + 1
        /\ UNCHANGED <<ml_available, intents, policy, events, pending, trips,
                       verdicts, calls, attempts>>

Next == \/ \E s \in Servers, domains \in Configurations : configure_server(s, domains)
        \/ \E s \in Servers, e \in Approvable : approve(s, e)
        \/ \E t \in Tokens : mint(t)
        \/ \E c \in Calls : inspect_call(c)
        \/ inspect_call_raises
        \/ \E id \in 0 .. Len(calls), actual \in Outbound : inspect_egress(id, actual)
        \/ \E id \in 0 .. Len(calls) : request(id)
        \/ \E s \in Servers : check_rate_limit(s)
        \/ \E alerted \in BOOLEAN : scan_network(alerted)
        \/ Tick

Spec == Init /\ [][Next]_vars
-----------------------------------------------------------------------------
Intents == [recipients : SUBSET Emails, ts : 0 .. now]

\* record() evicts before it enters, half of what there is, rounded down: one
\* intent that is one too many stays.
MostHeld == IF max_entries = 0 THEN 2 ELSE max_entries + 1

\* Every variable holds a value of its kind; the registry is never much larger
\* than max_entries.
TypeOK ==
    /\ now \in Nat /\ ml_available \in BOOLEAN
    /\ intents \in [DOMAIN intents -> Intents] /\ DOMAIN intents \subseteq 1 .. Len(calls)
    /\ Cardinality(DOMAIN intents) <= MostHeld
    /\ limited \subseteq Servers /\ events \in [Servers -> Seq(0 .. now)]
    /\ approved \in [Servers -> SUBSET (Emails \cup Domains)]
    /\ tokens \subseteq Tokens /\ pending \in Nat /\ trips \in Nat /\ verdicts \in Nat
    /\ calls \in Seq([stated : SUBSET Emails, ts : 0 .. now])
    /\ attempts \in [Servers -> Seq([ts : 0 .. now, granted : BOOLEAN])]

\* A full registry forgets only intents that have half of it, or more, recorded
\* after them: a call among the newest max_entries \div 2 + 1 keeps the
\* recipients it stated until they are max_age old (egress_proxy.py:74-85).
FreshIntentKept == \A id \in 1 .. Len(calls) :
    /\ now - calls[id].ts <= max_age
    /\ Len(calls) - id <= max_entries \div 2
    => id \in DOMAIN intents /\ intents[id].recipients = calls[id].stated

\* The registry never outgrows its bound, and never pays for that with an
\* intent that is still among the newest.
RegistryInv == TypeOK /\ FreshIntentKept

\* Whatever is evicted, deleted and recorded in between: an outbound call
\* reaches nobody but those its own call stated, at most max_age before
\* (egress_proxy.py:64-69, 109-119).
SentAsStated == \A id \in 0 .. Len(calls) : Authorized(id) # {} =>
    /\ id # 0 /\ Authorized(id) \subseteq calls[id].stated
    /\ now - calls[id].ts <= max_age

\* The attempts of a server in the window that ends with its j-th.
InWindow(s, j) ==
    {i \in 1 .. j : attempts[s][j].ts - attempts[s][i].ts <= window}

\* No window of a server with a limit holds more granted sends than the limit,
\* however configuration, refusals and time come between (rate_limiter.py:88-97).
WindowBound == \A s \in Servers : \A j \in 1 .. Len(attempts[s]) :
    Cardinality({i \in InWindow(s, j) : attempts[s][i].granted}) <= max_count

\* A send is refused only when the window holds more attempts than the limit,
\* the refused ones and itself included: a server that was silent for a window
\* is never refused (rate_limiter.py:86-91).
RefusedWhenFull == \A s \in Servers : \A j \in 1 .. Len(attempts[s]) :
    ~attempts[s][j].granted => Cardinality(InWindow(s, j)) > max_count
=============================================================================
