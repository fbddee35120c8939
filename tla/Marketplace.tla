----------------------------- MODULE Marketplace -----------------------------
(***************************************************************************)
(* The agents on offer (src/src/marketplace/registry.js), who subscribed   *)
(* to them (subscriptions.js), how a step is routed to one of them         *)
(* (discovery.js), and the deployments a builder lists them in             *)
(* (src/src/api/v1/builder.js), behind the routes of marketplace.js.       *)
(*                                                                         *)
(* An action is one query and the code up to the next one.  A call between *)
(* two queries is a record in a set: a failing query, or a crash, drops    *)
(* it.                                                                     *)
(***************************************************************************)
EXTENDS Integers, Sequences

CONSTANTS
    Agents,       \* agent_ids
    Wallets,      \* wallets that are signed in
    Deployments,  \* rows of builder_deployments
    Owner,        \* the wallet that creates a deployment
    Steps,        \* external steps of running sessions
    WalletOf,     \* the wallet of a step's session
    Keywords,     \* keys of CAPABILITY_MAP
    Rank,         \* their order in it
    Builtins,     \* keys of BUILTIN_SPECIALISTS
    Skillsets,    \* the keywords an agent's capabilities may match
    Seeds,        \* agents of migrate_sprint9.sql
    SeedScore,    \* their reputation_score
    Ttls,         \* ttl_days of a subscription, 0 for none
    Blank,        \* an entry of agent_ids that is no agent
    MaxCalls,     \* bound on the requests that change or read rows
    MaxTime       \* bound on the clock

ASSUME MarketplaceAssumption ==
    /\ Owner \in [Deployments -> Wallets] /\ WalletOf \in [Steps -> Wallets]
    /\ Rank \in [Keywords -> Nat]
    /\ \A k, l \in Keywords : Rank[k] = Rank[l] => k = l
    /\ Skillsets \subseteq SUBSET Keywords
    /\ Seeds \subseteq Agents /\ SeedScore \in Nat
    /\ Ttls \subseteq Nat /\ Blank \notin Agents
    /\ MaxCalls \in Nat /\ MaxTime \in Nat

VARIABLES
    status,       \* marketplace_agents: "absent", "active", "inactive"
    skills,       \* the keywords its capabilities match
    tee,          \* tee_certified: "certified", "plain"
    score,        \* reputation_score
    sub,          \* agent_subscriptions: "none", "live", "revoked"
    expires,      \* expires_at, 0 for NULL
    subscribing,  \* subscribe calls that found their agent active
    adding,       \* addAgent calls that found their agent
    linking,      \* addAgent calls that subscribed their wallet
    created,      \* the deployments that exist
    listing,      \* their agent_ids
    nulled,       \* those whose agent_ids is NULL
    given,        \* how many of them the builder wrote himself
    state,        \* of a step: "idle", "routing", "default", "builtin", "specialist"
    wanted,       \* extractCapabilityKeywords
    tried,        \* the keywords the loop is done with
    offer,        \* the row a step is routed to, a set of at most one
    blind,        \* steps one of whose queries failed
    seen, steady, \* history: offers a step was eligible for at some, at every
                  \* instant since it began
    calls, now

agentRows  == <<status, skills, tee, score>>
subRows    == <<sub, expires>>
builderVars == <<adding, linking, created, listing, nulled, given>>
routeVars  == <<state, wanted, tried, offer, blind>>
bounds     == <<calls, now>>
vars == <<agentRows, subRows, subscribing, builderVars, routeVars, seen, steady, bounds>>

Offers == [keyword : Keywords, agent : Agents, tee : {"certified", "plain"}]

(* The database is new, or holds agents its migration has seeded, which    *)
(* may have been registered again since.                                   *)
Init ==
    /\ \E S \in SUBSET Seeds :
          /\ status = [a \in Agents |-> IF a \in S THEN "active" ELSE "absent"]
          /\ \E K \in [S -> Skillsets] :
                skills = [a \in Agents |-> IF a \in S THEN K[a] ELSE {}]
          /\ score = [a \in Agents |-> IF a \in S THEN SeedScore ELSE 0]
    /\ tee = [a \in Agents |-> "plain"]
    /\ sub = [w \in Wallets |-> [a \in Agents |-> "none"]]
    /\ expires = [w \in Wallets |-> [a \in Agents |-> 0]]
    /\ subscribing = {} /\ adding = {} /\ linking = {}
    /\ created = {} /\ listing = [d \in Deployments |-> <<>>] /\ nulled = {}
    /\ given = [d \in Deployments |-> 0]
    /\ state = [r \in Steps |-> "idle"] /\ wanted = [r \in Steps |-> {}]
    /\ tried = [r \in Steps |-> {}] /\ offer = [r \in Steps |-> {}] /\ blind = {}
    /\ seen = [r \in Steps |-> {}] /\ steady = [r \in Steps |-> {}]
    /\ calls = 0 /\ now = 0

Counted == calls < MaxCalls /\ calls' = calls + 1 /\ UNCHANGED now

-----------------------------------------------------------------------------
(* The registry: an upsert by whoever asks, which also re-activates.  A new *)
(* row has the score 0, and one that is there keeps the score it has;      *)
(* updateReputation is called by nobody.                                   *)
Register(a) ==
    /\ Counted
    /\ status' = [status EXCEPT ![a] = "active"]
    /\ \E K \in Skillsets : skills' = [skills EXCEPT ![a] = K]
    /\ \E t \in {"certified", "plain"} : tee' = [tee EXCEPT ![a] = t]
    /\ UNCHANGED <<score, subRows, subscribing, builderVars, routeVars>>

Deactivate(a) ==
    /\ Counted /\ status[a] # "absent"
    /\ status' = [status EXCEPT ![a] = "inactive"]
    /\ UNCHANGED <<skills, tee, score, subRows, subscribing, builderVars, routeVars>>

-----------------------------------------------------------------------------
(* POST /:agentId/subscribe: getAgent and its refusals, then the upsert. *)
CheckActive(w, a, ttl) ==
    /\ Counted /\ status[a] = "active"
    /\ subscribing' = subscribing \cup {[wallet |-> w, agent |-> a, ttl |-> ttl]}
    /\ UNCHANGED <<agentRows, subRows, builderVars, routeVars>>

(* subscribe(): renews whatever was there, a revoked row too.  Faulty      *)
(* variant: it has expired already.                                        *)
UpsertExpired(w, a, ttl) ==
    /\ sub' = [sub EXCEPT ![w][a] = "live"]
    /\ expires' = [expires EXCEPT ![w][a] = IF ttl = 0 THEN 0 ELSE now - ttl]

Upsert(w, a, ttl) ==
    /\ sub' = [sub EXCEPT ![w][a] = "live"]
    /\ expires' = [expires EXCEPT ![w][a] = IF ttl = 0 THEN 0 ELSE now + ttl]

Subscribe(p) ==
    /\ p \in subscribing /\ subscribing' = subscribing \ {p}
    /\ Upsert(p.wallet, p.agent, p.ttl)
    /\ UNCHANGED <<agentRows, builderVars, routeVars, bounds>>

Unsubscribe(w, a) ==
    /\ Counted /\ sub[w][a] # "none"
    /\ sub' = [sub EXCEPT ![w][a] = "revoked"]
    /\ UNCHANGED <<agentRows, expires, subscribing, builderVars, routeVars>>

-----------------------------------------------------------------------------
(* The builder's deployments.  The list a builder sends is taken as it is. *)
CreateDeployment(d) ==
    /\ Counted /\ d \notin created
    /\ created' = created \cup {d}
    /\ \E list \in {<<>>} \cup {<<a>> : a \in Agents} :
          /\ listing' = [listing EXCEPT ![d] = list]
          /\ given' = [given EXCEPT ![d] = Len(list)]
    /\ UNCHANGED <<agentRows, subRows, subscribing, adding, linking, nulled, routeVars>>

(* PATCH with agent_ids: pg sends the array as an array literal, which the *)
(* JSONB column refuses, unless it is empty: then it reads as the object   *)
(* {}, to which agent_ids || [..] later adds as to an array [{}].  A null  *)
(* passes the test for an array and is stored as NULL.                     *)
PatchAgentIds(d) ==
    /\ Counted /\ d \in created
    /\ \/ /\ listing' = [listing EXCEPT ![d] = <<Blank>>]
          /\ given' = [given EXCEPT ![d] = 1] /\ nulled' = nulled \ {d}
       \/ /\ listing' = [listing EXCEPT ![d] = <<>>]
          /\ given' = [given EXCEPT ![d] = 0] /\ nulled' = nulled \cup {d}
    /\ UNCHANGED <<agentRows, subRows, subscribing, adding, linking, created, routeVars>>

(* POST /deployments/:id/agents: getAgent, which may find an inactive one. *)
CheckAgent(w, a, d) ==
    /\ Counted /\ status[a] # "absent"
    /\ adding' = adding \cup {[wallet |-> w, agent |-> a, deployment |-> d]}
    /\ UNCHANGED <<agentRows, subRows, subscribing, linking, created, listing, nulled, given, routeVars>>

(* ... its subscription, without an end, ... *)
SubscribeBuilder(p) ==
    /\ p \in adding /\ adding' = adding \ {p}
    /\ Upsert(p.wallet, p.agent, 0)
    /\ linking' = linking \cup {p}
    /\ UNCHANGED <<agentRows, subscribing, created, listing, nulled, given, routeVars, bounds>>

Has(d, a) == \E i \in 1..Len(listing[d]) : listing[d][i] = a

(* ... and the update of agent_ids, for the owner's deployment and unless  *)
(* it has the agent, which of NULL is unknown; the call answers 201 in any *)
(* case.  Faulty variants: whether it has the agent, or whose it is, was   *)
(* left out of the WHERE.                                                  *)
LinkableAgain(p)    == p.deployment \in created \ nulled /\ Owner[p.deployment] = p.wallet
LinkableByOthers(p) == p.deployment \in created \ nulled /\ ~ Has(p.deployment, p.agent)
Linkable(p) ==
    /\ p.deployment \in created \ nulled /\ Owner[p.deployment] = p.wallet
    /\ ~ Has(p.deployment, p.agent)

LinkAgent(p) ==
    /\ p \in linking /\ linking' = linking \ {p}
    /\ IF Linkable(p) THEN listing' = [listing EXCEPT ![p.deployment] = Append(@, p.agent)]
                      ELSE UNCHANGED listing
    /\ UNCHANGED <<agentRows, subRows, subscribing, adding, created, nulled, given, routeVars, bounds>>

(* The next query of a call fails, or the process dies. *)
DropCalls ==
    /\ \/ \E p \in subscribing : subscribing' = subscribing \ {p} /\ UNCHANGED <<adding, linking>>
       \/ \E p \in adding : adding' = adding \ {p} /\ UNCHANGED <<subscribing, linking>>
       \/ \E p \in linking : linking' = linking \ {p} /\ UNCHANGED <<subscribing, adding>>
    /\ UNCHANGED <<agentRows, subRows, created, listing, nulled, given, routeVars, bounds>>

-----------------------------------------------------------------------------
(* Routing. *)

(* The join of findByCapability, over all keywords. *)
Eligible(w) ==
    {o \in Offers : /\ sub[w][o.agent] = "live"
                    /\ expires[w][o.agent] = 0 \/ expires[w][o.agent] > now
                    /\ status[o.agent] = "active"
                    /\ o.keyword \in skills[o.agent] /\ o.tee = tee[o.agent]}

StartStep(r) ==
    /\ Counted /\ state[r] = "idle"
    /\ state' = [state EXCEPT ![r] = "routing"]
    /\ \E K \in SUBSET Keywords : wanted' = [wanted EXCEPT ![r] = K]
    /\ UNCHANGED <<agentRows, subRows, subscribing, builderVars, tried, offer, blind>>

Turn(r, k) ==
    /\ state[r] = "routing" /\ k \in wanted[r] \ tried[r]
    /\ \A l \in wanted[r] \ tried[r] : Rank[k] <= Rank[l]

RouteToBuiltin(r, k) ==
    /\ Turn(r, k) /\ k \in Builtins
    /\ state' = [state EXCEPT ![r] = "builtin"]
    /\ UNCHANGED <<agentRows, subRows, subscribing, builderVars, wanted, tried, offer, blind, bounds>>

(* The rows one query returns, and a faulty variant: whoever subscribed. *)
RowsOfAnybody(r, k) == {o \in UNION {Eligible(w) : w \in Wallets} : o.keyword = k}
Rows(r, k)          == {o \in Eligible(WalletOf[r]) : o.keyword = k}

(* agents[0] of ORDER BY reputation_score DESC, tee_certified DESC.  Faulty *)
(* variant: the keys in the other order.                                   *)
CertifiedBefore(o, q) == o.tee = "certified" /\ q.tee = "plain"
FirstCertified(r, k) ==
    {o \in Rows(r, k) : \A q \in Rows(r, k) :
        ~ CertifiedBefore(q, o) /\ (o.tee = q.tee => score[o.agent] >= score[q.agent])}
First(r, k) ==
    {o \in Rows(r, k) : \A q \in Rows(r, k) :
        /\ score[o.agent] >= score[q.agent]
        /\ score[o.agent] = score[q.agent] => ~ CertifiedBefore(q, o)}

RouteToSpecialist(r, k) ==
    /\ Turn(r, k) /\ k \notin Builtins
    /\ \E o \in First(r, k) : offer' = [offer EXCEPT ![r] = {o}]
    /\ state' = [state EXCEPT ![r] = "specialist"]
    /\ UNCHANGED <<agentRows, subRows, subscribing, builderVars, wanted, tried, blind, bounds>>

(* Nobody, or no answer from the database: the loop goes on.  Faulty       *)
(* variant: it gives up.                                                   *)
AfterNone(r, k)    == [tried EXCEPT ![r] = wanted[r]]
AfterKeyword(r, k) == [tried EXCEPT ![r] = @ \cup {k}]

TryNext(r, k) ==
    /\ Turn(r, k) /\ k \notin Builtins
    /\ \/ Rows(r, k) = {} /\ UNCHANGED blind
       \/ blind' = blind \cup {r}
    /\ tried' = AfterKeyword(r, k)
    /\ UNCHANGED <<agentRows, subRows, subscribing, builderVars, state, wanted, offer, bounds>>

RouteToDefault(r) ==
    /\ state[r] = "routing" /\ wanted[r] \subseteq tried[r]
    /\ state' = [state EXCEPT ![r] = "default"]
    /\ UNCHANGED <<agentRows, subRows, subscribing, builderVars, wanted, tried, offer, blind, bounds>>

Tick ==
    /\ now < MaxTime /\ now' = now + 1
    /\ UNCHANGED <<agentRows, subRows, subscribing, builderVars, routeVars, calls>>

-----------------------------------------------------------------------------
(* What a step could have been routed to is noted while it is routed. *)
Observe ==
    /\ seen' = [r \in Steps |->
          CASE state[r] = "idle"    -> Eligible(WalletOf[r])'
            [] state[r] = "routing" -> seen[r] \cup Eligible(WalletOf[r])'
            [] OTHER                -> seen[r]]
    /\ steady' = [r \in Steps |->
          CASE state[r] = "idle"    -> Eligible(WalletOf[r])'
            [] state[r] = "routing" -> steady[r] \cap Eligible(WalletOf[r])'
            [] OTHER                -> steady[r]]

Registry == \E a \in Agents : Register(a) \/ Deactivate(a)

Subscriptions ==
    \/ \E w \in Wallets, a \in Agents : \/ Unsubscribe(w, a)
                                        \/ \E ttl \in Ttls : CheckActive(w, a, ttl)
    \/ \E p \in subscribing : Subscribe(p)

Builder ==
    \/ \E d \in Deployments :
          \/ CreateDeployment(d) \/ PatchAgentIds(d)
          \/ \E w \in Wallets, a \in Agents : CheckAgent(w, a, d)
    \/ \E p \in adding : SubscribeBuilder(p)
    \/ \E p \in linking : LinkAgent(p)

Routing ==
    \E r \in Steps :
       \/ StartStep(r) \/ RouteToDefault(r)
       \/ \E k \in Keywords : RouteToBuiltin(r, k) \/ RouteToSpecialist(r, k) \/ TryNext(r, k)

Next == (Registry \/ Subscriptions \/ Builder \/ DropCalls \/ Routing \/ Tick) /\ Observe

Spec == Init /\ [][Next]_vars

-----------------------------------------------------------------------------
(* Types: agent_ids stays a list of agents and blanks.                     *)
AgentType   == /\ status \in [Agents -> {"absent", "active", "inactive"}]
               /\ skills \in [Agents -> SUBSET Keywords]
               /\ tee \in [Agents -> {"certified", "plain"}]
               /\ score \in [Agents -> {0, SeedScore}]
SubType     == /\ sub \in [Wallets -> [Agents -> {"none", "live", "revoked"}]]
               /\ expires \in [Wallets -> [Agents -> Nat]]
CallType    == /\ subscribing \subseteq [wallet : Wallets, agent : Agents, ttl : Nat]
               /\ adding \subseteq [wallet : Wallets, agent : Agents, deployment : Deployments]
               /\ linking \subseteq [wallet : Wallets, agent : Agents, deployment : Deployments]
ListType    == /\ created \subseteq Deployments /\ nulled \subseteq created
               /\ listing \in [Deployments -> Seq(Agents \cup {Blank})]
               /\ given \in [Deployments -> Nat]
StepType    == /\ state \in [Steps -> {"idle", "routing", "default", "builtin", "specialist"}]
               /\ wanted \in [Steps -> SUBSET Keywords] /\ tried \in [Steps -> SUBSET Keywords]
               /\ offer \in [Steps -> SUBSET Offers] /\ blind \subseteq Steps
HistoryType == /\ seen \in [Steps -> SUBSET Offers] /\ steady \in [Steps -> SUBSET Offers]
               /\ calls \in 0..MaxCalls /\ now \in 0..MaxTime

TypeOK == AgentType /\ SubType /\ CallType /\ ListType /\ StepType /\ HistoryType

Routed(r) == offer[r] \subseteq {o \in seen[r] : o.keyword \in wanted[r]}

(* A step goes to an agent that was active, subscribed to by the session's *)
(* wallet and able at some instant while the step was being routed         *)
(* (init.sql:152), for a keyword of the step.                              *)
RouteIsCurrent == \A r \in Steps : Routed(r)

(* The keywords a step was not served for although they came first. *)
PassedOver(r) == {k \in wanted[r] : \A o \in offer[r] : Rank[k] < Rank[o.keyword]}

Best(r) ==
    state[r] \in {"default", "specialist"} /\ r \notin blind =>
        /\ \A s \in steady[r] : s.keyword \notin PassedOver(r)
        /\ \A s \in steady[r], o \in offer[r] : s.keyword = o.keyword =>
              \/ score[s.agent] < score[o.agent]
              \/ score[s.agent] = score[o.agent] /\ (s.tee = "plain" \/ o.tee = "certified")

(* Routing reads one keyword at a time while agents come and go.  A        *)
(* specialist that could serve the step all along is not passed over for   *)
(* the default agent or for a later keyword, unless a query failed or a    *)
(* built-in agent was there; nor for one of its keyword with a lower score *)
(* (discovery.js:59), or of the same score and plain if it is certified.   *)
SteadySpecialistsWin == \A r \in Steps : Best(r)

(* However the calls that add agents race, each adds an agent once: what   *)
(* stands behind the entries the builder wrote is in the list once.        *)
ListedOnce ==
    \A d \in Deployments : \A i, j \in 1..Len(listing[d]) :
        i # j /\ i > given[d] => listing[d][i] # listing[d][j]

(* Subscribing and listing are two queries: a deployment may miss an agent *)
(* its owner subscribed to, but never lists one he did not.                *)
ListedThenSubscribed ==
    \A d \in Deployments : \A i \in 1..Len(listing[d]) :
        i > given[d] => /\ listing[d][i] \in Agents
                        /\ sub[Owner[d]][listing[d][i]] # "none"

-----------------------------------------------------------------------------
(* The inductive invariant.                                                *)

(* While a step is routed, what is offered at this instant lies between    *)
(* what always was and what ever was, and no keyword done with has an      *)
(* offer that always was.                                                  *)
RouteInv(r) ==
    /\ state[r] \in {"idle", "routing"} =>
          steady[r] \subseteq Eligible(WalletOf[r]) /\ Eligible(WalletOf[r]) \subseteq seen[r]
    /\ state[r] = "idle" => tried[r] = {}
    /\ state[r] # "specialist" => offer[r] = {}
    /\ state[r] = "routing" /\ r \notin blind => \A s \in steady[r] : s.keyword \notin tried[r]
    /\ Routed(r) /\ Best(r)

(* A call that is about to list an agent has left a subscription behind,   *)
(* which may be revoked but is never deleted.                              *)
LinkInv == \A p \in linking : sub[p.wallet][p.agent] # "none"

IInv == TypeOK /\ (\A r \in Steps : RouteInv(r)) /\ LinkInv /\ ListedOnce /\ ListedThenSubscribed
=============================================================================
