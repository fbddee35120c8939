------------------------- MODULE Marketplace_proofs -------------------------
(***************************************************************************)
(* Proofs about Marketplace, for any number of agents, wallets, steps and  *)
(* deployments, any keywords and any bounds: IInv is inductive and the     *)
(* safety properties are parts of it.                                      *)
(***************************************************************************)
EXTENDS Marketplace, TLAPS

(* What can be routed to is an offer. *)
LEMMA EligibleType == \A w \in Wallets : Eligible(w) \subseteq Offers /\ Eligible(w)' \subseteq Offers
BY DEF Eligible

(* The initial state satisfies the inductive invariant. *)
LEMMA InitInv == Init => IInv
<1> SUFFICES ASSUME Init PROVE IInv
    OBVIOUS
<1> USE MarketplaceAssumption DEF Init
<1>1. TypeOK
  <2>1. ListType
      BY DEF ListType
  <2>2. AgentType
    <3>1. PICK S \in SUBSET Seeds :
              /\ status = [a \in Agents |-> IF a \in S THEN "active" ELSE "absent"]
              /\ \E K \in [S -> Skillsets] :
                    skills = [a \in Agents |-> IF a \in S THEN K[a] ELSE {}]
              /\ score = [a \in Agents |-> IF a \in S THEN SeedScore ELSE 0]
        OBVIOUS
    <3>2. PICK K \in [S -> Skillsets] : skills = [a \in Agents |-> IF a \in S THEN K[a] ELSE {}]
        BY <3>1
    <3>3. \A a \in S : K[a] \in SUBSET Keywords
        OBVIOUS
    <3> QED
        BY <3>1, <3>2, <3>3 DEF AgentType
  <2> QED
      BY <2>1, <2>2 DEF TypeOK, SubType, CallType, StepType, HistoryType
<1>2. \A r \in Steps : Eligible(WalletOf[r]) = {}
    BY DEF Eligible, Offers
<1>3. \A r \in Steps : RouteInv(r)
    BY <1>2 DEF RouteInv, Routed, Best
<1>4. LinkInv /\ ListedOnce /\ ListedThenSubscribed
    BY DEF LinkInv, ListedOnce, ListedThenSubscribed
<1> QED
    BY <1>1, <1>3, <1>4 DEF IInv

-----------------------------------------------------------------------------
(* Types.                                                                  *)

(* The history stays a set of offers. *)
LEMMA ObserveType == TypeOK /\ Observe => seen' \in [Steps -> SUBSET Offers]
                                          /\ steady' \in [Steps -> SUBSET Offers]
<1> SUFFICES ASSUME TypeOK, Observe
             PROVE  seen' \in [Steps -> SUBSET Offers] /\ steady' \in [Steps -> SUBSET Offers]
    OBVIOUS
<1>1. \A r \in Steps : Eligible(WalletOf[r])' \subseteq Offers
    BY EligibleType, MarketplaceAssumption
<1>2. \A r \in Steps : seen'[r] \subseteq Offers /\ steady'[r] \subseteq Offers
    BY <1>1 DEF Observe, TypeOK, HistoryType
<1>3. seen' = [r \in Steps |-> seen'[r]] /\ steady' = [r \in Steps |-> steady'[r]]
    BY DEF Observe
<1> QED
    BY <1>2, <1>3

(* A request counts, within its bound. *)
LEMMA CountedType == TypeOK /\ Counted => calls' \in 0..MaxCalls /\ now' \in 0..MaxTime
BY MarketplaceAssumption DEF Counted, TypeOK, HistoryType

(* What a subscription writes. *)
LEMMA UpsertType ==
    ASSUME TypeOK, NEW w \in Wallets, NEW a \in Agents, NEW ttl \in Nat, Upsert(w, a, ttl)
    PROVE  /\ SubType'
           /\ sub'[w][a] = "live"
           /\ \A v \in Wallets, b \in Agents : sub[v][b] # "none" => sub'[v][b] # "none"
<1>1. (IF ttl = 0 THEN 0 ELSE now + ttl) \in Nat
    BY MarketplaceAssumption DEF TypeOK, HistoryType
<1> QED
    BY <1>1 DEF Upsert, TypeOK, SubType

(* A list that grows by an agent is a list. *)
LEMMA LinkType ==
    ASSUME TypeOK, NEW d \in Deployments, NEW a \in Agents
    PROVE  [listing EXCEPT ![d] = Append(@, a)] \in [Deployments -> Seq(Agents \cup {Blank})]
<1> DEFINE Entries == Agents \cup {Blank}
<1>1. listing \in [Deployments -> Seq(Entries)] /\ a \in Entries
    BY DEF TypeOK, ListType
<1> HIDE DEF Entries
<1>2. Append(listing[d], a) \in Seq(Entries)
    BY <1>1
<1>3. [listing EXCEPT ![d] = Append(@, a)] \in [Deployments -> Seq(Entries)]
    BY <1>1, <1>2
<1> QED
    BY <1>3 DEF Entries

(* Every step preserves the types. *)
LEMMA TypeStep == TypeOK /\ [Next]_vars => TypeOK'
<1> SUFFICES ASSUME TypeOK, [Next]_vars PROVE TypeOK'
    OBVIOUS
<1> USE MarketplaceAssumption
<1>a. /\ UNCHANGED agentRows => AgentType'
      /\ UNCHANGED subRows => SubType'
      /\ UNCHANGED <<subscribing, adding, linking>> => CallType'
      /\ UNCHANGED <<created, listing, nulled, given>> => ListType'
      /\ UNCHANGED routeVars => StepType'
    BY DEF TypeOK, AgentType, SubType, CallType, ListType, StepType, agentRows, subRows, routeVars
<1>b. CASE UNCHANGED vars
    BY <1>a, <1>b DEF vars, builderVars, bounds, TypeOK, HistoryType
<1>c. CASE Next
  <2>1. ASSUME calls' \in 0..MaxCalls, now' \in 0..MaxTime PROVE HistoryType'
      BY <1>c, <2>1, ObserveType DEF Next, HistoryType
  <2>2. ASSUME UNCHANGED bounds PROVE HistoryType'
      BY <2>1, <2>2 DEF bounds, TypeOK, HistoryType
  <2>3. Counted => HistoryType'
      BY <2>1, CountedType
  <2>4. ASSUME NEW a \in Agents, Register(a) \/ Deactivate(a) PROVE TypeOK'
    <3>1. AgentType'
        BY <2>4 DEF Register, Deactivate, TypeOK, AgentType
    <3> QED
        BY <1>a, <2>3, <2>4, <3>1 DEF Register, Deactivate, builderVars, TypeOK
  <2>5. ASSUME NEW w \in Wallets, NEW a \in Agents, Unsubscribe(w, a) PROVE TypeOK'
    <3>1. SubType'
        BY <2>5 DEF Unsubscribe, TypeOK, SubType
    <3> QED
        BY <1>a, <2>3, <2>5, <3>1 DEF Unsubscribe, builderVars, TypeOK
  <2>6. ASSUME NEW w \in Wallets, NEW a \in Agents, NEW ttl \in Ttls, CheckActive(w, a, ttl)
        PROVE  TypeOK'
    <3>1. CallType'
        BY <2>6 DEF CheckActive, TypeOK, CallType, builderVars
    <3> QED
        BY <1>a, <2>3, <2>6, <3>1 DEF CheckActive, builderVars, TypeOK
  <2>7. ASSUME NEW p \in subscribing, Subscribe(p) PROVE TypeOK'
    <3>1. p.wallet \in Wallets /\ p.agent \in Agents /\ p.ttl \in Nat
        BY DEF TypeOK, CallType
    <3>2. SubType'
        BY <2>7, <3>1, UpsertType DEF Subscribe
    <3>3. CallType'
        BY <2>7 DEF Subscribe, TypeOK, CallType, builderVars
    <3> QED
        BY <1>a, <2>2, <2>7, <3>2, <3>3 DEF Subscribe, builderVars, TypeOK
  <2>8. ASSUME NEW d \in Deployments, CreateDeployment(d) PROVE TypeOK'
    <3>1. PICK list \in {<<>>} \cup {<<a>> : a \in Agents} :
              /\ listing' = [listing EXCEPT ![d] = list]
              /\ given' = [given EXCEPT ![d] = Len(list)]
        BY <2>8 DEF CreateDeployment
    <3>2. list \in Seq(Agents \cup {Blank}) /\ Len(list) \in Nat
      <4>1. CASE list = <<>>
          BY <4>1
      <4>2. ASSUME NEW a \in Agents, list = <<a>>
            PROVE  list \in Seq(Agents \cup {Blank}) /\ Len(list) \in Nat
          BY <4>2
      <4> QED
          BY <4>1, <4>2
    <3>3. ListType'
        BY <2>8, <3>1, <3>2 DEF CreateDeployment, TypeOK, ListType
    <3> QED
        BY <1>a, <2>3, <2>8, <3>3 DEF CreateDeployment, TypeOK
  <2>9. ASSUME NEW d \in Deployments, PatchAgentIds(d) PROVE TypeOK'
    <3>1. <<Blank>> \in Seq(Agents \cup {Blank}) /\ <<>> \in Seq(Agents \cup {Blank})
        OBVIOUS
    <3>2. PICK list \in {<<Blank>>, <<>>}, n \in {0, 1} :
              /\ listing' = [listing EXCEPT ![d] = list] /\ given' = [given EXCEPT ![d] = n]
              /\ created' = created /\ nulled' \in {nulled \ {d}, nulled \cup {d}}
        BY <2>9 DEF PatchAgentIds
    <3>3. d \in created
        BY <2>9 DEF PatchAgentIds
    <3>4. list \in Seq(Agents \cup {Blank})
        BY <3>1, Zenon
    <3>5. ListType'
        BY <3>2, <3>3, <3>4, n \in Nat DEF TypeOK, ListType
    <3> QED
        BY <1>a, <2>3, <2>9, <3>5 DEF PatchAgentIds, TypeOK
  <2>10. ASSUME NEW w \in Wallets, NEW a \in Agents, NEW d \in Deployments, CheckAgent(w, a, d)
         PROVE  TypeOK'
    <3>1. CallType'
        BY <2>10 DEF CheckAgent, TypeOK, CallType
    <3> QED
        BY <1>a, <2>3, <2>10, <3>1 DEF CheckAgent, TypeOK
  <2>11. ASSUME NEW p \in adding, SubscribeBuilder(p) PROVE TypeOK'
    <3>1. p.wallet \in Wallets /\ p.agent \in Agents
        BY DEF TypeOK, CallType
    <3>2. SubType'
        BY <2>11, <3>1, UpsertType DEF SubscribeBuilder
    <3>3. CallType'
        BY <2>11 DEF SubscribeBuilder, TypeOK, CallType
    <3> QED
        BY <1>a, <2>2, <2>11, <3>2, <3>3 DEF SubscribeBuilder, TypeOK
  <2>12. ASSUME NEW p \in linking, LinkAgent(p) PROVE TypeOK'
    <3>1. p.deployment \in Deployments /\ p.agent \in Agents
        BY DEF TypeOK, CallType
    <3>2. listing' \in [Deployments -> Seq(Agents \cup {Blank})]
      <4>1. [listing EXCEPT ![p.deployment] = Append(@, p.agent)]
                \in [Deployments -> Seq(Agents \cup {Blank})]
          BY <3>1, LinkType
      <4>2. listing \in [Deployments -> Seq(Agents \cup {Blank})]
          BY DEF TypeOK, ListType
      <4>3. \/ listing' = [listing EXCEPT ![p.deployment] = Append(@, p.agent)]
            \/ listing' = listing
          BY <2>12 DEF LinkAgent
      <4> QED
          BY <4>1, <4>2, <4>3
    <3>3. ListType' /\ CallType'
        BY <2>12, <3>2 DEF LinkAgent, TypeOK, ListType, CallType
    <3> QED
        BY <1>a, <2>2, <2>12, <3>3 DEF LinkAgent, TypeOK
  <2>13. ASSUME DropCalls PROVE TypeOK'
    <3>1. CallType'
        BY <2>13 DEF DropCalls, TypeOK, CallType
    <3> QED
        BY <1>a, <2>2, <2>13, <3>1 DEF DropCalls, TypeOK
  <2>14. ASSUME Routing PROVE TypeOK'
    <3>1. /\ UNCHANGED <<agentRows, subRows, subscribing, builderVars>>
          /\ Counted \/ UNCHANGED bounds
        BY <2>14 DEF Routing, StartStep, RouteToDefault, RouteToBuiltin, RouteToSpecialist, TryNext
    <3>2. ASSUME NEW r \in Steps, StartStep(r) \/ RouteToDefault(r) PROVE StepType'
        BY <3>2 DEF StartStep, RouteToDefault, TypeOK, StepType
    <3>3. ASSUME NEW r \in Steps, NEW k \in Keywords, RouteToBuiltin(r, k) \/ TryNext(r, k)
          PROVE  StepType'
        BY <3>3 DEF RouteToBuiltin, TryNext, AfterKeyword, TypeOK, StepType
    <3>4. ASSUME NEW r \in Steps, NEW k \in Keywords, RouteToSpecialist(r, k) PROVE StepType'
      <4>1. PICK o \in First(r, k) : offer' = [offer EXCEPT ![r] = {o}]
          BY <3>4 DEF RouteToSpecialist
      <4>2. o \in Offers
          BY EligibleType DEF First, Rows
      <4>3. offer' \in [Steps -> SUBSET Offers]
          BY <4>1, <4>2 DEF TypeOK, StepType
      <4> QED
          BY <3>4, <4>3 DEF RouteToSpecialist, TypeOK, StepType
    <3>5. StepType'
        BY <2>14, <3>2, <3>3, <3>4 DEF Routing
    <3> QED
        BY <1>a, <2>2, <2>3, <3>1, <3>5 DEF builderVars, TypeOK
  <2>15. ASSUME Tick PROVE TypeOK'
    <3>1. calls' \in 0..MaxCalls /\ now' \in 0..MaxTime
        BY <2>15 DEF Tick, TypeOK, HistoryType
    <3> QED
        BY <1>a, <2>1, <2>15, <3>1 DEF Tick, builderVars, TypeOK
  <2> QED
      BY <1>c, <2>4, <2>5, <2>6, <2>7, <2>8, <2>9, <2>10, <2>11, <2>12, <2>13, <2>14, <2>15
         DEF Next, Registry, Subscriptions, Builder
<1> QED
    BY <1>b, <1>c

-----------------------------------------------------------------------------
(* Routing.                                                                *)

(* No request changes a score. *)
LEMMA ScoreKept == [Next]_vars => score' = score
BY DEF Next, Registry, Subscriptions, Builder, DropCalls, Tick, Register, Deactivate, CheckActive,
       Subscribe, Unsubscribe, CreateDeployment, PatchAgentIds, CheckAgent, SubscribeBuilder,
       LinkAgent, Routing, StartStep, RouteToDefault, RouteToBuiltin, RouteToSpecialist, TryNext,
       agentRows, vars

(* A step that is not routed on keeps its invariant: what it could have    *)
(* been routed to is noted as it changes.                                  *)
LEMMA Unmoved ==
    ASSUME TypeOK, NEW r \in Steps, RouteInv(r), Observe, score' = score,
           state'[r] = state[r], wanted'[r] = wanted[r], tried'[r] = tried[r],
           offer'[r] = offer[r], r \in blind' <=> r \in blind
    PROVE  RouteInv(r)'
<1>1. /\ state[r] = "idle" => /\ seen'[r] = Eligible(WalletOf[r])'
                              /\ steady'[r] = Eligible(WalletOf[r])'
      /\ state[r] = "routing" => /\ seen'[r] = seen[r] \cup Eligible(WalletOf[r])'
                                 /\ steady'[r] = steady[r] \cap Eligible(WalletOf[r])'
      /\ state[r] \notin {"idle", "routing"} => seen'[r] = seen[r] /\ steady'[r] = steady[r]
    BY DEF Observe
<1>2. Routed(r)'
    BY <1>1 DEF RouteInv, Routed
<1>3. Best(r)'
    BY <1>1 DEF RouteInv, Best, PassedOver
<1>4. WalletOf' = WalletOf
    OBVIOUS
<1> QED
    BY <1>1, <1>2, <1>3 DEF RouteInv

(* A step begins with what is offered when it begins. *)
LEMMA StartInv ==
    ASSUME TypeOK, NEW r \in Steps, RouteInv(r), Observe, StartStep(r)
    PROVE  RouteInv(r)'
<1>1. /\ seen'[r] = Eligible(WalletOf[r])' /\ steady'[r] = Eligible(WalletOf[r])'
      /\ state'[r] = "routing" /\ tried'[r] = {} /\ offer'[r] = {}
    BY DEF Observe, StartStep, RouteInv, TypeOK, StepType
<1> QED
    BY <1>1 DEF RouteInv, Routed, Best

(* The loop ends: the default agent comes after every keyword, and a       *)
(* built-in one before whatever else the step could use.                   *)
LEMMA EndInv ==
    ASSUME TypeOK, NEW r \in Steps, RouteInv(r), Observe,
           RouteToDefault(r) \/ \E k \in Keywords : RouteToBuiltin(r, k)
    PROVE  RouteInv(r)'
<1>1. /\ state[r] = "routing" /\ state'[r] \in {"default", "builtin"}
      /\ UNCHANGED <<wanted, tried, offer, blind>>
      /\ state'[r] = "default" => wanted[r] \subseteq tried[r]
    BY DEF RouteToDefault, RouteToBuiltin, Turn, TypeOK, StepType
<1>2. steady'[r] \subseteq steady[r]
    BY <1>1 DEF Observe
<1>3. offer'[r] = {}
    BY <1>1 DEF RouteInv
<1>4. Best(r)'
    BY <1>1, <1>2, <1>3 DEF RouteInv, Best, PassedOver
<1> QED
    BY <1>1, <1>3, <1>4 DEF RouteInv, Routed

(* The step goes to a row of the query for the first keyword left: it is   *)
(* offered now, and what always was offered is in the rows or was for no   *)
(* keyword before.                                                         *)
LEMMA SpecialistInv ==
    ASSUME TypeOK, NEW r \in Steps, NEW k \in Keywords, RouteInv(r), Observe,
           RouteToSpecialist(r, k)
    PROVE  RouteInv(r)'
<1>1. PICK o \in First(r, k) : offer' = [offer EXCEPT ![r] = {o}]
    BY DEF RouteToSpecialist
<1>2. /\ state[r] = "routing" /\ state'[r] = "specialist" /\ offer'[r] = {o}
      /\ UNCHANGED <<wanted, tried, blind>>
      /\ k \in wanted[r] \ tried[r] /\ \A l \in wanted[r] \ tried[r] : Rank[k] <= Rank[l]
    BY <1>1 DEF RouteToSpecialist, Turn, TypeOK, StepType
<1>3. o \in Eligible(WalletOf[r]) /\ o.keyword = k
    BY DEF First, Rows
<1>4. seen[r] \subseteq seen'[r] /\ steady'[r] \subseteq steady[r]
    BY <1>2 DEF Observe
<1>5. Routed(r)'
    BY <1>2, <1>3, <1>4 DEF Routed, RouteInv
<1>6. Best(r)'
  <2>s. score' = score
      BY DEF RouteToSpecialist, agentRows
  <2> DEFINE Ahead(p, q) == \/ score[q.agent] < score[p.agent]
                            \/ score[q.agent] = score[p.agent] /\ (q.tee = "plain" \/ p.tee = "certified")
  <2> SUFFICES ASSUME r \notin blind, NEW s \in steady[r]
               PROVE  /\ s.keyword \notin {l \in wanted[r] : Rank[l] < Rank[k]}
                      /\ s.keyword = k => Ahead(o, s)
      BY <1>2, <1>3, <1>4, <2>s DEF Best, PassedOver
  <2>1. s \in Eligible(WalletOf[r]) /\ s.keyword \notin tried[r]
      BY <1>2 DEF RouteInv
  <2>2. s.keyword \in wanted[r] => ~ (Rank[s.keyword] < Rank[k])
    <3>1. \A l \in Keywords : Rank[l] \in Nat
        BY MarketplaceAssumption
    <3>2. wanted[r] \subseteq Keywords
        BY DEF TypeOK, StepType
    <3> QED
        BY <1>2, <2>1, <3>1, <3>2
  <2>3. ASSUME s.keyword = k PROVE Ahead(o, s)
    <3>1. /\ score[o.agent] >= score[s.agent]
          /\ score[o.agent] = score[s.agent] => ~ CertifiedBefore(s, o)
        BY <2>1, <2>3 DEF First, Rows
    <3>2. s \in Offers /\ o \in Offers
        BY <1>3, <2>1, EligibleType, MarketplaceAssumption
    <3>3. score[o.agent] \in Nat /\ score[s.agent] \in Nat
        BY <3>2, MarketplaceAssumption DEF TypeOK, AgentType, Offers
    <3>4. s.tee \in {"certified", "plain"} /\ o.tee \in {"certified", "plain"}
        BY <3>2 DEF Offers
    <3> QED
        BY <3>1, <3>3, <3>4 DEF CertifiedBefore
  <2> QED
      BY <2>2, <2>3
<1> QED
    BY <1>2, <1>5, <1>6 DEF RouteInv

(* A keyword is done with when nobody is offered for it now, hence nobody  *)
(* always was; or the query failed, and the step is marked.                *)
LEMMA TryInv ==
    ASSUME TypeOK, NEW r \in Steps, NEW k \in Keywords, RouteInv(r), Observe, TryNext(r, k)
    PROVE  RouteInv(r)'
<1>1. /\ state[r] = "routing" /\ state' = state /\ wanted' = wanted /\ offer' = offer
      /\ tried'[r] = tried[r] \cup {k}
      /\ r \notin blind' => r \notin blind /\ Rows(r, k) = {}
    BY DEF TryNext, Turn, AfterKeyword, TypeOK, StepType
<1>2. /\ seen'[r] = seen[r] \cup Eligible(WalletOf[r])'
      /\ steady'[r] = steady[r] \cap Eligible(WalletOf[r])'
    BY <1>1 DEF Observe
<1>3. r \notin blind' => \A s \in steady'[r] : s.keyword \notin tried'[r]
    BY <1>1, <1>2 DEF RouteInv, Rows
<1> QED
    BY <1>1, <1>2, <1>3 DEF RouteInv, Routed, Best

(* Every step of the specification preserves the invariant of every step   *)
(* that is routed.                                                         *)
LEMMA RouteStep ==
    ASSUME TypeOK, \A r \in Steps : RouteInv(r), [Next]_vars
    PROVE  \A r \in Steps : RouteInv(r)'
<1> SUFFICES ASSUME NEW r \in Steps PROVE RouteInv(r)'
    OBVIOUS
<1>1. CASE UNCHANGED vars
  <2>1. Eligible(WalletOf[r])' = Eligible(WalletOf[r])
      BY <1>1 DEF vars, agentRows, subRows, bounds, Eligible
  <2> QED
      BY <1>1, <2>1 DEF vars, agentRows, routeVars, RouteInv, Routed, Best, PassedOver
<1>s. score' = score
    BY ScoreKept
<1>2. CASE Observe /\ UNCHANGED routeVars
    BY <1>s, <1>2, Unmoved DEF routeVars
<1>3. ASSUME Observe, Routing PROVE RouteInv(r)'
  <2>1. PICK q \in Steps :
            \/ StartStep(q) \/ RouteToDefault(q)
            \/ \E k \in Keywords : RouteToBuiltin(q, k) \/ RouteToSpecialist(q, k) \/ TryNext(q, k)
      BY <1>3 DEF Routing
  <2>2. CASE q = r
      BY <1>3, <2>1, <2>2, StartInv, EndInv, SpecialistInv, TryInv
  <2>3. CASE q # r
    <3>1. /\ state'[r] = state[r] /\ wanted'[r] = wanted[r] /\ tried'[r] = tried[r]
          /\ offer'[r] = offer[r] /\ (r \in blind' <=> r \in blind)
        BY <2>1, <2>3 DEF StartStep, RouteToDefault, RouteToBuiltin, RouteToSpecialist, TryNext,
                         AfterKeyword, TypeOK, StepType
    <3> QED
        BY <1>s, <1>3, <3>1, Unmoved
  <2> QED
      BY <2>2, <2>3
<1>4. ASSUME Next PROVE Observe /\ (UNCHANGED routeVars \/ Routing)
    BY <1>4 DEF Next, Registry, Subscriptions, Builder, DropCalls, Tick, Register, Deactivate,
                CheckActive, Subscribe, Unsubscribe, CreateDeployment, PatchAgentIds, CheckAgent,
                SubscribeBuilder, LinkAgent
<1> QED
    BY <1>1, <1>2, <1>3, <1>4

-----------------------------------------------------------------------------
(* Lists.                                                                  *)

(* What the lists of deployments depend on. *)
ListInv == LinkInv /\ ListedOnce /\ ListedThenSubscribed

(* A step that leaves the lists alone and takes no subscription away keeps *)
(* them, if what it hands over to be listed is subscribed to.              *)
LEMMA ListsKept ==
    ASSUME TypeOK, ListInv, UNCHANGED <<created, listing, given>>,
           \A w \in Wallets, a \in Agents : sub[w][a] # "none" => sub'[w][a] # "none",
           \A p \in linking' \ linking : sub'[p.wallet][p.agent] # "none"
    PROVE  ListInv'
<1>1. LinkInv'
    BY DEF ListInv, LinkInv, TypeOK, CallType
<1>2. ListedOnce' /\ ListedThenSubscribed'
    BY MarketplaceAssumption DEF ListInv, ListedOnce, ListedThenSubscribed
<1> QED
    BY <1>1, <1>2 DEF ListInv

(* A list the builder writes himself counts as given to its end. *)
LEMMA ListWritten ==
    ASSUME TypeOK, ListInv, NEW d \in Deployments, NEW list \in Seq(Agents \cup {Blank}),
           listing' = [listing EXCEPT ![d] = list], given' = [given EXCEPT ![d] = Len(list)],
           UNCHANGED <<sub, linking>>
    PROVE  ListInv'
<1>1. LinkInv'
    BY DEF ListInv, LinkInv
<1>2. /\ listing'[d] = list /\ given'[d] = Len(list)
      /\ \A e \in Deployments \ {d} : listing'[e] = listing[e] /\ given'[e] = given[e]
    BY DEF TypeOK, ListType
<1>3. Len(list) \in Nat
    OBVIOUS
<1>4. ListedOnce' /\ ListedThenSubscribed'
    BY <1>2, <1>3 DEF ListInv, ListedOnce, ListedThenSubscribed
<1> QED
    BY <1>1, <1>4 DEF ListInv

(* An agent that joins a list was not in it and is subscribed to. *)
LEMMA AgentLinked ==
    ASSUME TypeOK, ListInv, NEW p \in linking, LinkAgent(p)
    PROVE  ListInv'
<1>1. /\ p.wallet \in Wallets /\ p.agent \in Agents /\ p.deployment \in Deployments
      /\ sub' = sub /\ given' = given
      /\ sub[p.wallet][p.agent] # "none"
    BY DEF LinkAgent, TypeOK, CallType, ListInv, LinkInv, subRows
<1>2. LinkInv'
    BY <1>1 DEF LinkAgent, ListInv, LinkInv
<1>3. CASE listing' = listing
    BY <1>1, <1>2, <1>3 DEF ListInv, ListedOnce, ListedThenSubscribed
<1>4. CASE Linkable(p) /\ listing' = [listing EXCEPT ![p.deployment] = Append(@, p.agent)]
  <2> DEFINE d == p.deployment
             n == Len(listing[d])
             Entries == Agents \cup {Blank}
  <2>1. listing[d] \in Seq(Entries) /\ p.agent \in Entries
      BY <1>1 DEF TypeOK, ListType
  <2>2. listing'[d] = Append(listing[d], p.agent)
      BY <1>1, <1>4 DEF TypeOK, ListType
  <2>3. \A e \in Deployments \ {d} : listing'[e] = listing[e]
      BY <1>4 DEF TypeOK, ListType
  <2> HIDE DEF Entries
  <2>4. /\ n \in Nat /\ Len(listing'[d]) = n + 1 /\ listing'[d][n + 1] = p.agent
        /\ \A i \in 1..n : listing'[d][i] = listing[d][i]
      BY <2>1, <2>2
  <2>5. /\ Owner[d] = p.wallet
        /\ \A i \in 1..n : listing[d][i] # p.agent
      BY <1>4 DEF Linkable, Has
  <2>6. /\ d \in Deployments
        /\ \A i, j \in 1..n : i # j /\ i > given[d] => listing[d][i] # listing[d][j]
        /\ \A i \in 1..n : i > given[d] =>
              listing[d][i] \in Agents /\ sub[Owner[d]][listing[d][i]] # "none"
      BY <1>1 DEF ListInv, ListedOnce, ListedThenSubscribed
  <2> HIDE DEF n, d
  <2>7. ListedOnce'
    <3> SUFFICES ASSUME NEW e \in Deployments, NEW i \in 1..Len(listing'[e]),
                        NEW j \in 1..Len(listing'[e]), i # j, i > given[e]
                 PROVE  listing'[e][i] # listing'[e][j]
        BY <1>1 DEF ListedOnce
    <3>1. CASE e # d
        BY <2>3, <3>1 DEF ListInv, ListedOnce
    <3>2. CASE e = d
      <4>1. i \in 1..(n + 1) /\ j \in 1..(n + 1)
          BY <2>4, <3>2
      <4>2. CASE i = n + 1
        <5>1. j \in 1..n
            BY <2>4, <4>1, <4>2
        <5>2. listing'[d][j] = listing[d][j] /\ listing'[d][n + 1] = p.agent
            BY <2>4, <5>1
        <5>3. listing[d][j] # p.agent
            BY <2>5, <5>1
        <5> QED
            BY <3>2, <4>2, <5>2, <5>3
      <4>3. CASE j = n + 1
          BY <2>4, <2>5, <3>2, <4>1, <4>3
      <4>4. CASE i \in 1..n /\ j \in 1..n
          BY <2>4, <2>6, <3>2, <4>4
      <4> QED
          BY <2>4, <4>1, <4>2, <4>3, <4>4
    <3> QED
        BY <3>1, <3>2
  <2>8. ListedThenSubscribed'
    <3> SUFFICES ASSUME NEW e \in Deployments, NEW i \in 1..Len(listing'[e]), i > given[e]
                 PROVE  listing'[e][i] \in Agents /\ sub[Owner[e]][listing'[e][i]] # "none"
        BY <1>1 DEF ListedThenSubscribed
    <3>1. CASE e # d
        BY <2>3, <3>1 DEF ListInv, ListedThenSubscribed
    <3>2. CASE e = d
      <4>1. i \in 1..(n + 1)
          BY <2>4, <3>2
      <4>2. CASE i = n + 1
          BY <1>1, <2>4, <2>5, <3>2, <4>2
      <4>3. CASE i \in 1..n
          BY <2>4, <2>6, <3>2, <4>3
      <4> QED
          BY <2>4, <4>1, <4>2, <4>3
    <3> QED
        BY <3>1, <3>2
  <2> QED
      BY <1>2, <2>7, <2>8 DEF ListInv
<1> QED
    BY <1>3, <1>4 DEF LinkAgent

(* Every step keeps the lists. *)
LEMMA ListStep == TypeOK /\ ListInv /\ [Next]_vars => ListInv'
<1> SUFFICES ASSUME TypeOK, ListInv, [Next]_vars PROVE ListInv'
    OBVIOUS
<1>1. ASSUME UNCHANGED <<created, listing, given, sub>>, linking' \subseteq linking PROVE ListInv'
    BY <1>1, ListsKept
<1>2. ASSUME NEW a \in Agents, Register(a) \/ Deactivate(a) PROVE ListInv'
    BY <1>1, <1>2 DEF Register, Deactivate, subRows, builderVars
<1>3. ASSUME NEW w \in Wallets, NEW a \in Agents, Unsubscribe(w, a) PROVE ListInv'
  <2>1. \A v \in Wallets, b \in Agents : sub[v][b] # "none" => sub'[v][b] # "none"
      BY <1>3 DEF Unsubscribe, TypeOK, SubType
  <2> QED
      BY <1>3, <2>1, ListsKept DEF Unsubscribe, builderVars
<1>4. ASSUME NEW w \in Wallets, NEW a \in Agents, NEW ttl \in Ttls, CheckActive(w, a, ttl)
      PROVE  ListInv'
    BY <1>1, <1>4 DEF CheckActive, subRows, builderVars
<1>5. ASSUME NEW p \in subscribing, Subscribe(p) PROVE ListInv'
  <2>1. p.wallet \in Wallets /\ p.agent \in Agents /\ p.ttl \in Nat
      BY DEF TypeOK, CallType
  <2>2. \A v \in Wallets, b \in Agents : sub[v][b] # "none" => sub'[v][b] # "none"
      BY <1>5, <2>1, UpsertType DEF Subscribe
  <2> QED
      BY <1>5, <2>2, ListsKept DEF Subscribe, builderVars
<1>6. ASSUME NEW d \in Deployments, CreateDeployment(d) PROVE ListInv'
  <2>1. PICK list \in {<<>>} \cup {<<a>> : a \in Agents} :
            /\ listing' = [listing EXCEPT ![d] = list]
            /\ given' = [given EXCEPT ![d] = Len(list)]
      BY <1>6 DEF CreateDeployment
  <2>2. list \in Seq(Agents \cup {Blank})
    <3>1. CASE list = <<>>
        BY <3>1
    <3>2. ASSUME NEW a \in Agents, list = <<a>> PROVE list \in Seq(Agents \cup {Blank})
        BY <3>2
    <3> QED
        BY <3>1, <3>2
  <2>3. UNCHANGED <<sub, linking>>
      BY <1>6 DEF CreateDeployment, subRows
  <2> QED
      BY <2>1, <2>2, <2>3, ListWritten
<1>7. ASSUME NEW d \in Deployments, PatchAgentIds(d) PROVE ListInv'
  <2>1. PICK list \in {<<Blank>>, <<>>} :
            /\ listing' = [listing EXCEPT ![d] = list]
            /\ given' = [given EXCEPT ![d] = Len(list)]
    <3>1. Len(<<Blank>>) = 1 /\ Len(<<>>) = 0
        OBVIOUS
    <3> QED
        BY <1>7, <3>1 DEF PatchAgentIds
  <2>2. list \in Seq(Agents \cup {Blank})
    <3>1. <<Blank>> \in Seq(Agents \cup {Blank}) /\ <<>> \in Seq(Agents \cup {Blank})
        OBVIOUS
    <3> QED
        BY <2>1, <3>1, Zenon
  <2>3. UNCHANGED <<sub, linking>>
      BY <1>7 DEF PatchAgentIds, subRows
  <2> QED
      BY <2>1, <2>2, <2>3, ListWritten
<1>8. ASSUME NEW w \in Wallets, NEW a \in Agents, NEW d \in Deployments, CheckAgent(w, a, d)
      PROVE  ListInv'
    BY <1>1, <1>8 DEF CheckAgent, subRows
<1>9. ASSUME NEW p \in adding, SubscribeBuilder(p) PROVE ListInv'
  <2>1. p.wallet \in Wallets /\ p.agent \in Agents
      BY DEF TypeOK, CallType
  <2>2. /\ \A v \in Wallets, b \in Agents : sub[v][b] # "none" => sub'[v][b] # "none"
        /\ sub'[p.wallet][p.agent] = "live"
      BY <1>9, <2>1, UpsertType DEF SubscribeBuilder
  <2>3. \A q \in linking' \ linking : q = p
      BY <1>9 DEF SubscribeBuilder
  <2> QED
      BY <1>9, <2>2, <2>3, ListsKept DEF SubscribeBuilder
<1>10. ASSUME NEW p \in linking, LinkAgent(p) PROVE ListInv'
    BY <1>10, AgentLinked
<1>11. ASSUME DropCalls \/ Routing \/ Tick PROVE ListInv'
    BY <1>1, <1>11 DEF DropCalls, Routing, StartStep, RouteToDefault, RouteToBuiltin,
                      RouteToSpecialist, TryNext, Tick, subRows, builderVars
<1>12. CASE UNCHANGED vars
    BY <1>1, <1>12 DEF vars, subRows, builderVars
<1> QED
    BY <1>2, <1>3, <1>4, <1>5, <1>6, <1>7, <1>8, <1>9, <1>10, <1>11, <1>12
       DEF Next, Registry, Subscriptions, Builder

-----------------------------------------------------------------------------
(* IInv holds of every behaviour: what a step was always and was ever      *)
(* offered encloses what it is offered now (discovery.js:61-127), and what *)
(* is listed was subscribed to first (builder.js:165-179).                 *)
THEOREM MarketInvariant == Spec => []IInv
<1>1. IInv /\ [Next]_vars => IInv'
  <2> SUFFICES ASSUME IInv, [Next]_vars PROVE IInv'
      OBVIOUS
  <2>1. TypeOK' /\ ListInv'
      BY TypeStep, ListStep DEF IInv, ListInv
  <2>2. \A r \in Steps : RouteInv(r)'
      BY RouteStep DEF IInv
  <2> QED
      BY <2>1, <2>2 DEF IInv, ListInv
<1> QED
    BY InitInv, <1>1, PTL DEF Spec

(* Every variable keeps its type, agent_ids among them. *)
THEOREM MarketTypes == Spec => []TypeOK
<1>1. IInv => TypeOK
    BY DEF IInv
<1> QED
    BY <1>1, MarketInvariant, PTL

(* No step goes to an agent that was not active, able and subscribed to by *)
(* its wallet at some instant of its routing.                              *)
THEOREM RoutesCurrent == Spec => []RouteIsCurrent
<1>1. IInv => RouteIsCurrent
    BY DEF IInv, RouteInv, RouteIsCurrent
<1> QED
    BY <1>1, MarketInvariant, PTL

(* A specialist that could serve a step throughout its routing is passed   *)
(* over for no later keyword and no default agent, and for one of its own  *)
(* keyword only if that one is not behind it in the order of               *)
(* discovery.js:72, whatever else comes and goes meanwhile.                *)
THEOREM SteadyWins == Spec => []SteadySpecialistsWin
<1>1. IInv => SteadySpecialistsWin
    BY DEF IInv, RouteInv, SteadySpecialistsWin
<1> QED
    BY <1>1, MarketInvariant, PTL

(* Any number of racing calls adds an agent to a deployment once. *)
THEOREM AgentsListedOnce == Spec => []ListedOnce
<1>1. IInv => ListedOnce
    BY DEF IInv
<1> QED
    BY <1>1, MarketInvariant, PTL

(* A deployment lists no agent its owner did not subscribe to, except what *)
(* he wrote himself.                                                       *)
THEOREM AgentsSubscribedFirst == Spec => []ListedThenSubscribed
<1>1. IInv => ListedThenSubscribed
    BY DEF IInv
<1> QED
    BY <1>1, MarketInvariant, PTL
=============================================================================
