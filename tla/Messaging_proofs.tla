--------------------------- MODULE Messaging_proofs ---------------------------
(***************************************************************************)
(* Proofs about Messaging, for any number of requests, wallets and         *)
(* deployments: IInv is inductive, and the properties follow from it.      *)
(***************************************************************************)
EXTENDS Messaging, FiniteSetTheorems, TLAPS

(* What a list has that one more row was added to. *)
LEMMA HasAppend ==
    ASSUME NEW S, NEW s \in Seq(S), NEW e \in S, NEW x
    PROVE  Has(Append(s, e), x) <=> Has(s, x) \/ x = e
<1>1. /\ Len(Append(s, e)) = Len(s) + 1 /\ Len(s) \in Nat
      /\ Append(s, e)[Len(s) + 1] = e
      /\ \A i \in 1..Len(s) : Append(s, e)[i] = s[i]
    OBVIOUS
<1>2. ASSUME Has(s, x) \/ x = e PROVE Has(Append(s, e), x)
  <2>1. CASE Has(s, x)
    <3>1. PICK i \in 1..Len(s) : s[i] = x
        BY <2>1 DEF Has
    <3>2. i \in 1..Len(Append(s, e)) /\ Append(s, e)[i] = x
        BY <1>1, <3>1
    <3> QED
        BY <3>2 DEF Has
  <2>2. CASE x = e
    <3>1. Len(s) + 1 \in 1..Len(Append(s, e)) /\ Append(s, e)[Len(s) + 1] = x
        BY <1>1, <2>2
    <3> QED
        BY <3>1 DEF Has
  <2> QED
      BY <1>2, <2>1, <2>2
<1>3. ASSUME Has(Append(s, e), x) PROVE Has(s, x) \/ x = e
  <2>1. PICK i \in 1..Len(Append(s, e)) : Append(s, e)[i] = x
      BY <1>3 DEF Has
  <2>2. CASE i = Len(s) + 1
      BY <1>1, <2>1, <2>2
  <2>3. CASE i \in 1..Len(s)
      BY <1>1, <2>1, <2>3 DEF Has
  <2> QED
      BY <1>1, <2>1, <2>2, <2>3
<1> QED
    BY <1>2, <1>3

(* The initial state satisfies the inductive invariant. *)
LEMMA InitInv == Init => IInv
<1> SUFFICES ASSUME Init PROVE IInv
    OBVIOUS
<1> USE MessagingAssumption
<1>1. TypeOK
    BY DEF Init, TypeOK, RowType, RequestType, HistoryType, Phases, RoleOf
<1>2. RoleInv
    BY DEF Init, RoleInv
<1>3. \A c \in Calls : CallInv(c)
    BY DEF Init, CallInv, Has
<1>4. TrailInv
    BY DEF Init, TrailInv
<1> QED
    BY <1>1, <1>2, <1>3, <1>4 DEF IInv

-----------------------------------------------------------------------------
(* Types.                                                                  *)

(* A request that begins is typed. *)
LEMMA BeginType ==
    ASSUME TypeOK, NEW c \in Calls, NEW first \in {"recipient", "writing", "reading"},
           NEW r \in Requests, Begin(c, first, r)
    PROVE  RowType' /\ RequestType' /\ since' \in [Calls -> Nat] /\ before' \in [Calls -> Nat]
           /\ now' = now
<1>1. RowType'
    BY DEF Begin, TypeOK, RowType, dbVars
<1>2. RequestType'
    BY DEF Begin, TypeOK, RequestType, Phases
<1>3. RowsOf(r.op) \in Seq(Calls)
    BY DEF RowsOf, TypeOK, RowType
<1>4. Len(RowsOf(r.op)) \in Nat
    BY <1>3
<1>5. since' \in [Calls -> Nat] /\ before' \in [Calls -> Nat] /\ now' = now
  <2>1. since \in [Calls -> Nat] /\ before \in [Calls -> Nat] /\ now \in Nat
      BY MessagingAssumption DEF TypeOK, HistoryType
  <2>2. CASE r.op \in Reads
    <3>1. /\ since' = [since EXCEPT ![c] = now] /\ now' = now
          /\ before' = [before EXCEPT ![c] = Len(RowsOf(r.op))]
        BY <2>2 DEF Begin
    <3> QED
        BY <1>4, <2>1, <3>1
  <2>3. CASE r.op \notin Reads
      BY <2>1, <2>3 DEF Begin
  <2> QED
      BY <2>2, <2>3
<1> QED
    BY <1>1, <1>2, <1>5

(* What is asked first is a request. *)
LEMMA AskType ==
    ASSUME TypeOK, NEW w \in Wallets, NEW d \in Deployments, NEW to \in Wallets \cup {Everyone},
           NEW until \in Nat, NEW op \in {"join", "remove", "send", "share"} \cup Reads,
           NEW type \in ContextTypes \cup {AnyType}, NEW r, r = Ask(op, w, d, to, until, type)
    PROVE  /\ r \in Requests /\ r.op = op /\ r.by = w /\ r.to = to
           /\ r.deployment = d /\ r.until = until
    BY DEF Ask, Requests

(* What the first query of a request establishes, whatever it asks for. *)
Asked(c, first, r) ==
    /\ Begin(c, first, r)
    /\ first = "recipient" <=> r.op = "send"
    /\ first = "writing" <=> r.op \in {"join", "remove", "share"}
    /\ first = "reading" <=> r.op \in Reads
    /\ r.op \in {"send", "remove"} => r.to \in Wallets
    /\ r.op = "join" \/ r.by \in Members(r.deployment)
    /\ r.op = "remove" => r.by = r.to \/ role[r.deployment][r.by] \in {"owner", "admin"}

LEMMA FirstAsks ==
    ASSUME TypeOK, NEW c \in Calls, First(c)
    PROVE  \E first \in {"recipient", "writing", "reading"}, r \in Requests : Asked(c, first, r)
<1> USE MessagingAssumption
<1>1. PICK w \in Wallets, d \in Deployments :
         \/ Join(c, w, d)
         \/ \E v \in Wallets : Remove(c, w, d, v) \/ Send(c, w, d, v)
         \/ \E to \in Wallets \cup {Everyone}, ttl \in Ttls, type \in ContextTypes :
               Share(c, w, d, to, ttl, type)
         \/ \E op \in Reads, type \in ContextTypes \cup {AnyType} : Fetch(c, op, w, d, type)
    BY DEF First
<1>m. role[d][w] # "none" => w \in Members(d)
    BY DEF Members
<1>2. CASE Join(c, w, d)
  <2> DEFINE r == Ask("join", w, d, w, 0, AnyType)
  <2>1. r \in Requests /\ r.op = "join"
      BY AskType
  <2>2. Begin(c, "writing", r)
      BY <1>2 DEF Join
  <2> HIDE DEF r
  <2> QED
      BY <2>1, <2>2 DEF Asked, Reads
<1>3. ASSUME NEW v \in Wallets, Remove(c, w, d, v)
      PROVE  \E first \in {"recipient", "writing", "reading"}, r \in Requests : Asked(c, first, r)
  <2> DEFINE r == Ask("remove", w, d, v, 0, AnyType)
  <2>1. r \in Requests /\ r.op = "remove" /\ r.by = w /\ r.to = v /\ r.deployment = d
      BY AskType
  <2>2. Begin(c, "writing", r) /\ role[d][w] # "none"
        /\ (w = v \/ role[d][w] \in {"owner", "admin"})
      BY <1>3 DEF Remove, MayRemove
  <2> HIDE DEF r
  <2> QED
      BY <1>m, <2>1, <2>2 DEF Asked, Reads
<1>4. ASSUME NEW v \in Wallets, Send(c, w, d, v)
      PROVE  \E first \in {"recipient", "writing", "reading"}, r \in Requests : Asked(c, first, r)
  <2> DEFINE r == Ask("send", w, d, v, 0, AnyType)
  <2>1. r \in Requests /\ r.op = "send" /\ r.by = w /\ r.to = v /\ r.deployment = d
      BY AskType
  <2>2. Begin(c, "recipient", r) /\ role[d][w] # "none"
      BY <1>4 DEF Send
  <2> HIDE DEF r
  <2> QED
      BY <1>m, <2>1, <2>2 DEF Asked, Reads
<1>5. ASSUME NEW to \in Wallets \cup {Everyone}, NEW ttl \in Ttls, NEW type \in ContextTypes,
             Share(c, w, d, to, ttl, type)
      PROVE  \E first \in {"recipient", "writing", "reading"}, r \in Requests : Asked(c, first, r)
  <2> DEFINE until == IF ttl = 0 THEN 0 ELSE now + ttl
             r == Ask("share", w, d, to, until, type)
  <2>1. until \in Nat
      BY DEF TypeOK, HistoryType
  <2> HIDE DEF until
  <2>2. r \in Requests /\ r.op = "share" /\ r.by = w /\ r.deployment = d
      BY <2>1, AskType
  <2>3. Begin(c, "writing", r) /\ role[d][w] # "none"
      BY <1>5 DEF Share, until
  <2> HIDE DEF r
  <2> QED
      BY <1>m, <2>2, <2>3 DEF Asked, Reads
<1>6. ASSUME NEW op \in Reads, NEW type \in ContextTypes \cup {AnyType},
             Fetch(c, op, w, d, type)
      PROVE  \E first \in {"recipient", "writing", "reading"}, r \in Requests : Asked(c, first, r)
  <2> DEFINE r == Ask(op, w, d, w, 0, type)
  <2>1. r \in Requests /\ r.op = op /\ r.by = w /\ r.deployment = d
      BY DEF Ask, Requests
  <2>2. Begin(c, "reading", r) /\ role[d][w] # "none"
      BY <1>6 DEF Fetch
  <2> HIDE DEF r
  <2> QED
      BY <1>m, <2>1, <2>2 DEF Asked, Reads
<1> QED
    BY <1>1, <1>2, <1>3, <1>4, <1>5, <1>6

(* History is typed. *)
LEMMA ObserveType ==
    ASSUME TypeOK, Observe PROVE around' \in [Calls -> SUBSET Wallets]
<1> SUFFICES ASSUME NEW c \in Calls
             PROVE  around'[c] \subseteq Wallets /\ around' = [q \in Calls |-> around'[q]]
    BY DEF Observe
<1>1. around[c] \subseteq Wallets
    BY DEF TypeOK, HistoryType
<1> QED
    BY <1>1 DEF Observe, Members

(* Every step preserves the types. *)
LEMMA TypeStep == TypeOK /\ [Next]_vars => TypeOK'
<1> SUFFICES ASSUME TypeOK, [Next]_vars PROVE TypeOK'
    OBVIOUS
<1> USE MessagingAssumption
<1>1. CASE UNCHANGED vars
    BY <1>1 DEF vars, dbVars, TypeOK, RowType, RequestType, HistoryType
<1>2. CASE Next
  <2> DEFINE Rest == RowType' /\ RequestType' /\ since' \in [Calls -> Nat]
                     /\ before' \in [Calls -> Nat] /\ now' \in 0..MaxTime
  <2>1. now \in 0..MaxTime /\ since \in [Calls -> Nat] /\ before \in [Calls -> Nat]
      BY DEF TypeOK, HistoryType
  <2>2. ASSUME Tick PROVE Rest
      BY <2>1, <2>2 DEF Tick, dbVars, TypeOK, RowType, RequestType
  <2>3. ASSUME NEW c \in Calls, First(c) PROVE Rest
    <3>1. PICK first \in {"recipient", "writing", "reading"}, r \in Requests : Begin(c, first, r)
        BY <2>3, FirstAsks DEF Asked
    <3> QED
        BY <2>1, <3>1, BeginType
  <2>4. ASSUME NEW c \in Calls, Second(c) \/ MarkRead(c) PROVE Rest
    <3>1. now' = now /\ since' = since /\ before' = before
        BY <2>4 DEF Second, CheckRecipient, InsertMember, DeleteMember, InsertMessage, InsertShare,
                    Write, Audit, ReadRows, MarkRead
    <3>2. RowType'
      <4>1. CASE UNCHANGED dbVars
          BY <4>1 DEF dbVars, TypeOK, RowType
      <4>2. CASE InsertMember(c)
        <5>1. role' \in [Deployments -> [Wallets -> {"none", "member", "owner"}]]
            BY <4>2 DEF InsertMember, Write, RoleAfter, RoleOf, TypeOK, RowType
        <5> QED
            BY <4>2, <5>1 DEF InsertMember, Write, TypeOK, RowType
      <4>3. CASE DeleteMember(c)
        <5>1. role' \in [Deployments -> [Wallets -> {"none", "member", "owner"}]]
            BY <4>3 DEF DeleteMember, Write, TypeOK, RowType
        <5> QED
            BY <4>3, <5>1 DEF DeleteMember, Write, TypeOK, RowType
      <4>4. CASE InsertMessage(c)
          BY <4>4 DEF InsertMessage, Write, TypeOK, RowType
      <4>5. CASE InsertShare(c)
          BY <4>5 DEF InsertShare, Write, TypeOK, RowType
      <4>6. CASE Audit(c)
        <5>1. trail' \in Seq(Calls)
          <6>1. trail \in Seq(Calls) /\ Append(trail, c) \in Seq(Calls)
              BY DEF TypeOK, RowType
          <6> QED
              BY <4>6, <6>1 DEF Audit
        <5> QED
            BY <4>6, <5>1 DEF Audit, TypeOK, RowType
      <4>7. CASE MarkRead(c)
          BY <4>7 DEF MarkRead, TypeOK, RowType
      <4> QED
          BY <2>4, <4>1, <4>2, <4>3, <4>4, <4>5, <4>6, <4>7
             DEF Second, CheckRecipient, ReadRows
    <3>3. RequestType'
      <4>1. /\ request' = request
            /\ phase' = phase \/ \E p \in Phases \ {"idle"} :
                                    phase[c] # "idle" /\ phase' = [phase EXCEPT ![c] = p]
          BY <2>4 DEF Second, CheckRecipient, InsertMember, DeleteMember, InsertMessage, InsertShare,
                      Write, Audit, ReadRows, MarkRead, Phases, Under
      <4>2. answer' \in [Calls -> SUBSET Calls]
        <5>1. CASE ReadRows(c)
          <6> DEFINE rows == RowsOf(request[c].op)
                     I == Newest({i \in 1..Len(rows) : ForCaller(c, rows[i])})
          <6>1. rows \in Seq(Calls)
              BY DEF RowsOf, TypeOK, RowType
          <6>2. I \subseteq 1..Len(rows)
              BY DEF Newest
          <6>3. answer' = [answer EXCEPT ![c] = {rows[i] : i \in I}]
              BY <5>1 DEF ReadRows
          <6> HIDE DEF rows, I
          <6>4. \A i \in I : rows[i] \in Calls
              BY <6>1, <6>2
          <6> QED
              BY <6>3, <6>4 DEF TypeOK, RequestType
        <5>2. CASE answer' = answer
            BY <5>2 DEF TypeOK, RequestType
        <5> QED
            BY <2>4, <5>1, <5>2 DEF Second, CheckRecipient, InsertMember, DeleteMember,
               InsertMessage, InsertShare, Write, Audit, MarkRead
      <4> QED
          BY <4>1, <4>2 DEF TypeOK, RequestType
    <3> QED
        BY <2>1, <3>1, <3>2, <3>3
  <2>5. Rest /\ Observe
      BY <1>2, <2>2, <2>3, <2>4 DEF Next
  <2> QED
      BY <2>5, ObserveType DEF TypeOK, HistoryType
<1> QED
    BY <1>1, <1>2

-----------------------------------------------------------------------------
(* Roles and calls.                                                        *)

(* Nobody's role ever says more than who owns the deployment. *)
LEMMA RoleStep == TypeOK /\ RoleInv /\ [Next]_vars => RoleInv'
<1> SUFFICES ASSUME TypeOK, RoleInv, [Next]_vars PROVE RoleInv'
    OBVIOUS
<1>1. CASE role' = role
    BY <1>1 DEF RoleInv, RoleOf
<1>2. ASSUME NEW c \in Calls, InsertMember(c) PROVE RoleInv'
    BY <1>2 DEF InsertMember, RoleAfter, RoleInv, RoleOf, TypeOK, RowType
<1>3. ASSUME NEW c \in Calls, DeleteMember(c) PROVE RoleInv'
    BY <1>3 DEF DeleteMember, RoleInv, RoleOf, TypeOK, RowType
<1>4. ASSUME NEW c \in Calls, First(c) PROVE role' = role
    BY <1>4, FirstAsks DEF Asked, Begin, dbVars
<1> QED
    BY <1>1, <1>2, <1>3, <1>4 DEF Next, Second, CheckRecipient, InsertMessage, InsertShare, Write,
       Audit, ReadRows, MarkRead, Tick, dbVars, vars

(* Whoever was noted stays noted, and who is a member until a request      *)
(* writes or reads is noted.                                               *)
LEMMA AroundGrows ==
    ASSUME Observe, NEW c \in Calls, phase[c] # "idle", request'[c] = request[c]
    PROVE  /\ around[c] \subseteq around'[c]
           /\ phase[c] \in Under => Members(request[c].deployment)' \subseteq around'[c]
           /\ phase[c] \notin Under => around'[c] = around[c]
    BY DEF Observe

(* What CallInv says of a request holds on while others move. *)
LEMMA Elsewhere ==
    ASSUME TypeOK, Observe, NEW q \in Calls, CallInv(q),
           phase'[q] = phase[q], request'[q] = request[q], answer'[q] = answer[q],
           since'[q] = since[q], since[q] <= now => since[q] <= now',
           Has(messages, q)' <=> Has(messages, q), Has(shares, q)' <=> Has(shares, q),
           Has(trail, q)' <=> Has(trail, q),
           \A m \in Calls : phase[m] # "idle" => phase'[m] # "idle" /\ request'[m] = request[m]
    PROVE  CallInv(q)'
<1>1. CASE phase[q] = "idle"
    BY <1>1 DEF CallInv
<1>2. CASE phase[q] # "idle"
  <2>1. /\ around[q] \subseteq around'[q]
        /\ phase[q] \in Under => Members(request[q].deployment)' \subseteq around'[q]
      BY <1>2, AroundGrows
  <2>2. Among(q) => Among(q)'
      BY <2>1 DEF Among
  <2>3. Wrote(q) => Wrote(q)'
      BY <2>1 DEF Wrote
  <2>4. PhaseInv(q)'
      BY <1>2, <2>1, <2>2, <2>3 DEF CallInv, PhaseInv
  <2>5. SourceInv(q)'
    <3>1. \A m \in answer[q] : m \in Calls /\ phase[m] # "idle" /\ Meant(q, m)
        BY <1>2 DEF CallInv, SourceInv, TypeOK, RequestType
    <3>2. \A m \in answer'[q] : phase'[m] # "idle" /\ Meant(q, m)'
        BY <3>1 DEF Meant
    <3> QED
        BY <1>2, <2>2, <3>2 DEF CallInv, SourceInv
  <2> QED
      BY <1>2, <2>4, <2>5 DEF CallInv
<1> QED
    BY <1>1, <1>2

(* A request that has begun. *)
LEMMA BegunInv ==
    ASSUME IInv, Observe, NEW c \in Calls, NEW first \in {"recipient", "writing", "reading"},
           NEW r \in Requests, Asked(c, first, r)
    PROVE  \A q \in Calls : CallInv(q)'
<1>1. /\ phase[c] = "idle" /\ phase'[c] = first /\ request'[c] = r
      /\ UNCHANGED <<dbVars, answer, now>>
      /\ \A q \in Calls \ {c} : /\ phase'[q] = phase[q] /\ request'[q] = request[q]
                                /\ since'[q] = since[q]
      /\ r.op \in Reads => since'[c] = now
    BY DEF Asked, Begin, IInv, TypeOK, RequestType, HistoryType
<1>2. \A q \in Calls : CallInv(q)
    BY DEF IInv
<1>3. ASSUME NEW q \in Calls \ {c} PROVE CallInv(q)'
  <2>1. /\ Has(messages, q)' <=> Has(messages, q)
        /\ Has(shares, q)' <=> Has(shares, q)
        /\ Has(trail, q)' <=> Has(trail, q)
      BY <1>1 DEF dbVars, Has
  <2>2. TypeOK
      BY DEF IInv
  <2> QED
      BY <1>1, <1>2, <2>1, <2>2, Elsewhere
<1>4. CallInv(c)'
  <2>1. around'[c] = Members(r.deployment) /\ Members(r.deployment)' = Members(r.deployment)
    <3>1. phase'[c] # "idle"
        BY <1>1
    <3>2. around'[c] = Members(request'[c].deployment)
        BY <1>1, <3>1 DEF Observe, Members, Under
    <3>3. Members(r.deployment)' = Members(r.deployment)
        BY <1>1 DEF Members, dbVars
    <3> QED
        BY <1>1, <3>2, <3>3
  <2>2. ~ Has(messages, c)' /\ ~ Has(shares, c)' /\ ~ Has(trail, c)' /\ answer'[c] = {}
      BY <1>1, <1>2 DEF CallInv, dbVars, Has
  <2>3. now \in Nat
      BY MessagingAssumption DEF IInv, TypeOK, HistoryType
  <2>4. r.by \in Wallets /\ r.deployment \in Deployments
      BY DEF Requests
  <2>5. r.op = "remove" => r.by \in {r.to, Owner[r.deployment]}
      BY <2>4 DEF Asked, IInv, RoleInv, RoleOf
  <2>6. PhaseInv(c)'
      BY <1>1, <2>1, <2>3, <2>5 DEF PhaseInv, Asked, Reads
  <2>7. SourceInv(c)'
      BY <2>2 DEF SourceInv
  <2> QED
      BY <1>1, <2>6, <2>7 DEF CallInv
<1> QED
    BY <1>3, <1>4

(* What every step of a request after its first leaves alone. *)
LEMMA SecondMoves ==
    ASSUME TypeOK, NEW c \in Calls, Second(c)
    PROVE  /\ phase[c] # "idle" /\ UNCHANGED <<request, since, now>>
           /\ \E p \in Phases \ {"idle"} : phase' = [phase EXCEPT ![c] = p]
           /\ \A q \in Calls \ {c} : phase'[q] = phase[q] /\ answer'[q] = answer[q]
           /\ \A m \in Calls : phase[m] # "idle" => phase'[m] # "idle"
<1>1. phase[c] # "idle" /\ UNCHANGED <<request, since, now>>
    BY DEF Second, CheckRecipient, InsertMember, DeleteMember, InsertMessage, InsertShare, Write,
           Audit, ReadRows, Under
<1>2. \E p \in Phases \ {"idle"} : phase' = [phase EXCEPT ![c] = p]
    BY DEF Second, CheckRecipient, InsertMember, DeleteMember, InsertMessage, InsertShare, Write,
           Audit, ReadRows, Under, Phases
<1>3. \A q \in Calls \ {c} : answer'[q] = answer[q]
  <2>1. CASE ReadRows(c)
      BY <2>1 DEF ReadRows, TypeOK, RequestType
  <2>2. CASE answer' = answer
      BY <2>2
  <2> QED
      BY <2>1, <2>2 DEF Second, CheckRecipient, InsertMember, DeleteMember, InsertMessage,
         InsertShare, Write, Audit
<1> QED
    BY <1>1, <1>2, <1>3 DEF TypeOK, RequestType

(* The rows there are, of other requests and, but for its own, of this one. *)
LEMMA SecondRows ==
    ASSUME TypeOK, NEW c \in Calls, Second(c), NEW q \in Calls
    PROVE  /\ Has(messages, q)' <=> Has(messages, q) \/ (q = c /\ InsertMessage(c))
           /\ Has(shares, q)' <=> Has(shares, q) \/ (q = c /\ InsertShare(c))
           /\ Has(trail, q)' <=> Has(trail, q) \/ (q = c /\ Audit(c) /\ trail' = Append(trail, c))
<1>1. messages \in Seq(Calls) /\ shares \in Seq(Calls) /\ trail \in Seq(Calls)
    BY DEF TypeOK, RowType
<1>2. Has(messages, q)' <=> Has(messages, q) \/ (q = c /\ InsertMessage(c))
  <2>1. CASE InsertMessage(c)
    <3>1. messages' = Append(messages, c)
        BY <2>1 DEF InsertMessage
    <3>2. Has(Append(messages, c), q) <=> Has(messages, q) \/ q = c
        BY <1>1, HasAppend
    <3> QED
        BY <2>1, <3>1, <3>2 DEF Has
  <2>2. CASE ~ InsertMessage(c)
    <3>1. messages' = messages
        BY <2>2 DEF Second, CheckRecipient, InsertMember, DeleteMember, InsertShare, Audit, ReadRows,
                    dbVars
    <3> QED
        BY <2>2, <3>1 DEF Has
  <2> QED
      BY <2>1, <2>2
<1>3. Has(shares, q)' <=> Has(shares, q) \/ (q = c /\ InsertShare(c))
  <2>1. CASE InsertShare(c)
    <3>1. shares' = Append(shares, c)
        BY <2>1 DEF InsertShare
    <3>2. Has(Append(shares, c), q) <=> Has(shares, q) \/ q = c
        BY <1>1, HasAppend
    <3> QED
        BY <2>1, <3>1, <3>2 DEF Has
  <2>2. CASE ~ InsertShare(c)
    <3>1. shares' = shares
        BY <2>2 DEF Second, CheckRecipient, InsertMember, DeleteMember, InsertMessage, Audit, ReadRows,
                    dbVars
    <3> QED
        BY <2>2, <3>1 DEF Has
  <2> QED
      BY <2>1, <2>2
<1>4. Has(trail, q)' <=> Has(trail, q) \/ (q = c /\ Audit(c) /\ trail' = Append(trail, c))
  <2>1. CASE Audit(c) /\ trail' = Append(trail, c)
    <3>1. Has(Append(trail, c), q) <=> Has(trail, q) \/ q = c
        BY <1>1, HasAppend
    <3> QED
        BY <2>1, <3>1 DEF Has
  <2>2. CASE ~ (Audit(c) /\ trail' = Append(trail, c))
    <3>1. trail' = trail
        BY <2>2 DEF Second, CheckRecipient, InsertMember, DeleteMember, InsertMessage, InsertShare,
                    Write, Audit, ReadRows, dbVars
    <3> QED
        BY <2>2, <3>1 DEF Has
  <2> QED
      BY <2>1, <2>2
<1> QED
    BY <1>2, <1>3, <1>4

(* A request that reads: its answer is meant for whoever asked. *)
LEMMA AnswerMeant ==
    ASSUME IInv, NEW c \in Calls, ReadRows(c), NEW m \in answer'[c]
    PROVE  m \in Calls /\ phase[m] # "idle" /\ Meant(c, m)
<1> DEFINE rows == RowsOf(request[c].op)
           I    == Newest({i \in 1..Len(rows) : ForCaller(c, rows[i])})
<1>1. phase[c] = "reading" /\ answer' = [answer EXCEPT ![c] = {rows[i] : i \in I}]
    BY DEF ReadRows
<1>2. rows \in Seq(Calls)
    BY DEF RowsOf, IInv, TypeOK, RowType
<1>3. \A i \in I : i \in 1..Len(rows) /\ ForCaller(c, rows[i])
    BY DEF Newest
<1> HIDE DEF I
<1>4. answer'[c] = {rows[i] : i \in I}
    BY <1>1 DEF IInv, TypeOK, RequestType
<1>5. PICK i \in I : m = rows[i]
    BY <1>4
<1>6. i \in 1..Len(rows) /\ ForCaller(c, m)
    BY <1>3, <1>5
<1>7. Has(rows, m)
    BY <1>5, <1>6 DEF Has
<1>8. m \in Calls
    BY <1>2, <1>5, <1>6
<1>9. phase[m] # "idle"
    BY <1>7, <1>8 DEF RowsOf, IInv, CallInv
<1>10. since[c] <= now
    BY <1>1 DEF IInv, CallInv, PhaseInv
<1>11. request[m].until \in Nat /\ since[c] \in Nat /\ now \in Nat
    BY <1>8, <1>9, MessagingAssumption DEF IInv, TypeOK, RequestType, HistoryType, Requests
<1>12. request[m].until = 0 \/ request[m].until > since[c]
    BY <1>6, <1>10, <1>11 DEF ForCaller
<1>13. request[c].type # AnyType => request[m].type = request[c].type
    BY <1>6 DEF ForCaller, OfType
<1> QED
    BY <1>6, <1>8, <1>9, <1>12, <1>13 DEF Meant, ForCaller

(* A request keeps what is said of it when it takes its next step. *)
LEMMA SecondInv ==
    ASSUME IInv, Observe, NEW c \in Calls, Second(c)
    PROVE  CallInv(c)'
<1>t. TypeOK
    BY DEF IInv
<1>m. /\ phase[c] # "idle" /\ phase'[c] # "idle" /\ UNCHANGED <<request, since, now>>
      /\ request[c] \in Requests
    BY <1>t, SecondMoves DEF TypeOK, RequestType
<1>i. PhaseInv(c) /\ SourceInv(c)
    BY <1>m DEF IInv, CallInv
<1>a. /\ around[c] \subseteq around'[c]
      /\ phase[c] \in Under => Members(request[c].deployment)' \subseteq around'[c]
      /\ phase[c] \notin Under => around'[c] = around[c]
    BY <1>m, AroundGrows
<1>r. /\ Has(messages, c)' <=> Has(messages, c) \/ InsertMessage(c)
      /\ Has(shares, c)' <=> Has(shares, c) \/ InsertShare(c)
      /\ Has(trail, c)' <=> Has(trail, c) \/ (Audit(c) /\ trail' = Append(trail, c))
    BY <1>t, SecondRows
<1>w. /\ Among(c) => Among(c)'
      /\ Wrote(c) => Wrote(c)'
    BY <1>m, <1>a, <1>r DEF Among, Wrote
<1>1. CASE CheckRecipient(c)
  <2>1. phase[c] = "recipient" /\ phase'[c] = "writing" /\ answer' = answer
        /\ role[request[c].deployment][request[c].to] # "none"
      BY <1>1, <1>t DEF CheckRecipient, RecipientFound, TypeOK, RequestType
  <2>2. request[c].op = "send" /\ request[c].to \in Members(request[c].deployment)
        /\ request[c].by \in around[c] /\ Members(request[c].deployment) \subseteq around[c]
      BY <2>1, <1>i DEF PhaseInv, Under, Members
  <2>3. Among(c)'
      BY <1>m, <1>a, <2>2 DEF Among
  <2>4. PhaseInv(c)'
      BY <1>m, <1>a, <1>i, <2>1, <2>2, <2>3 DEF PhaseInv, Under, Reads
  <2>5. SourceInv(c)'
      BY <1>i, <1>r, <2>1 DEF SourceInv, InsertMessage, InsertShare, Audit, Write
  <2> QED
      BY <1>m, <2>4, <2>5 DEF CallInv
<1>2. CASE InsertMember(c) \/ DeleteMember(c) \/ InsertMessage(c) \/ InsertShare(c)
  <2>1. /\ phase[c] = "writing" /\ answer' = answer
        /\ phase'[c] \in {"auditing", "done"}
        /\ phase'[c] = "auditing" => request[c].op \in {"send", "share", "join"}
      BY <1>2, <1>t DEF InsertMember, DeleteMember, InsertMessage, InsertShare, Write, TypeOK,
                        RequestType
  <2>2. Wrote(c)'
    <3>1. CASE InsertMember(c)
      <4>1. request[c].op = "join" /\ request[c].by \in Wallets
            /\ request[c].deployment \in Deployments
          BY <3>1, <1>m DEF InsertMember, Write, Requests
      <4>2. role'[request[c].deployment][request[c].by] # "none"
          BY <3>1, <4>1, <1>t DEF InsertMember, RoleAfter, RoleOf, TypeOK, RowType
      <4>3. request[c].by \in Members(request[c].deployment)'
          BY <1>m, <4>1, <4>2 DEF Members
      <4>4. request[c].by \in around'[c]
          BY <1>a, <2>1, <4>3 DEF Under
      <4> QED
          BY <1>m, <4>1, <4>4 DEF Wrote
    <3>2. CASE DeleteMember(c)
        BY <1>m, <3>2 DEF DeleteMember, Write, Wrote
    <3>3. CASE InsertMessage(c)
        BY <1>m, <1>r, <3>3 DEF InsertMessage, Write, Wrote
    <3>4. CASE InsertShare(c)
        BY <1>m, <1>r, <3>4 DEF InsertShare, Write, Wrote
    <3> QED
        BY <1>2, <3>1, <3>2, <3>3, <3>4
  <2>3. PhaseInv(c)'
      BY <1>m, <1>a, <1>i, <2>1, <2>2 DEF PhaseInv, Under
  <2>4. request[c].op = "send" => Among(c)'
      BY <1>i, <1>w, <2>1 DEF PhaseInv
  <2>5. SourceInv(c)'
      BY <1>i, <1>r, <1>w, <2>1, <2>4 DEF SourceInv, InsertMessage, Audit, Write
  <2> QED
      BY <1>m, <2>3, <2>5 DEF CallInv
<1>3. CASE Audit(c)
  <2>1. phase[c] = "auditing" /\ phase'[c] = "done" /\ answer' = answer
      BY <1>3, <1>t DEF Audit, TypeOK, RequestType
  <2>2. request[c].op \in {"send", "share", "join"} /\ Wrote(c)'
      BY <1>i, <1>w, <2>1 DEF PhaseInv
  <2>3. PhaseInv(c)'
      BY <1>m, <1>a, <1>i, <2>1, <2>2 DEF PhaseInv, Under
  <2>4. ~ InsertMessage(c) /\ ~ InsertShare(c)
      BY <2>1 DEF InsertMessage, InsertShare, Write
  <2>5. answer[c] = {}
      BY <1>i, <2>1 DEF SourceInv
  <2>6. SourceInv(c)'
      BY <1>m, <1>i, <1>r, <1>w, <2>1, <2>2, <2>4, <2>5 DEF SourceInv
  <2> QED
      BY <1>m, <2>3, <2>6 DEF CallInv
<1>4. CASE ReadRows(c)
  <2>1. phase[c] = "reading" /\ phase'[c] = "done"
      BY <1>4, <1>t DEF ReadRows, TypeOK, RequestType
  <2>2. request[c].op \in Reads /\ Wrote(c)'
      BY <1>m, <1>i, <2>1 DEF PhaseInv, Wrote, Reads
  <2>3. PhaseInv(c)'
      BY <1>m, <1>a, <1>i, <2>1, <2>2 DEF PhaseInv, Under, Reads
  <2>4. ~ InsertMessage(c) /\ ~ InsertShare(c) /\ ~ Audit(c)
      BY <2>1 DEF InsertMessage, InsertShare, Write, Audit
  <2>5. \A m \in answer'[c] : phase'[m] # "idle" /\ Meant(c, m)'
    <3>1. \A m \in answer'[c] : m \in Calls /\ phase[m] # "idle" /\ Meant(c, m)
        BY <1>4, AnswerMeant
    <3>2. \A m \in answer'[c] : phase'[m] # "idle"
        BY <1>t, <3>1, SecondMoves
    <3> QED
        BY <1>m, <3>1, <3>2 DEF Meant
  <2>6. SourceInv(c)'
      BY <1>i, <1>r, <1>w, <2>1, <2>4, <2>5 DEF SourceInv
  <2> QED
      BY <1>m, <2>3, <2>6 DEF CallInv
<1> QED
    BY <1>1, <1>2, <1>3, <1>4 DEF Second

(* Every step keeps what is said of every request. *)
LEMMA CallStep == IInv /\ [Next]_vars => \A q \in Calls : CallInv(q)'
<1> SUFFICES ASSUME IInv, [Next]_vars PROVE \A q \in Calls : CallInv(q)'
    OBVIOUS
<1>1. TypeOK /\ \A q \in Calls : CallInv(q)
    BY DEF IInv
<1>2. CASE UNCHANGED vars
    BY <1>1, <1>2 DEF vars, dbVars, CallInv, PhaseInv, SourceInv, Among, Wrote, Meant, Has, Members
<1>3. ASSUME Tick, Observe PROVE \A q \in Calls : CallInv(q)'
  <2> SUFFICES ASSUME NEW q \in Calls PROVE CallInv(q)'
      OBVIOUS
  <2>1. UNCHANGED <<dbVars, phase, request, answer, since>> /\ now' = now + 1
      BY <1>3 DEF Tick
  <2>2. since[q] \in Nat /\ now \in Nat
      BY <1>1, MessagingAssumption DEF TypeOK, HistoryType
  <2>3. /\ Has(messages, q)' <=> Has(messages, q)
        /\ Has(shares, q)' <=> Has(shares, q)
        /\ Has(trail, q)' <=> Has(trail, q)
      BY <2>1 DEF dbVars, Has
  <2> QED
      BY <1>1, <1>3, <2>1, <2>2, <2>3, Elsewhere
<1>4. ASSUME NEW c \in Calls, First(c), Observe PROVE \A q \in Calls : CallInv(q)'
    BY <1>1, <1>4, FirstAsks, BegunInv
<1>5. ASSUME NEW c \in Calls, Second(c), Observe PROVE \A q \in Calls : CallInv(q)'
  <2>1. CallInv(c)'
      BY <1>5, SecondInv
  <2>2. ASSUME NEW q \in Calls \ {c} PROVE CallInv(q)'
    <3>1. /\ UNCHANGED <<request, since, now>> /\ phase'[q] = phase[q] /\ answer'[q] = answer[q]
          /\ \A m \in Calls : phase[m] # "idle" => phase'[m] # "idle"
        BY <1>1, <1>5, SecondMoves
    <3>2. /\ Has(messages, q)' <=> Has(messages, q)
          /\ Has(shares, q)' <=> Has(shares, q)
          /\ Has(trail, q)' <=> Has(trail, q)
        BY <1>1, <1>5, SecondRows
    <3> QED
        BY <1>1, <1>5, <3>1, <3>2, Elsewhere
  <2> QED
      BY <2>1, <2>2
<1>6. ASSUME NEW m \in Calls, MarkRead(m), Observe PROVE \A q \in Calls : CallInv(q)'
  <2> SUFFICES ASSUME NEW q \in Calls PROVE CallInv(q)'
      OBVIOUS
  <2>1. UNCHANGED <<messages, shares, trail, phase, request, answer, since, now>>
      BY <1>6 DEF MarkRead
  <2>2. /\ Has(messages, q)' <=> Has(messages, q)
        /\ Has(shares, q)' <=> Has(shares, q)
        /\ Has(trail, q)' <=> Has(trail, q)
      BY <2>1 DEF Has
  <2> QED
      BY <1>1, <1>6, <2>1, <2>2, Elsewhere
<1> QED
    BY <1>2, <1>3, <1>4, <1>5, <1>6 DEF Next

(* A request is audited once, for it is done afterwards. *)
LEMMA TrailStep == IInv /\ [Next]_vars => TrailInv'
<1> SUFFICES ASSUME IInv, [Next]_vars PROVE TrailInv'
    OBVIOUS
<1>1. CASE trail' = trail
    BY <1>1 DEF IInv, TrailInv
<1>2. ASSUME NEW c \in Calls, Audit(c), trail' = Append(trail, c) PROVE TrailInv'
  <2> DEFINE n == Len(trail)
  <2>1. trail \in Seq(Calls)
      BY DEF IInv, TypeOK, RowType
  <2>2. /\ n \in Nat /\ Len(trail') = n + 1 /\ trail'[n + 1] = c
        /\ \A i \in 1..n : trail'[i] = trail[i]
      BY <1>2, <2>1
  <2>3. phase[c] = "auditing"
      BY <1>2 DEF Audit
  <2>4. ~ Has(trail, c)
      BY <2>3 DEF IInv, CallInv, SourceInv
  <2>5. \A i \in 1..n : trail[i] # c
      BY <2>4 DEF Has
  <2>6. \A i, j \in 1..n : i # j => trail[i] # trail[j]
      BY DEF IInv, TrailInv
  <2> HIDE DEF n
  <2> SUFFICES ASSUME NEW i \in 1..(n + 1), NEW j \in 1..(n + 1), i # j
               PROVE  trail'[i] # trail'[j]
      BY <2>2 DEF TrailInv
  <2>7. CASE i = n + 1
    <3>1. j \in 1..n
        BY <2>2, <2>7
    <3> QED
        BY <2>2, <2>5, <2>7, <3>1
  <2>8. CASE j = n + 1
    <3>1. i \in 1..n
        BY <2>2, <2>8
    <3> QED
        BY <2>2, <2>5, <2>8, <3>1
  <2>9. CASE i \in 1..n /\ j \in 1..n
      BY <2>2, <2>6, <2>9
  <2> QED
      BY <2>2, <2>7, <2>8, <2>9
<1>3. ASSUME NEW c \in Calls, First(c) PROVE trail' = trail
  <2>1. TypeOK
      BY DEF IInv
  <2> QED
      BY <1>3, <2>1, FirstAsks DEF Asked, Begin, dbVars
<1> QED
    BY <1>1, <1>2, <1>3 DEF Next, Second, CheckRecipient, InsertMember, DeleteMember, InsertMessage,
       InsertShare, Write, Audit, ReadRows, MarkRead, Tick, dbVars, vars

-----------------------------------------------------------------------------
(* A page of answers.                                                      *)

(* If the page leaves out i, it is full, and of later rows only: the rank  *)
(* of a row counted from the end is one-to-one.                            *)
LEMMA FullPage ==
    ASSUME NEW J, J \subseteq Nat, IsFiniteSet(J), NEW i \in J, i \notin Newest(J)
    PROVE  Cardinality(Newest(J)) = Page /\ \A j \in Newest(J) : j > i
<1> DEFINE Above(j) == {k \in J : k > j}
           rank == [j \in J |-> Cardinality(Above(j))]
           n == Cardinality(J)
<1>p. Page \in Nat \ {0}
    BY MessagingAssumption
<1>1. n \in Nat /\ \A j \in J : IsFiniteSet(Above(j)) /\ Cardinality(Above(j)) \in Nat
    BY FS_Subset, FS_CardinalityType
<1>2. \A j \in J : Cardinality(Above(j)) < n
  <2> SUFFICES ASSUME NEW j \in J PROVE Cardinality(Above(j)) < n
      OBVIOUS
  <2>1. Cardinality(Above(j)) <= n /\ (n = Cardinality(Above(j)) => J = Above(j))
      BY FS_Subset
  <2>2. j \notin Above(j)
      OBVIOUS
  <2> QED
      BY <1>1, <2>1, <2>2
<1>3. ASSUME NEW j \in J, NEW k \in J, j < k
      PROVE  Cardinality(Above(k)) < Cardinality(Above(j))
  <2>0. j \in Nat /\ k \in Nat /\ \A m \in J : m \in Nat
      OBVIOUS
  <2>1. Above(k) \subseteq Above(j) /\ k \in Above(j) /\ k \notin Above(k)
    <3>1. \A m \in J : m > k => m > j
        BY <1>3, <2>0
    <3>2. k > j /\ ~ (k > k)
        BY <1>3, <2>0
    <3> QED
        BY <3>1, <3>2
  <2>2. /\ Cardinality(Above(k)) <= Cardinality(Above(j))
        /\ Cardinality(Above(j)) = Cardinality(Above(k)) => Above(j) = Above(k)
      BY <1>1, <2>1, FS_Subset
  <2> QED
      BY <1>1, <2>1, <2>2
<1>4. rank \in [J -> 0..n - 1] /\ \A j \in J : rank[j] \in Nat
    BY <1>1, <1>2
<1>d. \A j, k \in J : j < k => rank[k] < rank[j]
    BY <1>3
<1>n. Newest(J) = {j \in J : rank[j] < Page}
    BY DEF Newest
<1> HIDE DEF rank, n
<1>5. \A j, k \in J : rank[j] = rank[k] => j = k
  <2> SUFFICES ASSUME NEW j \in J, NEW k \in J, j # k PROVE rank[j] # rank[k]
      OBVIOUS
  <2>1. j \in Nat /\ k \in Nat /\ rank[j] \in Nat /\ rank[k] \in Nat
      BY <1>4
  <2>2. j < k \/ k < j
      BY <2>1
  <2> QED
      BY <1>d, <2>1, <2>2
<1>6. rank \in Injection(J, 0..n - 1)
    BY <1>4, <1>5 DEF Injection, IsInjective
<1>7. IsFiniteSet(0..n - 1) /\ Cardinality(0..n - 1) = n
  <2>1. /\ IsFiniteSet(0..n - 1)
        /\ Cardinality(0..n - 1) = IF 0 > n - 1 THEN 0 ELSE (n - 1) - 0 + 1
      BY <1>1, FS_Interval
  <2> QED
      BY <1>1, <2>1
<1>8. rank \in Surjection(J, 0..n - 1)
    BY <1>6, <1>7, FS_Injection DEF n
<1>9. \A r \in 0..n - 1 : \E j \in J : rank[j] = r
    BY <1>8 DEF Surjection
<1>10. rank[i] >= Page /\ Page <= n - 1
    BY <1>p, <1>1, <1>4, <1>n
<1> DEFINE first == [j \in Newest(J) |-> rank[j]]
<1>11. /\ first \in [Newest(J) -> 0..Page - 1]
       /\ \A j, k \in Newest(J) : first[j] = first[k] => j = k
       /\ \A r \in 0..Page - 1 : \E j \in Newest(J) : first[j] = r
  <2>0. ASSUME NEW j \in Newest(J) PROVE j \in J /\ rank[j] \in 0..Page - 1
    <3>1. j \in J /\ rank[j] < Page
        BY <1>n
    <3>2. rank[j] \in Nat
        BY <1>4, <3>1
    <3> QED
        BY <1>p, <3>1, <3>2
  <2>1. first \in [Newest(J) -> 0..Page - 1]
      BY <2>0
  <2>2. \A j, k \in Newest(J) : first[j] = first[k] => j = k
      BY <1>5, <2>0
  <2>3. ASSUME NEW r \in 0..Page - 1 PROVE \E j \in Newest(J) : first[j] = r
    <3>1. PICK j \in J : rank[j] = r
        BY <1>p, <1>1, <1>9, <1>10
    <3>2. j \in Newest(J) /\ first[j] = r
        BY <1>p, <1>n, <3>1
    <3> QED
        BY <3>2
  <2> QED
      BY <2>1, <2>2, <2>3
<1> HIDE DEF first
<1>12. first \in Bijection(Newest(J), 0..Page - 1)
    BY <1>11 DEF Bijection, Injection, Surjection, IsInjective
<1>13. IsFiniteSet(Newest(J))
    BY <1>n, FS_Subset
<1>14. Cardinality(0..Page - 1) = Page
  <2>1. Cardinality(0..Page - 1) = IF 0 > Page - 1 THEN 0 ELSE (Page - 1) - 0 + 1
      BY <1>p, FS_Interval
  <2> QED
      BY <1>p, <2>1
<1>15. Cardinality(Newest(J)) = Page
    BY <1>12, <1>13, <1>14, FS_Bijection DEF ExistsBijection
<1>16. ASSUME NEW j \in Newest(J) PROVE j > i
  <2>1. j \in J /\ rank[j] < Page
      BY <1>n
  <2>2. i \in Nat /\ j \in Nat /\ rank[i] \in Nat /\ rank[j] \in Nat
      BY <1>4, <2>1
  <2>3. i # j /\ ~ (j < i)
      BY <1>p, <1>d, <1>10, <2>1, <2>2
  <2> QED
      BY <2>2, <2>3
<1> QED
    BY <1>15, <1>16

(* The read of a page accounts for every row that was there.               *)
LEMMA ReadAccounts ==
    ASSUME IInv, AnswerInv, NEW c \in Calls, ReadRows(c)
    PROVE  ReadInv(c)'
<1> DEFINE rows == RowsOf(request[c].op)
           J    == {i \in 1..Len(rows) : ForCaller(c, rows[i])}
<1>1. /\ phase[c] = "reading" /\ answer'[c] = {rows[i] : i \in Newest(J)}
      /\ UNCHANGED <<messages, shares, read, request, since, before, now>>
    BY DEF ReadRows, dbVars, IInv, TypeOK, RequestType
<1>2. request[c] \in Requests /\ request[c].op \in Reads
    BY <1>1 DEF IInv, TypeOK, RequestType, CallInv, PhaseInv
<1>3. rows \in Seq(Calls) /\ Len(rows) \in Nat
    BY DEF RowsOf, IInv, TypeOK, RowType
<1>4. before[c] \in Nat /\ before[c] <= Len(rows)
    BY <1>1, <1>2 DEF AnswerInv, ReadInv, IInv, TypeOK, HistoryType
<1>5. \A i, j \in 1..Len(rows) : rows[i] = rows[j] => i = j
    BY DEF AnswerInv, Distinct, RowsOf
<1>6. J \subseteq Nat /\ IsFiniteSet(J) /\ J \subseteq 1..Len(rows)
  <2>1. IsFiniteSet(1..Len(rows))
      BY <1>3, FS_Interval
  <2> QED
      BY <1>3, <2>1, FS_Subset
<1>7. Newest(J) \subseteq J
    BY DEF Newest
<1>8. rows' = rows
    BY <1>1 DEF RowsOf
<1>9. Shown(c)' = Newest(J)
  <2>1. Shown(c)' = {i \in 1..Len(rows) : rows[i] \in answer'[c]}
      BY <1>8 DEF Shown
  <2> HIDE DEF J, rows
  <2>2. ASSUME NEW i \in 1..Len(rows) PROVE rows[i] \in answer'[c] <=> i \in Newest(J)
      BY <1>1, <1>5, <1>6, <1>7
  <2> QED
      BY <1>6, <1>7, <2>1, <2>2
<1>10. ASSUME NEW i \in 1..before[c] PROVE Accounted(c, i)'
  <2>1. i \in 1..Len(rows) /\ rows[i] \in Calls
      BY <1>3, <1>4
  <2>2. phase[rows[i]] # "idle"
    <3>1. Has(rows, rows[i])
        BY <2>1 DEF Has
    <3> QED
        BY <2>1, <3>1 DEF RowsOf, IInv, CallInv
  <2>3. request[rows[i]].until \in Nat /\ now \in Nat
      BY <2>1, <2>2, MessagingAssumption DEF IInv, TypeOK, RequestType, HistoryType, Requests
  <2>4. CASE i \in Newest(J)
      BY <1>9, <2>4 DEF Accounted
  <2>5. CASE i \in J /\ i \notin Newest(J)
    <3>1. Cardinality(Newest(J)) = Page /\ \A j \in Newest(J) : j > i
      <4> HIDE DEF J
      <4> QED
          BY <1>6, <2>5, FullPage
    <3>2. {j \in Shown(c)' : j > i} = Newest(J)
        BY <1>9, <3>1
    <3>3. Cardinality({j \in Shown(c)' : j > i}) = Page
        BY <3>1, <3>2
    <3> QED
        BY <3>3 DEF Accounted
  <2>6. CASE i \notin J
    <3>1. ~ ForCaller(c, rows[i])
        BY <2>1, <2>6
    <3>2. ~ Meant(c, rows[i]) \/ Expired(rows[i]) \/ (request[c].op = "unread" /\ rows[i] \in read)
        BY <2>3, <3>1 DEF ForCaller, OfType, Meant, Expired
    <3>3. (~ Meant(c, rows[i]) \/ Expired(rows[i]) \/ (request[c].op = "unread" /\ rows[i] \in read))'
        BY <1>1, <1>8, <3>2 DEF Meant, Expired
    <3> QED
        BY <3>3 DEF Accounted
  <2> QED
      BY <2>4, <2>5, <2>6
<1>11. \A m \in answer'[c] : Has(rows, m)
    BY <1>1, <1>6, <1>7 DEF Has
<1> QED
    BY <1>1, <1>4, <1>8, <1>10, <1>11 DEF ReadInv

(* Rows that are one call's each, and of another call one more.            *)
LEMMA DistinctAppend ==
    ASSUME NEW rows \in Seq(Calls), NEW c \in Calls, Distinct(rows), ~ Has(rows, c)
    PROVE  Distinct(Append(rows, c))
<1> DEFINE n == Len(rows)
           more == Append(rows, c)
<1>1. /\ n \in Nat /\ Len(more) = n + 1 /\ more[n + 1] = c
      /\ \A i \in 1..n : more[i] = rows[i] /\ rows[i] # c
    BY DEF Has
<1>2. \A i, j \in 1..n : rows[i] = rows[j] => i = j
    BY DEF Distinct
<1> HIDE DEF n, more
<1>3. ASSUME NEW i \in 1..n + 1, NEW j \in 1..n + 1, more[i] = more[j] PROVE i = j
  <2>1. CASE i \in 1..n /\ j \in 1..n
      BY <1>1, <1>2, <1>3, <2>1
  <2>2. CASE i = n + 1 /\ j \in 1..n
      BY <1>1, <1>3, <2>2
  <2>3. CASE i \in 1..n /\ j = n + 1
      BY <1>1, <1>3, <2>3
  <2> QED
      BY <1>1, <2>1, <2>2, <2>3
<1> QED
    BY <1>1, <1>3 DEF Distinct, more

(* A table after a step: as it was, or with one row more of a call that    *)
(* had none.                                                               *)
Grown(rows, more, c) == more = rows \/ (more = Append(rows, c) /\ ~ Has(rows, c))

(* What a request was answered with is still the answer when rows are      *)
(* added, read or expire.                                                  *)
LEMMA ReadKept ==
    ASSUME IInv, AnswerInv, NEW q \in Calls, NEW c \in Calls,
           phase'[q] = phase[q], request'[q] = request[q], answer'[q] = answer[q],
           since'[q] = since[q], before'[q] = before[q],
           Grown(messages, messages', c), Grown(shares, shares', c),
           \A m \in Calls : phase[m] # "idle" => request'[m] = request[m],
           read \subseteq read', now' \in {now, now + 1}
    PROVE  ReadInv(q)'
<1> SUFFICES ASSUME phase[q] \in {"reading", "done"}, request[q].op \in Reads
             PROVE  ReadInv(q)'
    BY DEF ReadInv
<1> DEFINE rows == RowsOf(request[q].op)
           n == Len(rows)
           more == RowsOf(request[q].op)'
<1>1. rows \in Seq(Calls) /\ n \in Nat
    BY DEF RowsOf, IInv, TypeOK, RowType
<1>2. Grown(rows, more, c)
    BY DEF RowsOf
<1>3. /\ Len(more) = n \/ (Len(more) = n + 1 /\ more[n + 1] = c /\ ~ Has(rows, c))
      /\ \A i \in 1..n : more[i] = rows[i]
  <2> HIDE DEF rows, more
  <2> QED
      BY <1>1, <1>2 DEF Grown
<1>4. /\ before[q] \in Nat /\ before[q] <= n
      /\ \A m \in answer[q] : Has(rows, m)
      /\ phase[q] = "done" => \A i \in 1..before[q] : Accounted(q, i)
    BY DEF AnswerInv, ReadInv, IInv, TypeOK, HistoryType
<1>5. \A m \in answer[q] : Has(more, m)
  <2> HIDE DEF rows, more
  <2> QED
      BY <1>1, <1>3, <1>4 DEF Has
<1>6. Shown(q)' = Shown(q)
  <2>1. /\ Shown(q) = {i \in 1..n : rows[i] \in answer[q]}
        /\ Shown(q)' = {i \in 1..Len(more) : more[i] \in answer[q]}
      BY DEF Shown
  <2> HIDE DEF rows, more, n
  <2>2. Len(more) = n + 1 => more[n + 1] \notin answer[q]
    <3>1. ~ Has(rows, c) => c \notin answer[q]
        BY <1>4
    <3> QED
        BY <1>1, <1>3, <3>1
  <2> QED
      BY <1>1, <1>3, <2>1, <2>2
<1>7. ASSUME NEW i \in 1..before[q], Accounted(q, i) PROVE Accounted(q, i)'
  <2>1. i \in 1..n /\ rows[i] \in Calls /\ more[i] = rows[i]
      BY <1>1, <1>3, <1>4
  <2> SUFFICES ASSUME NEW m \in Calls, m = rows[i], m = more[i] PROVE Accounted(q, i)'
      BY <2>1
  <2>2. Has(rows, m)
      BY <2>1 DEF Has
  <2>3. phase[m] # "idle"
      BY <2>2 DEF RowsOf, IInv, CallInv
  <2>4. request'[m] = request[m] /\ request[m].until \in Nat /\ now \in Nat
      BY <2>3, MessagingAssumption DEF IInv, TypeOK, RequestType, HistoryType, Requests
  <2>5. /\ Meant(q, m)' => Meant(q, m)
        /\ Expired(m) => Expired(m)'
      BY <2>4 DEF Meant, Expired
  <2>6. \/ ~ Meant(q, m) \/ Expired(m)
        \/ request[q].op = "unread" /\ m \in read
        \/ i \in Shown(q)
        \/ Cardinality({k \in Shown(q) : k > i}) = Page
      BY <1>7 DEF Accounted
  <2>7. \/ ~ Meant(q, m)' \/ Expired(m)'
        \/ request'[q].op = "unread" /\ m \in read'
        \/ i \in Shown(q)'
        \/ Cardinality({k \in Shown(q)' : k > i}) = Page
      BY <1>6, <2>5, <2>6
  <2> QED
      BY <2>7 DEF Accounted
<1> QED
    BY <1>3, <1>4, <1>5, <1>7 DEF ReadInv

(* Every step accounts for the rows again: a request begins over the rows  *)
(* there are, and the page it reads is the newest of them.                 *)
LEMMA AnswerStep == IInv /\ AnswerInv /\ [Next]_vars => AnswerInv'
<1> SUFFICES ASSUME IInv, AnswerInv, [Next]_vars PROVE AnswerInv'
    OBVIOUS
<1>t. TypeOK /\ messages \in Seq(Calls) /\ shares \in Seq(Calls)
    BY DEF IInv, TypeOK, RowType
<1>1. ASSUME NEW c \in Calls, Grown(messages, messages', c), Grown(shares, shares', c)
      PROVE  Distinct(messages)' /\ Distinct(shares)'
    BY <1>t, <1>1, DistinctAppend DEF Grown, AnswerInv, Distinct
<1>2. ASSUME NEW c \in Calls, UNCHANGED <<messages, shares>>
      PROVE  Grown(messages, messages', c) /\ Grown(shares, shares', c)
    BY <1>2 DEF Grown
<1>3. CASE UNCHANGED vars
  <2>1. UNCHANGED <<messages, shares, phase, request, answer, since, before, read, now>>
      BY <1>3 DEF vars, dbVars
  <2>2. \A q \in Calls : ReadInv(q)'
      BY <1>2, <1>t, <2>1, ReadKept DEF TypeOK, HistoryType
  <2> QED
      BY <2>1, <2>2 DEF AnswerInv, Distinct
<1>4. ASSUME Tick \/ \E m \in Calls : MarkRead(m) PROVE AnswerInv'
  <2>1. /\ UNCHANGED <<messages, shares, phase, request, answer, since, before>>
        /\ read \subseteq read' /\ now' \in {now, now + 1}
      BY <1>4 DEF Tick, MarkRead, dbVars
  <2>2. \A q \in Calls : ReadInv(q)'
      BY <1>2, <2>1, ReadKept
  <2> QED
      BY <2>1, <2>2 DEF AnswerInv, Distinct
<1>5. ASSUME NEW c \in Calls, First(c) PROVE AnswerInv'
  <2>1. PICK first \in {"recipient", "writing", "reading"}, r \in Requests : Asked(c, first, r)
      BY <1>5, <1>t, FirstAsks
  <2>2. /\ UNCHANGED <<dbVars, answer, now>> /\ phase[c] = "idle"
        /\ phase' = [phase EXCEPT ![c] = first] /\ request' = [request EXCEPT ![c] = r]
        /\ r.op \in Reads => before' = [before EXCEPT ![c] = Len(RowsOf(r.op))]
        /\ \A q \in Calls \ {c} : before'[q] = before[q] /\ since'[q] = since[q]
        /\ r.op \notin Reads => UNCHANGED <<since, before>>
      BY <2>1, <1>t DEF Asked, Begin, TypeOK, HistoryType
  <2>3. \A m \in Calls : phase[m] # "idle" => request'[m] = request[m]
      BY <1>t, <2>2 DEF TypeOK, RequestType
  <2>4. ASSUME NEW q \in Calls \ {c} PROVE ReadInv(q)'
      BY <1>2, <1>t, <2>2, <2>3, ReadKept DEF dbVars, TypeOK, RequestType
  <2>5. ReadInv(c)'
    <3>1. phase'[c] = first /\ request'[c] = r /\ answer'[c] = {} /\ RowsOf(r.op)' = RowsOf(r.op)
        BY <1>t, <2>2 DEF TypeOK, RequestType, IInv, CallInv, dbVars, RowsOf
    <3>2. r.op \in Reads => before'[c] = Len(RowsOf(r.op)) /\ Len(RowsOf(r.op)) \in Nat
        BY <1>t, <2>2 DEF TypeOK, HistoryType, RowsOf
    <3> QED
        BY <2>1, <3>1, <3>2 DEF ReadInv, RowsOf
  <2> QED
      BY <1>1, <1>2, <2>2, <2>4, <2>5 DEF AnswerInv, dbVars
<1>6. ASSUME NEW c \in Calls, Second(c) PROVE AnswerInv'
  <2>1. /\ phase[c] # "idle" /\ UNCHANGED <<request, since, before, now, read>>
        /\ \A q \in Calls \ {c} : phase'[q] = phase[q] /\ answer'[q] = answer[q]
    <3>1. UNCHANGED <<before, read>>
        BY <1>6 DEF Second, CheckRecipient, InsertMember, DeleteMember, InsertMessage, InsertShare,
           Write, Audit, ReadRows, dbVars
    <3> QED
        BY <1>6, <1>t, <3>1, SecondMoves
  <2>2. Grown(messages, messages', c) /\ Grown(shares, shares', c)
    <3>1. CASE InsertMessage(c)
      <4>1. phase[c] = "writing" /\ messages' = Append(messages, c) /\ shares' = shares
          BY <3>1 DEF InsertMessage, Write
      <4>2. ~ Has(messages, c)
          BY <4>1 DEF IInv, CallInv, SourceInv
      <4> QED
          BY <4>1, <4>2 DEF Grown
    <3>2. CASE InsertShare(c)
      <4>1. phase[c] = "writing" /\ shares' = Append(shares, c) /\ messages' = messages
          BY <3>2 DEF InsertShare, Write
      <4>2. ~ Has(shares, c)
          BY <4>1 DEF IInv, CallInv, SourceInv
      <4> QED
          BY <4>1, <4>2 DEF Grown
    <3>3. CASE UNCHANGED <<messages, shares>>
        BY <1>2, <3>3
    <3> QED
        BY <1>6, <3>1, <3>2, <3>3 DEF Second, CheckRecipient, InsertMember, DeleteMember, Write,
           Audit, ReadRows, dbVars
  <2>3. ASSUME NEW q \in Calls \ {c} PROVE ReadInv(q)'
      BY <2>1, <2>2, ReadKept
  <2>4. ReadInv(c)'
    <3>1. CASE ReadRows(c)
        BY <3>1, ReadAccounts
    <3>2. CASE CheckRecipient(c)
      <4>1. phase'[c] = "writing"
          BY <1>t, <3>2 DEF CheckRecipient, TypeOK, RequestType
      <4> QED
          BY <4>1 DEF ReadInv
    <3>3. CASE InsertMember(c) \/ DeleteMember(c) \/ InsertMessage(c) \/ InsertShare(c) \/ Audit(c)
      <4>1. request[c].op \in {"join", "remove", "send", "share"}
          BY <3>3, <2>1 DEF InsertMember, DeleteMember, InsertMessage, InsertShare, Write, Audit,
             IInv, CallInv, PhaseInv
      <4> QED
          BY <2>1, <4>1 DEF ReadInv, Reads
    <3> QED
        BY <1>6, <3>1, <3>2, <3>3 DEF Second
  <2> QED
      BY <1>1, <2>2, <2>3, <2>4 DEF AnswerInv
<1> QED
    BY <1>3, <1>4, <1>5, <1>6 DEF Next

-----------------------------------------------------------------------------
(* The inductive invariant of Messaging always holds. *)
THEOREM MessagingInvariant == Spec => []IInv
<1>1. IInv /\ [Next]_vars => IInv'
  <2> SUFFICES ASSUME IInv, [Next]_vars PROVE IInv'
      OBVIOUS
  <2>1. TypeOK' /\ RoleInv'
      BY TypeStep, RoleStep DEF IInv
  <2>2. (\A q \in Calls : CallInv(q))'
      BY CallStep
  <2>3. TrailInv'
      BY TrailStep
  <2> QED
      BY <2>1, <2>2, <2>3 DEF IInv
<1> QED
    BY <1>1, InitInv, PTL DEF Spec

(* The types hold, so that no code makes an admin. *)
THEOREM MessagingTypes == Spec => []TypeOK
<1>1. IInv => TypeOK
    BY DEF IInv
<1> QED
    BY <1>1, MessagingInvariant, PTL

(* A message goes from one wallet to another that were members, each at    *)
(* some instant of the call that sent it (messaging.js:131).               *)
THEOREM MembersWrite == Spec => []MessagesAmongMembers
<1>1. IInv => MessagesAmongMembers
    BY DEF IInv, CallInv, SourceInv, MessagesAmongMembers
<1> QED
    BY <1>1, MessagingInvariant, PTL

(* Messages and shares are shown to members they are meant for, and before *)
(* they expire (messaging.js:163, messaging.js:264).                       *)
THEOREM MembersRead == Spec => []AnswersToMembers
<1>1. IInv => AnswersToMembers
  <2> SUFFICES ASSUME IInv, NEW c \in Calls, NEW m \in answer[c]
               PROVE  request[c].by \in around[c] /\ Meant(c, m)
      BY DEF AnswersToMembers
  <2>1. phase[c] # "idle" /\ PhaseInv(c) /\ SourceInv(c)
      BY DEF IInv, CallInv
  <2>2. phase[c] = "done" /\ Meant(c, m)
      BY <2>1 DEF SourceInv
  <2>3. request[c].by \in around[c]
      BY <2>1, <2>2 DEF PhaseInv, Wrote
  <2> QED
      BY <2>2, <2>3
<1> QED
    BY <1>1, MessagingInvariant, PTL

(* A reading request is answered with all there was for its caller when it *)
(* began, but for what was read or has expired meanwhile and what a full   *)
(* page of newer rows leaves no room for (messaging.js:177, 281).          *)
THEOREM InboxComplete == Spec => []AnswersComplete
<1>1. Init => AnswerInv
    BY DEF Init, AnswerInv, Distinct, ReadInv
<1>2. AnswerInv => AnswersComplete
    BY DEF AnswerInv, ReadInv, AnswersComplete
<1> QED
    BY <1>1, <1>2, AnswerStep, MessagingInvariant, PTL DEF Spec

(* An audit event names what its request has written, once                 *)
(* (messaging.js:150).                                                     *)
THEOREM TrailTrue == Spec => []TrailNamesRows
<1>1. IInv => TrailNamesRows
  <2> SUFFICES ASSUME IInv PROVE TrailNamesRows
      OBVIOUS
  <2>1. \A c \in Calls : phase[c] = "done" => Wrote(c)
      BY DEF IInv, CallInv, PhaseInv
  <2>2. ASSUME NEW i \in 1..Len(trail)
        PROVE  Wrote(trail[i]) /\ request[trail[i]].op \in {"send", "share", "join"}
    <3>1. trail[i] \in Calls /\ Has(trail, trail[i])
        BY DEF IInv, TypeOK, RowType, Has
    <3> QED
        BY <2>1, <3>1 DEF IInv, CallInv, SourceInv
  <2> QED
      BY <2>1, <2>2 DEF TrailNamesRows, IInv, TrailInv
<1> QED
    BY <1>1, MessagingInvariant, PTL

(* Whoever loses his membership left, or the owner put him out, however    *)
(* stale the role was that the remover was let through with                *)
(* (messaging.js:98).                                                      *)
THEOREM Removals == Spec => RemovedByOwnerOrSelf
<1> DEFINE Lost(d, w) == role[d][w] # "none" /\ role'[d][w] = "none"
           A == \A d \in Deployments, w \in Wallets : Lost(d, w) => \E c \in Calls : RemovedBy(c, d, w)
<1>1. IInv /\ [Next]_vars => [A]_vars
  <2> SUFFICES ASSUME IInv, Next, NEW d \in Deployments, NEW w \in Wallets, Lost(d, w)
               PROVE  \E c \in Calls : RemovedBy(c, d, w)
      OBVIOUS
  <2>1. TypeOK
      BY DEF IInv
  <2>2. ASSUME NEW c \in Calls, First(c) PROVE role' = role
      BY <2>1, <2>2, FirstAsks DEF Asked, Begin, dbVars
  <2>3. ASSUME NEW c \in Calls, InsertMember(c) PROVE ~ Lost(d, w)
      BY <2>1, <2>3 DEF InsertMember, RoleAfter, RoleOf, TypeOK, RowType
  <2>4. PICK c \in Calls : DeleteMember(c)
      BY <2>2, <2>3 DEF Next, Second, CheckRecipient, InsertMessage, InsertShare, Audit, ReadRows,
         MarkRead, Tick, dbVars
  <2>5. phase[c] = "writing" /\ phase'[c] = "done" /\ request[c].op = "remove"
      BY <2>1, <2>4 DEF DeleteMember, Write, TypeOK, RequestType
  <2>6. request[c].deployment = d /\ request[c].to = w
      BY <2>1, <2>4 DEF DeleteMember, TypeOK, RowType
  <2>7. request[c].by \in {w, Owner[d]} /\ request[c].by \in around[c]
      BY <2>5, <2>6 DEF IInv, CallInv, PhaseInv
  <2> QED
      BY <2>5, <2>6, <2>7 DEF RemovedBy
<1> QED
    BY <1>1, MessagingInvariant, PTL DEF Spec, RemovedByOwnerOrSelf
=============================================================================
