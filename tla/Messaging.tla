------------------------------ MODULE Messaging ------------------------------
(***************************************************************************)
(* Membership, messages and shared context of deployments                  *)
(* (src/src/api/v1/messaging.js).                                          *)
(*                                                                         *)
(* An action is one query and the code up to the next one.  A request that *)
(* is refused by its first query changes nothing and is left out.  One     *)
(* that is refused later, of which a query fails, or whose process dies    *)
(* goes no further: it stays where it is, which no fairness rules out.     *)
(* A row of secure_messages, context_shares or audit_log is named by the   *)
(* request it comes from, which holds its columns.                         *)
(***************************************************************************)
EXTENDS Integers, Sequences, FiniteSets

CONSTANTS
    Calls,        \* requests
    Wallets,      \* wallets that are signed in
    Deployments,  \* rows of builder_deployments, which are never deleted
    Owner,        \* their owner_address, which is never changed
    Everyone,     \* recipient_address NULL of a share
    NoRequest,    \* nothing asked yet
    ContextTypes, \* VALID_CONTEXT_TYPES
    AnyType,      \* no context_type
    Ttls,         \* expires_in_hours, 0 for none
    Page,         \* LIMIT, 100 of messages and 200 of shares
    MaxTime       \* bound on the clock

ASSUME MessagingAssumption ==
    /\ Owner \in [Deployments -> Wallets] /\ Everyone \notin Wallets
    /\ AnyType \notin ContextTypes
    /\ Ttls \subseteq Nat /\ Page \in Nat \ {0} /\ MaxTime \in Nat

VARIABLES
    role,      \* deployment_members: "none", "member", "owner"; no code makes an admin
    messages,  \* secure_messages, in the order of sent_at
    read,      \* those with a read_at
    shares,    \* context_shares, in the order of shared_at
    trail,     \* audit_log
    phase,     \* where a request is: see Phases
    request,   \* what it asks for, once it has passed its first query
    answer,    \* the rows a reading request was answered with
    around,    \* history: who was a member at some instant before its write or read
    since,     \* history: the time a reading request began at
    before,    \* history: how many rows were there then
    now

dbVars == <<role, messages, read, shares, trail>>
vars == <<dbVars, phase, request, answer, around, since, before, now>>

Phases == {"idle", "recipient", "writing", "reading", "auditing", "done"}
Under  == {"recipient", "writing", "reading"}
Reads  == {"inbox", "unread", "context"}

Requests == [op : {"join", "remove", "send", "share"} \cup Reads, by : Wallets,
             to : Wallets \cup {Everyone}, deployment : Deployments, until : Nat,
             type : ContextTypes \cup {AnyType}]

RoleOf(d, w) == IF Owner[d] = w THEN "owner" ELSE "member"
Members(d)   == {w \in Wallets : role[d][w] # "none"}
Has(rows, c) == \E i \in 1..Len(rows) : rows[i] = c

(* The database holds the members of earlier runs. *)
Init ==
    /\ \E M \in SUBSET (Deployments \X Wallets) :
          role = [d \in Deployments |-> [w \in Wallets |->
                    IF <<d, w>> \in M THEN RoleOf(d, w) ELSE "none"]]
    /\ messages = <<>> /\ read = {} /\ shares = <<>> /\ trail = <<>>
    /\ phase = [c \in Calls |-> "idle"]
    /\ request = [c \in Calls |-> NoRequest]
    /\ answer = [c \in Calls |-> {}] /\ around = [c \in Calls |-> {}]
    /\ since = [c \in Calls |-> 0] /\ before = [c \in Calls |-> 0]
    /\ now = 0

-----------------------------------------------------------------------------
(* The first query.                                                        *)

RowsOf(op) == IF op = "context" THEN shares ELSE messages

Begin(c, first, r) ==
    /\ phase[c] = "idle" /\ phase' = [phase EXCEPT ![c] = first]
    /\ request' = [request EXCEPT ![c] = r]
    /\ IF r.op \in Reads THEN /\ since' = [since EXCEPT ![c] = now]
                             /\ before' = [before EXCEPT ![c] = Len(RowsOf(r.op))]
                        ELSE UNCHANGED <<since, before>>
    /\ UNCHANGED <<dbVars, answer, now>>

Ask(op, w, d, to, until, type) ==
    [op |-> op, by |-> w, to |-> to, deployment |-> d, until |-> until, type |-> type]

(* POST members: deploymentExists finds the owner, whose address makes the *)
(* role.                                                                   *)
Join(c, w, d) == Begin(c, "writing", Ask("join", w, d, w, 0, AnyType))

(* DELETE members/:address: the role is read here and used by the delete.  *)
(* Faulty variant: whoever is a member may remove others.                  *)
MayRemoveAnyone(w, d, v) == role[d][w] # "none"
MayRemove(w, d, v) == role[d][w] # "none" /\ (v = w \/ role[d][w] \in {"owner", "admin"})

Remove(c, w, d, v) ==
    MayRemove(w, d, v) /\ Begin(c, "writing", Ask("remove", w, d, v, 0, AnyType))

(* POST messages: the sender, and in a query of its own the recipient, who *)
(* has to be found or else it is 403.                                      *)
Send(c, w, d, v) ==
    role[d][w] # "none" /\ Begin(c, "recipient", Ask("send", w, d, v, 0, AnyType))

(* Faulty variant: the recipient was taken at his word. *)
RecipientUnchecked(c) == TRUE
RecipientFound(c)     == role[request[c].deployment][request[c].to] # "none"

CheckRecipient(c) ==
    /\ phase[c] = "recipient" /\ RecipientFound(c)
    /\ phase' = [phase EXCEPT ![c] = "writing"]
    /\ UNCHANGED <<dbVars, request, answer, since, before, now>>

(* POST context: the recipient, if there is one, is not looked up. *)
Share(c, w, d, to, ttl, type) ==
    /\ role[d][w] # "none"
    /\ Begin(c, "writing", Ask("share", w, d, to, IF ttl = 0 THEN 0 ELSE now + ttl, type))

(* GET messages, with or without unread_only, and GET context, with or     *)
(* without a context_type.                                                 *)
Fetch(c, op, w, d, type) ==
    /\ role[d][w] # "none"
    /\ op = "context" \/ type = AnyType
    /\ Begin(c, "reading", Ask(op, w, d, w, 0, type))

-----------------------------------------------------------------------------
(* The query the request is for.  A write that is committed while its      *)
(* answer is lost is one that nothing follows.                             *)
Write(c, op, next) ==
    /\ phase[c] = "writing" /\ request[c].op = op
    /\ phase' = [phase EXCEPT ![c] = next]
    /\ UNCHANGED <<request, answer, since, before, now, read, trail>>

(* INSERT .. ON CONFLICT DO UPDATE SET public_key: the role of a row that  *)
(* is there stays.  Faulty variant: it becomes another.                    *)
RoleRaised(r) == IF role[r.deployment][r.by] = "none" THEN RoleOf(r.deployment, r.by) ELSE "admin"
RoleAfter(r)  == IF role[r.deployment][r.by] = "none" THEN RoleOf(r.deployment, r.by)
                                                      ELSE role[r.deployment][r.by]

InsertMember(c) ==
    LET r == request[c] IN
    /\ Write(c, "join", "auditing")
    /\ role' = [role EXCEPT ![r.deployment][r.by] = RoleAfter(r)]
    /\ UNCHANGED <<messages, shares>>

DeleteMember(c) ==
    LET r == request[c] IN
    /\ Write(c, "remove", "done")
    /\ role' = [role EXCEPT ![r.deployment][r.to] = "none"]
    /\ UNCHANGED <<messages, shares>>

InsertMessage(c) ==
    /\ Write(c, "send", "auditing")
    /\ messages' = Append(messages, c) /\ UNCHANGED <<role, shares>>

InsertShare(c) ==
    /\ Write(c, "share", "auditing")
    /\ shares' = Append(shares, c) /\ UNCHANGED <<role, messages>>

(* logEvent keeps its failures to itself: 201 with or without an event.    *)
(* Faulty variant: it is called again.                                     *)
AuditAgain(c) ==
    /\ phase[c] = "auditing" /\ trail' = Append(trail, c) /\ Len(trail) < 4
    /\ UNCHANGED <<role, messages, read, shares, phase, request, answer, since, before, now>>
Audit(c) ==
    /\ phase[c] = "auditing" /\ phase' = [phase EXCEPT ![c] = "done"]
    /\ trail' = Append(trail, c) \/ trail' = trail
    /\ UNCHANGED <<role, messages, read, shares, request, answer, since, before, now>>

(* WHERE of the two reads, and a faulty variant without the recipient.     *)
OfType(c, m)    == request[c].type \in {AnyType, request[m].type}
ForAnyone(c, m) == request[m].deployment = request[c].deployment /\ OfType(c, m)
ForCaller(c, m) ==
    /\ request[m].deployment = request[c].deployment
    /\ request[m].to \in {request[c].by, Everyone} /\ OfType(c, m)
    /\ request[m].until = 0 \/ request[m].until > now
    /\ request[c].op = "unread" => m \notin read

(* ORDER BY .. DESC LIMIT, of the rows at I, and ascending by mistake. *)
Oldest(I) == {i \in I : Cardinality({j \in I : j < i}) < Page}
Newest(I) == {i \in I : Cardinality({j \in I : j > i}) < Page}

ReadRows(c) ==
    LET rows == RowsOf(request[c].op) IN
    /\ phase[c] = "reading" /\ phase' = [phase EXCEPT ![c] = "done"]
    /\ answer' = [answer EXCEPT ![c] =
          {rows[i] : i \in Newest({i \in 1..Len(rows) : ForCaller(c, rows[i])})}]
    /\ UNCHANGED <<dbVars, request, since, before, now>>

(* PATCH messages/:id/read is one UPDATE, by the recipient, member or not. *)
MarkRead(m) ==
    /\ Has(messages, m) /\ m \notin read /\ read' = read \cup {m}
    /\ UNCHANGED <<role, messages, shares, trail, phase, request, answer, since, before, now>>

Tick ==
    /\ now < MaxTime /\ now' = now + 1
    /\ UNCHANGED <<dbVars, phase, request, answer, since, before>>

-----------------------------------------------------------------------------
(* Who is a member is noted until a request writes or reads. *)
Observe ==
    around' = [c \in Calls |->
        CASE phase[c] = "idle" /\ phase'[c] # "idle" -> Members(request'[c].deployment)
          [] phase[c] \in Under -> around[c] \cup Members(request[c].deployment)'
          [] OTHER -> around[c]]

First(c) ==
    \E w \in Wallets, d \in Deployments :
       \/ Join(c, w, d)
       \/ \E v \in Wallets : Remove(c, w, d, v) \/ Send(c, w, d, v)
       \/ \E to \in Wallets \cup {Everyone}, ttl \in Ttls, type \in ContextTypes :
             Share(c, w, d, to, ttl, type)
       \/ \E op \in Reads, type \in ContextTypes \cup {AnyType} : Fetch(c, op, w, d, type)

Second(c) ==
    \/ CheckRecipient(c) \/ InsertMember(c) \/ DeleteMember(c) \/ InsertMessage(c)
    \/ InsertShare(c) \/ Audit(c) \/ ReadRows(c)

Next == (Tick \/ \E c \in Calls : First(c) \/ Second(c) \/ MarkRead(c)) /\ Observe

Spec == Init /\ [][Next]_vars
-----------------------------------------------------------------------------
(* Types: one owner per deployment at the most, and rows that name calls.  *)
RowType     == /\ role \in [Deployments -> [Wallets -> {"none", "member", "owner"}]]
               /\ messages \in Seq(Calls) /\ shares \in Seq(Calls) /\ trail \in Seq(Calls)
               /\ read \subseteq Calls
RequestType == /\ phase \in [Calls -> Phases]
               /\ request \in [Calls -> Requests \cup {NoRequest}]
               /\ \A c \in Calls : phase[c] # "idle" => request[c] \in Requests
               /\ answer \in [Calls -> SUBSET Calls]
HistoryType == /\ around \in [Calls -> SUBSET Wallets]
               /\ since \in [Calls -> Nat] /\ before \in [Calls -> Nat] /\ now \in 0..MaxTime

TypeOK == RowType /\ RequestType /\ HistoryType

(* Sender and recipient are looked up one after the other, and both may be *)
(* gone when the row is written.  Each of them was a member at some        *)
(* instant of the call, though.                                            *)
Among(c) == {request[c].by, request[c].to} \subseteq around[c]
MessagesAmongMembers == \A c \in Calls : Has(messages, c) => Among(c)

(* A message or a share is shown to a wallet that was a member of its      *)
(* deployment at some instant of the call, that it is meant for, not after *)
(* it has expired when the call begins, and if a type is asked for         *)
(* (messaging.test.js:282) it is of that type.                             *)
Meant(c, m) ==
    /\ request[m].deployment = request[c].deployment
    /\ request[m].to \in {request[c].by, Everyone}
    /\ request[c].type # AnyType => request[m].type = request[c].type
    /\ request[m].until = 0 \/ request[m].until > since[c]
AnswersToMembers ==
    \A c \in Calls : \A m \in answer[c] : request[c].by \in around[c] /\ Meant(c, m)

(* A message, or a share of the type asked for, for the caller that was    *)
(* there when the call began is in its answer, unless it was read or has   *)
(* expired meanwhile, or the page is full of newer ones: rows that are not *)
(* asked for take no place on it.                                          *)
Expired(m) == request[m].until \in 1..now
Shown(c)   == LET rows == RowsOf(request[c].op) IN {i \in 1..Len(rows) : rows[i] \in answer[c]}
Accounted(c, i) ==
    LET m == RowsOf(request[c].op)[i] IN
    \/ ~ Meant(c, m) \/ Expired(m)
    \/ request[c].op = "unread" /\ m \in read
    \/ i \in Shown(c)
    \/ Cardinality({j \in Shown(c) : j > i}) = Page
AnswersComplete ==
    \A c \in Calls : phase[c] = "done" /\ request[c].op \in Reads =>
        \A i \in 1..before[c] : Accounted(c, i)

(* An event names a row that its request has written, and no other event   *)
(* does; a request that was answered 201 has left its row, though events   *)
(* may be missing (messaging.js:8).                                        *)
Wrote(c) ==
    CASE request[c].op = "send"  -> Has(messages, c)
      [] request[c].op = "share" -> Has(shares, c)
      [] request[c].op = "join"  -> request[c].by \in around[c]
      [] OTHER -> request[c].op \in Reads \cup {"remove"}
TrailNamesRows ==
    /\ \A i, j \in 1..Len(trail) : i # j => trail[i] # trail[j]
    /\ \A i \in 1..Len(trail) :
          Wrote(trail[i]) /\ request[trail[i]].op \in {"send", "share", "join"}
    /\ \A c \in Calls : phase[c] = "done" => Wrote(c)

(* Whoever loses his membership has left, or was put out by the owner of   *)
(* the deployment, even though the remover's own membership may have ended *)
(* since his role was read.                                                *)
RemovedBy(c, d, w) ==
    /\ phase[c] = "writing" /\ phase'[c] # "writing"
    /\ request[c].op = "remove" /\ request[c].deployment = d /\ request[c].to = w
    /\ request[c].by \in {w, Owner[d]} \cap around[c]
RemovedByOwnerOrSelf ==
    [][\A d \in Deployments, w \in Wallets :
          role[d][w] # "none" /\ role'[d][w] = "none" => \E c \in Calls : RemovedBy(c, d, w)]_vars

-----------------------------------------------------------------------------
(* The inductive invariant.                                                *)

(* The role says no more than who owns the deployment. *)
RoleInv == \A d \in Deployments, w \in Wallets : role[d][w] \in {"none", RoleOf(d, w)}

(* What a request in each phase has established. *)
PhaseInv(c) ==
    /\ phase[c] \in Under => Members(request[c].deployment) \subseteq around[c]
    /\ phase[c] = "recipient" => request[c].op = "send"
    /\ request[c].op \in {"send", "remove"} => request[c].to \in Wallets
    /\ request[c].op = "join" \/ request[c].by \in around[c]
    /\ phase[c] = "writing" => /\ request[c].op \notin Reads
                               /\ request[c].op = "send" => Among(c)
    /\ request[c].op = "remove" => request[c].by \in {request[c].to, Owner[request[c].deployment]}
    /\ phase[c] = "reading" => request[c].op \in Reads /\ since[c] <= now
    /\ phase[c] = "auditing" => request[c].op \in {"send", "share", "join"}
    /\ phase[c] \in {"auditing", "done"} => Wrote(c)

(* Which requests rows and answers come from. *)
SourceInv(c) ==
    /\ Has(messages, c) => Among(c)
    /\ Has(messages, c) \/ Has(shares, c) => phase[c] \in {"auditing", "done"}
    /\ Has(trail, c) => phase[c] = "done" /\ request[c].op \in {"send", "share", "join"}
    /\ \A m \in answer[c] : phase[c] = "done" /\ phase[m] # "idle" /\ Meant(c, m)

CallInv(c) == IF phase[c] = "idle"
                THEN ~ Has(messages, c) /\ ~ Has(shares, c) /\ ~ Has(trail, c) /\ answer[c] = {}
                ELSE PhaseInv(c) /\ SourceInv(c)

TrailInv == \A i, j \in 1..Len(trail) : i # j => trail[i] # trail[j]

IInv == TypeOK /\ RoleInv /\ (\A c \in Calls : CallInv(c)) /\ TrailInv

(* A row is written once and never moves, so that what a reading request   *)
(* was answered with stays where it was: for AnswersComplete.              *)
Distinct(rows) == \A i, j \in 1..Len(rows) : rows[i] = rows[j] => i = j
ReadInv(c) ==
    phase[c] \in {"reading", "done"} /\ request[c].op \in Reads =>
        /\ before[c] <= Len(RowsOf(request[c].op))
        /\ \A m \in answer[c] : Has(RowsOf(request[c].op), m)
        /\ phase[c] = "done" => \A i \in 1..before[c] : Accounted(c, i)
AnswerInv == Distinct(messages) /\ Distinct(shares) /\ \A c \in Calls : ReadInv(c)
=============================================================================
