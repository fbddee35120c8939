---------------------- MODULE ExecutionBatches_proofs ----------------------
(***************************************************************************)
(* Proofs about ExecutionBatches: for every answer of the language model   *)
(* and every maxSteps.                                                     *)
(***************************************************************************)
EXTENDS ExecutionBatches, SequenceTheorems, FiniteSetTheorems, TLAPS

(* A new last batch of steps that remained keeps what was said of the      *)
(* others: it overlaps none of them.                                       *)
LEMMA NewBatch ==
    ASSUME IInv, looping, NEW batch, batch # {}, batch \subseteq Remaining(plan, completed),
           batches' = Append(batches, batch), plan' = plan
    PROVE  /\ batches' \in Seq(SUBSET DOMAIN plan)
           /\ Len(batches') = Len(batches) + 1 /\ Len(batches) \in Nat
           /\ batches'[Len(batches) + 1] = batch
           /\ \A b \in DOMAIN batches : b \in DOMAIN batches' /\ batches'[b] = batches[b]
           /\ \E b \in DOMAIN batches' : batches'[b] = batch
           /\ \A b \in DOMAIN batches' : b \in DOMAIN batches \/ batches'[b] = batch
           /\ \A b \in DOMAIN batches' : batches'[b] # {}
           /\ NoStepBatchedTwice'
<1>1. batch \in SUBSET DOMAIN plan /\ batches \in Seq(SUBSET DOMAIN plan)
    BY DEF IInv, Remaining
<1>2. /\ batches' \in Seq(SUBSET DOMAIN plan)
      /\ DOMAIN batches = 1 .. Len(batches) /\ DOMAIN batches' = 1 .. Len(batches) + 1
      /\ Len(batches) \in Nat /\ Len(batches') = Len(batches) + 1
      /\ batches'[Len(batches) + 1] = batch
      /\ \A b \in 1 .. Len(batches) : batches'[b] = batches[b]
    BY <1>1, AppendProperties, LenProperties
<1>3. \A b \in DOMAIN batches : batches[b] \cap batch = {}
    BY DEF IInv, Remaining, IdsOf
<1>4. NoStepBatchedTwice'
    <2> SUFFICES ASSUME NEW b \in DOMAIN batches', NEW c \in DOMAIN batches', b # c
                 PROVE  batches'[b] \cap batches'[c] = {}
        BY DEF NoStepBatchedTwice
    <2>1. CASE b \in DOMAIN batches /\ c \in DOMAIN batches
        BY <1>2, <2>1 DEF IInv, NoStepBatchedTwice
    <2>2. CASE b = Len(batches) + 1 \/ c = Len(batches) + 1
        BY <1>2, <1>3, <2>2
    <2> QED BY <1>2, <2>1, <2>2
<1>5. \A b \in DOMAIN batches' : batches'[b] # {}
    BY <1>2 DEF IInv, TypeOK
<1> QED BY <1>2, <1>4, <1>5

(* The batches that were behind their dependencies stay behind them.       *)
LEMMA PriorKept ==
    ASSUME IInv, looping, NEW batch, batch # {}, batch \subseteq Remaining(plan, completed),
           batches' = Append(batches, batch), plan' = plan,
           NEW b \in DOMAIN batches, NEW i \in batches[b]
    PROVE  plan[i].deps \subseteq UNION {IdsOf(plan, batches'[c]) : c \in 1 .. b - 1}
<1>1. DOMAIN batches = 1 .. Len(batches) /\ Len(batches) \in Nat
    BY LenProperties DEF IInv
<1>2. \A c \in 1 .. b - 1 : batches'[c] = batches[c]
    BY <1>1, NewBatch
<1>3. plan[i].deps \subseteq UNION {IdsOf(plan, batches[c]) : c \in 1 .. b - 1}
    BY DEF IInv, DepsInPriorBatches
<1> QED BY <1>2, <1>3

LEMMA InitInv == Init => IInv
<1> SUFFICES ASSUME Init PROVE IInv
    OBVIOUS
<1>1. batches = <<>> /\ completed = {} /\ looping = TRUE
    BY DEF Init
<1>2. batches \in Seq(SUBSET DOMAIN plan) /\ DOMAIN batches = {}
    BY <1>1, EmptySeq
<1> QED BY <1>1, <1>2 DEF IInv, TypeOK, DepsInPriorBatches, EveryIdIsBatched,
        NoStepBatchedTwice

LEMMA InvStep == IInv /\ [Next]_vars => IInv'
<1> SUFFICES ASSUME IInv, [Next]_vars PROVE IInv'
    OBVIOUS
<1>1. CASE BatchReady
    <2> DEFINE batch == Ready(plan, completed)
    <2>1. /\ looping /\ looping' = looping /\ plan' = plan /\ batch # {}
          /\ batches' = Append(batches, batch)
          /\ completed' = completed \cup IdsOf(plan, batch)
        BY <1>1 DEF BatchReady
    <2>2. batch \subseteq Remaining(plan, completed) /\ batch \subseteq DOMAIN plan
        BY DEF Ready, Remaining
    <2> HIDE DEF batch
    <2>3. /\ batches' \in Seq(SUBSET DOMAIN plan)
          /\ \A b \in DOMAIN batches : b \in DOMAIN batches' /\ batches'[b] = batches[b]
          /\ \E b \in DOMAIN batches' : batches'[b] = batch
          /\ \A b \in DOMAIN batches' : b \in DOMAIN batches \/ batches'[b] = batch
          /\ \A b \in DOMAIN batches' : batches'[b] # {}
          /\ NoStepBatchedTwice'
        BY <2>1, <2>2, NewBatch
    <2>4. TypeOK'
        <3>1. completed' \subseteq IdsOf(plan, DOMAIN plan)
            BY <2>1, <2>2 DEF IInv, TypeOK, IdsOf
        <3>2. \A b \in DOMAIN batches' : batches'[b] \subseteq DOMAIN plan
            BY <2>2, <2>3 DEF IInv, TypeOK
        <3> QED BY <2>1, <2>3, <3>1, <3>2 DEF IInv, TypeOK
    <2>5. completed' \subseteq UNION {IdsOf(plan, batches'[b]) : b \in DOMAIN batches'}
        BY <2>1, <2>3 DEF IInv
    <2>6. \A b \in DOMAIN batches' : IdsOf(plan, batches'[b]) \subseteq completed'
        BY <2>1, <2>3 DEF IInv
    <2>7. DepsInPriorBatches'
        <3> SUFFICES ASSUME NEW b \in DOMAIN batches', NEW i \in batches'[b]
                     PROVE  plan[i].deps \subseteq UNION {IdsOf(plan, batches'[c]) : c \in 1 .. b - 1}
            BY <2>1 DEF DepsInPriorBatches
        <3>1. /\ DOMAIN batches = 1 .. Len(batches) /\ DOMAIN batches' = 1 .. Len(batches) + 1
              /\ Len(batches) \in Nat /\ batches'[Len(batches) + 1] = batch
              /\ \A c \in DOMAIN batches : batches'[c] = batches[c]
            BY <2>1, <2>2, <2>3, NewBatch, LenProperties DEF IInv
        <3>2. CASE b \in DOMAIN batches
            <4>1. i \in batches[b]
                BY <3>1, <3>2
            <4> QED BY <2>1, <2>2, <3>2, <4>1, PriorKept
        <3>3. CASE b = Len(batches) + 1
            <4>1. plan[i].deps \subseteq completed
                BY <3>1, <3>3 DEF batch, Ready
            <4>2. completed \subseteq UNION {IdsOf(plan, batches[c]) : c \in DOMAIN batches}
                BY DEF IInv
            <4>3. DOMAIN batches = 1 .. b - 1
                BY <3>1, <3>3
            <4> QED BY <3>1, <4>1, <4>2, <4>3
        <3> QED BY <3>1, <3>2, <3>3
    <2> QED BY <2>1, <2>3, <2>4, <2>5, <2>6, <2>7 DEF IInv, EveryIdIsBatched
<1>2. CASE BatchRest
    <2> DEFINE batch == Remaining(plan, completed)
    <2>1. /\ looping /\ looping' = FALSE /\ plan' = plan /\ completed' = completed /\ batch # {}
          /\ batches' = Append(batches, batch)
        BY <1>2 DEF BatchRest
    <2>2. batch \subseteq DOMAIN plan /\ \A i \in DOMAIN plan : plan[i].id \in completed \/ i \in batch
        BY DEF Remaining
    <2>3. /\ batches' \in Seq(SUBSET DOMAIN plan)
          /\ \A b \in DOMAIN batches : b \in DOMAIN batches' /\ batches'[b] = batches[b]
          /\ \E b \in DOMAIN batches' : batches'[b] = batch
          /\ \A b \in DOMAIN batches' : b \in DOMAIN batches \/ batches'[b] = batch
          /\ \A b \in DOMAIN batches' : batches'[b] # {}
          /\ NoStepBatchedTwice'
        BY <2>1, NewBatch
    <2> HIDE DEF batch
    <2>4. TypeOK'
        <3>1. \A b \in DOMAIN batches' : batches'[b] \subseteq DOMAIN plan
            BY <2>2, <2>3 DEF IInv, TypeOK
        <3> QED BY <2>1, <2>3, <3>1 DEF IInv, TypeOK
    <2>5. completed' \subseteq UNION {IdsOf(plan, batches'[b]) : b \in DOMAIN batches'}
        BY <2>1, <2>3 DEF IInv
    <2>6. EveryIdIsBatched'
        <3> SUFFICES ASSUME NEW i \in DOMAIN plan
                     PROVE  \E b \in DOMAIN batches' : plan[i].id \in IdsOf(plan, batches'[b])
            BY <2>1 DEF EveryIdIsBatched
        <3>1. CASE plan[i].id \in completed
            BY <2>1, <2>5, <3>1
        <3>2. CASE i \in batch
            BY <2>3, <3>2 DEF IdsOf
        <3> QED BY <2>2, <3>1, <3>2
    <2>7. DepsInPriorBatches'
        <3> SUFFICES ASSUME NEW b \in DOMAIN batches', b < Len(batches'), NEW i \in batches'[b]
                     PROVE  plan[i].deps \subseteq UNION {IdsOf(plan, batches'[c]) : c \in 1 .. b - 1}
            BY <2>1 DEF DepsInPriorBatches
        <3>1. /\ DOMAIN batches = 1 .. Len(batches) /\ DOMAIN batches' = 1 .. Len(batches) + 1
              /\ Len(batches) \in Nat /\ Len(batches') = Len(batches) + 1
              /\ \A c \in DOMAIN batches : batches'[c] = batches[c]
            BY <2>1, <2>3, NewBatch, LenProperties DEF IInv, batch
        <3>2. b \in DOMAIN batches /\ i \in batches[b]
            BY <3>1
        <3> QED BY <2>1, <3>2, PriorKept DEF batch
    <2> QED BY <2>1, <2>3, <2>4, <2>5, <2>6, <2>7 DEF IInv
<1>3. CASE LoopEnds
    <2>1. looping' = FALSE /\ UNCHANGED <<plan, completed, batches>>
        BY <1>3 DEF LoopEnds
    <2>2. \A i \in DOMAIN plan : plan[i].id \in completed
        BY <1>3 DEF LoopEnds, Remaining
    <2>3. EveryIdIsBatched'
        BY <2>1, <2>2 DEF IInv, EveryIdIsBatched
    <2>4. DepsInPriorBatches'
        BY <1>3, <2>1 DEF LoopEnds, IInv, DepsInPriorBatches
    <2> QED BY <2>1, <2>3, <2>4 DEF IInv, TypeOK, NoStepBatchedTwice
<1>4. CASE UNCHANGED vars
    BY <1>4 DEF vars, IInv, TypeOK, DepsInPriorBatches, EveryIdIsBatched, NoStepBatchedTwice
<1> QED BY <1>1, <1>2, <1>3, <1>4 DEF Next

(* The loop keeps its invariant on every plan. *)
THEOREM BatchesInvariant == Spec => []IInv
BY InitInv, InvStep, PTL DEF Spec

(* Batches are made of positions of the plan, and none is empty. *)
THEOREM BatchesTyped == Spec => []TypeOK
<1>1. IInv => TypeOK
    BY DEF IInv
<1> QED BY <1>1, BatchesInvariant, PTL

(* decomposer.js:104-117: when the loop ends, some step of every           *)
(* identifier was batched, on cycles and dangling dependencies too.        *)
THEOREM EveryIdBatched == Spec => []EveryIdIsBatched
<1>1. IInv => EveryIdIsBatched
    BY DEF IInv
<1> QED BY <1>1, BatchesInvariant, PTL

(* decomposer.js:95-96: every batch but the one of what is left comes      *)
(* behind a step of each identifier its steps depend on, on any plan.      *)
THEOREM DepsBatchedBefore == Spec => []DepsInPriorBatches
<1>1. IInv => DepsInPriorBatches
    BY DEF IInv
<1> QED BY <1>1, BatchesInvariant, PTL

(* No step is in two batches: it does not run, and pay, twice. *)
THEOREM BatchedOnce == Spec => []NoStepBatchedTwice
<1>1. IInv => NoStepBatchedTwice
    BY DEF IInv
<1> QED BY <1>1, BatchesInvariant, PTL

-----------------------------------------------------------------------------
(* Chains of dependencies: dropping the first position, the last one, or   *)
(* adding a new last one.                                                  *)
LEMMA ShorterChain ==
    ASSUME NEW n \in Nat, NEW m \in 0 .. n, NEW i, ChainInto(n, i)
    PROVE  ChainInto(m, i)
<1>1. PICK chain \in [0 .. n -> DOMAIN plan] :
          chain[n] = i /\ \A k \in 1 .. n : chain[k - 1] \in Parents(chain[k])
    BY DEF ChainInto
<1> DEFINE short == [k \in 0 .. m |-> chain[k + (n - m)]]
<1>2. short \in [0 .. m -> DOMAIN plan] /\ short[m] = i
    BY <1>1
<1>3. ASSUME NEW k \in 1 .. m PROVE short[k - 1] \in Parents(short[k])
    <2>1. k + (n - m) \in 1 .. n /\ (k - 1) + (n - m) = k + (n - m) - 1
        OBVIOUS
    <2>2. short[k] = chain[k + (n - m)] /\ short[k - 1] = chain[(k - 1) + (n - m)]
        OBVIOUS
    <2> QED BY <1>1, <2>1, <2>2
<1> QED BY <1>2, <1>3 DEF ChainInto

LEMMA ChainTail ==
    ASSUME NEW n \in Nat, NEW i, ChainInto(n + 1, i)
    PROVE  \E j \in Parents(i) : ChainInto(n, j)
<1>1. PICK chain \in [0 .. n + 1 -> DOMAIN plan] :
          chain[n + 1] = i /\ \A k \in 1 .. n + 1 : chain[k - 1] \in Parents(chain[k])
    BY DEF ChainInto
<1> DEFINE head == [k \in 0 .. n |-> chain[k]]
<1>2. head \in [0 .. n -> DOMAIN plan] /\ head[n] = chain[n]
    BY <1>1
<1>3. \A k \in 1 .. n : head[k - 1] \in Parents(head[k])
    BY <1>1
<1>4. chain[n] \in Parents(i)
    BY <1>1
<1> QED BY <1>2, <1>3, <1>4 DEF ChainInto

LEMMA LongerChain ==
    ASSUME NEW n \in Nat, NEW i \in DOMAIN plan, NEW j \in Parents(i), ChainInto(n, j)
    PROVE  ChainInto(n + 1, i)
<1>1. PICK chain \in [0 .. n -> DOMAIN plan] :
          chain[n] = j /\ \A k \in 1 .. n : chain[k - 1] \in Parents(chain[k])
    BY DEF ChainInto
<1> DEFINE long == [k \in 0 .. n + 1 |-> IF k = n + 1 THEN i ELSE chain[k]]
<1>2. long \in [0 .. n + 1 -> DOMAIN plan] /\ long[n + 1] = i
    BY <1>1
<1>3. ASSUME NEW k \in 1 .. n + 1 PROVE long[k - 1] \in Parents(long[k])
    <2>1. CASE k = n + 1
        BY <1>1, <2>1
    <2>2. CASE k \in 1 .. n
        BY <1>1, <2>2
    <2> QED BY <2>1, <2>2
<1> QED BY <1>2, <1>3 DEF ChainInto

(* The plan is fixed, and so is all that is said of it alone. *)
LEMMA PlanFixed ==
    ASSUME plan' = plan
    PROVE  (WellFormed' <=> WellFormed) /\ \A n, i : ChainInto(n, i)' <=> ChainInto(n, i)
BY DEF WellFormed, UniqueIds, Closed, Acyclic, Parents, IdsOf, ChainInto

(* On a plan without defects the loop never has to batch what is left.     *)
LEMMA SomethingReady ==
    ASSUME WellFormed, Remaining(plan, completed) # {}
    PROVE  Ready(plan, completed) # {}
<1>1. PICK i \in Remaining(plan, completed) : Parents(i) \cap Remaining(plan, completed) = {}
    BY DEF WellFormed, Acyclic, Remaining
<1>2. ASSUME NEW d \in plan[i].deps PROVE d \in completed
    <2>1. PICK j \in DOMAIN plan : plan[j].id = d
        BY DEF WellFormed, Closed, IdsOf, Remaining
    <2> QED BY <1>1, <2>1 DEF Parents, Remaining
<1> QED BY <1>1, <1>2 DEF Ready

(* The steps of a new batch: each waited for the previous one, and the     *)
(* longest chain into it has the number of the batch in positions.         *)
LEMMA NewLevel ==
    ASSUME IInv, LevelInv, looping, NEW i \in Ready(plan, completed)
    PROVE  /\ batches # <<>> => ~ (plan[i].deps \subseteq IdsBefore(Len(batches) - 1))
           /\ WellFormed => ChainInto(Len(batches), i) /\ ~ ChainInto(Len(batches) + 1, i)
<1> DEFINE L == Len(batches)
<1>1. L \in Nat /\ DOMAIN batches = 1 .. L /\ (batches # <<>> <=> L > 0)
    BY LenProperties, EmptySeq DEF IInv
<1>2. i \in DOMAIN plan /\ i \in Remaining(plan, completed) /\ plan[i].deps \subseteq completed
    BY DEF Ready, Remaining
<1>3. batches # <<>> => ~ (plan[i].deps \subseteq IdsBefore(L - 1))
    BY <1>2 DEF LevelInv
<1>4. completed \subseteq IdsBefore(L)
    BY <1>1 DEF IInv, IdsBefore
<1>5. ASSUME WellFormed PROVE ChainInto(L, i)
    <2>1. CASE L = 0
        <3> DEFINE single == [k \in 0 .. 0 |-> i]
        <3>1. single \in [0 .. 0 -> DOMAIN plan] /\ single[0] = i
            BY <1>2
        <3>2. \A k \in 1 .. 0 : single[k - 1] \in Parents(single[k])
            OBVIOUS
        <3> QED BY <2>1, <3>1, <3>2 DEF ChainInto
    <2>2. CASE L > 0
        <3>1. PICK d \in plan[i].deps : d \notin IdsBefore(L - 1)
            BY <1>1, <1>3, <2>2
        <3>2. d \in IdsBefore(L)
            BY <1>2, <1>4
        <3>3. PICK b \in 1 .. L : d \in IdsOf(plan, batches[b])
            BY <3>2 DEF IdsBefore
        <3>4. b = L
            BY <1>1, <3>1, <3>3 DEF IdsBefore
        <3>5. PICK j \in batches[L] : plan[j].id = d
            BY <3>3, <3>4 DEF IdsOf
        <3>6. j \in DOMAIN plan /\ j \in Parents(i)
            BY <1>1, <2>2, <3>1, <3>5 DEF IInv, TypeOK, Parents
        <3>7. ChainInto(L - 1, j)
            BY <1>1, <1>5, <2>2, <3>5 DEF LevelInv
        <3>8. ChainInto((L - 1) + 1, i)
            BY <1>1, <1>2, <2>2, <3>6, <3>7, LongerChain
        <3> QED BY <1>1, <3>8
    <2> QED BY <1>1, <2>1, <2>2
<1>6. ASSUME WellFormed, ChainInto(L + 1, i) PROVE FALSE
    <2>1. PICK j \in Parents(i) : ChainInto(L, j)
        BY <1>1, <1>6, ChainTail
    <2>2. j \in DOMAIN plan /\ plan[j].id \in IdsBefore(L)
        BY <1>2, <1>4 DEF Parents
    <2>3. PICK b \in 1 .. L : plan[j].id \in IdsOf(plan, batches[b])
        BY <2>2 DEF IdsBefore
    <2>4. PICK k \in batches[b] : plan[k].id = plan[j].id
        BY <2>3 DEF IdsOf
    <2>5. k = j
        BY <1>1, <1>6, <2>2, <2>3, <2>4 DEF IInv, TypeOK, WellFormed, UniqueIds
    <2>6. ~ ChainInto(b, j)
        BY <1>1, <1>6, <2>3, <2>4, <2>5 DEF LevelInv
    <2>7. b \in 0 .. L
        BY <1>1, <2>3
    <2> QED BY <1>1, <2>1, <2>6, <2>7, ShorterChain
<1> QED BY <1>3, <1>5, <1>6

LEMMA LevelInit == Init => LevelInv
<1> SUFFICES ASSUME Init PROVE LevelInv
    OBVIOUS
<1>1. PICK raw \in RawPlans : plan = Decompose(raw, MaxSteps)
    BY DEF Init
<1>2. raw \in Seq(Step(Ids)) /\ MaxSteps \in Nat
    BY PlansAssumption
<1>3. plan \in Seq(Step(Ids))
    BY <1>1, <1>2, SubSeqProperties, LenProperties DEF Decompose
<1>4. batches = <<>> /\ DOMAIN batches = {} /\ Len(batches) = 0
    BY EmptySeq DEF Init
<1> QED BY <1>3, <1>4 DEF LevelInv, NoIdleWait

LEMMA LevelStep == IInv /\ IInv' /\ LevelInv /\ [Next]_vars => LevelInv'
<1> SUFFICES ASSUME IInv, IInv', LevelInv, [Next]_vars PROVE LevelInv'
    OBVIOUS
<1> DEFINE L == Len(batches)
<1>1. L \in Nat /\ DOMAIN batches = 1 .. L /\ (batches # <<>> <=> L > 0)
    BY LenProperties, EmptySeq DEF IInv
<1>2. ASSUME NEW batch, batch # {}, batch \subseteq Remaining(plan, completed), looping,
             batches' = Append(batches, batch), plan' = plan
      PROVE  /\ L + 1 = Len(batches') /\ DOMAIN batches' = 1 .. L + 1
             /\ batches'[L + 1] = batch
             /\ \A b \in 1 .. L : batches'[b] = batches[b]
             /\ \A n \in 0 .. L : IdsBefore(n)' = IdsBefore(n)
    <2>1. /\ batches' \in Seq(SUBSET DOMAIN plan) /\ L + 1 = Len(batches')
          /\ batches'[L + 1] = batch
          /\ \A b \in 1 .. L : batches'[b] = batches[b]
        BY <1>1, <1>2, NewBatch
    <2>2. DOMAIN batches' = 1 .. L + 1
        BY <2>1, LenProperties
    <2>3. ASSUME NEW n \in 0 .. L PROVE IdsBefore(n)' = IdsBefore(n)
        BY <1>1, <1>2, <2>1 DEF IdsBefore
    <2> QED BY <2>1, <2>2, <2>3
<1>3. CASE BatchReady
    <2> DEFINE batch == Ready(plan, completed)
    <2>1. /\ looping /\ plan' = plan /\ batch # {} /\ batches' = Append(batches, batch)
          /\ completed' = completed \cup IdsOf(plan, batch)
          /\ batch \subseteq Remaining(plan, completed)
        BY <1>3 DEF BatchReady, Ready
    <2>2. /\ L + 1 = Len(batches') /\ DOMAIN batches' = 1 .. L + 1
          /\ batches'[L + 1] = batch
          /\ \A b \in 1 .. L : batches'[b] = batches[b]
          /\ \A n \in 0 .. L : IdsBefore(n)' = IdsBefore(n)
        BY <1>2, <2>1
    <2>3. /\ \A i \in batch : L > 0 => ~ (plan[i].deps \subseteq IdsBefore(L - 1))
          /\ WellFormed => \A i \in batch : ChainInto(L, i) /\ ~ ChainInto(L + 1, i)
        BY <1>1, <2>1, NewLevel
    <2>4. NoIdleWait'
        <3> SUFFICES ASSUME NEW b \in 2 .. L + 1, NEW i \in batches'[b]
                     PROVE  ~ (plan[i].deps \subseteq IdsBefore(b - 2)')
            BY <2>1, <2>2 DEF NoIdleWait
        <3>1. b - 2 \in 0 .. L /\ IdsBefore(b - 2)' = IdsBefore(b - 2)
            BY <1>1, <2>2
        <3>2. CASE b = L + 1
            BY <1>1, <2>2, <2>3, <3>1, <3>2
        <3>3. CASE b \in 2 .. L
            BY <1>1, <2>2, <3>1, <3>3 DEF LevelInv, NoIdleWait
        <3> QED BY <1>1, <3>2, <3>3
    <2>5. \A n \in 0 .. L, i \in Remaining(plan, completed)' :
             n = L => ~ (plan[i].deps \subseteq IdsBefore(n)')
        <3> SUFFICES ASSUME NEW i \in Remaining(plan, completed)',
                            plan[i].deps \subseteq IdsBefore(L)
                     PROVE  FALSE
            BY <2>2
        <3>1. IdsBefore(L) \subseteq completed
            BY <1>1, <2>1 DEF IdsBefore, IInv
        <3>2. i \in Remaining(plan, completed) /\ i \notin batch
            BY <2>1 DEF Remaining, IdsOf
        <3> QED BY <3>1, <3>2 DEF Ready
    <2>6. ASSUME WellFormed', NEW b \in DOMAIN batches', NEW i \in batches'[b]
          PROVE  ChainInto(b - 1, i)' /\ ~ ChainInto(b, i)'
        <3>1. WellFormed /\ \A n, j : ChainInto(n, j)' <=> ChainInto(n, j)
            BY <2>1, <2>6, PlanFixed
        <3>2. CASE b = L + 1
            <4>1. b - 1 = L
                BY <1>1, <3>2
            <4> QED BY <2>2, <2>3, <3>1, <3>2, <4>1
        <3>3. CASE b \in 1 .. L
            BY <1>1, <2>2, <3>1, <3>3 DEF LevelInv
        <3> QED BY <1>1, <2>2, <3>2, <3>3
    <2>7. L = Len(batches') - 1 /\ plan' \in Seq(Step(Ids))
        BY <1>1, <2>1, <2>2 DEF LevelInv
    <2>8. (looping /\ batches # <<>> =>
             \A i \in Remaining(plan, completed) :
                ~ (plan[i].deps \subseteq IdsBefore(Len(batches) - 1)))'
        <3>1. \A n : n = Len(batches') - 1 => n = L /\ n \in 0 .. L
            BY <1>1, <2>7
        <3> QED BY <2>1, <2>5, <3>1
    <2> QED BY <2>1, <2>4, <2>6, <2>7, <2>8 DEF LevelInv
<1>4. CASE BatchRest
    <2> DEFINE batch == Remaining(plan, completed)
    <2>1. /\ looping /\ plan' = plan /\ batch # {} /\ batches' = Append(batches, batch)
          /\ ~ looping'
        BY <1>4 DEF BatchRest
    <2>2. ~ WellFormed
        BY <1>4, SomethingReady DEF BatchRest
    <2>3. /\ L + 1 = Len(batches')
          /\ batches'[L + 1] = batch
          /\ \A b \in 1 .. L : batches'[b] = batches[b]
          /\ \A n \in 0 .. L : IdsBefore(n)' = IdsBefore(n)
        BY <1>2, <2>1
    <2>4. NoIdleWait'
        <3> SUFFICES ASSUME NEW b \in 2 .. L + 1, NEW i \in batches'[b]
                     PROVE  ~ (plan[i].deps \subseteq IdsBefore(b - 2)')
            BY <2>1, <2>3 DEF NoIdleWait
        <3>1. b - 2 \in 0 .. L /\ IdsBefore(b - 2)' = IdsBefore(b - 2)
            BY <1>1, <2>3
        <3>2. CASE b = L + 1
            BY <1>1, <2>1, <2>3, <3>1, <3>2 DEF LevelInv
        <3>3. CASE b \in 2 .. L
            BY <1>1, <2>3, <3>1, <3>3 DEF LevelInv, NoIdleWait
        <3> QED BY <1>1, <3>2, <3>3
    <2>5. ~ WellFormed' /\ plan' \in Seq(Step(Ids))
        BY <2>1, <2>2, PlanFixed DEF LevelInv
    <2> QED BY <2>1, <2>4, <2>5 DEF LevelInv
<1>5. CASE LoopEnds \/ UNCHANGED vars
    <2>1. /\ UNCHANGED <<plan, completed, batches>> /\ (looping' => looping)
        BY <1>5 DEF LoopEnds, vars
    <2>2. /\ WellFormed' <=> WellFormed
          /\ \A n, i : ChainInto(n, i)' <=> ChainInto(n, i)
          /\ \A n : IdsBefore(n)' = IdsBefore(n)
        BY <2>1, PlanFixed DEF IdsBefore
    <2> QED BY <2>1, <2>2 DEF LevelInv, NoIdleWait
<1> QED BY <1>3, <1>4, <1>5 DEF Next

THEOREM LevelsInvariant == Spec => []LevelInv
BY LevelInit, LevelStep, BatchesInvariant, PTL DEF Spec

-----------------------------------------------------------------------------
(* Batches are disjoint and none is empty: a choice of one step from each  *)
(* is an injection into the plan.                                          *)
LEMMA FewBatches == IInv /\ LevelInv => BatchesBounded
<1> SUFFICES ASSUME IInv, LevelInv, Len(batches) > Len(plan) PROVE FALSE
    BY LenProperties DEF BatchesBounded, IInv, LevelInv
<1> DEFINE B == 1 .. Len(batches)
           P == 1 .. Len(plan)
           pick == [b \in B |-> CHOOSE i : i \in batches[b]]
<1>1. /\ Len(batches) \in Nat /\ DOMAIN batches = B
      /\ Len(plan) \in Nat /\ DOMAIN plan = P
    BY LenProperties DEF IInv, LevelInv
<1>2. \A b \in B : pick[b] \in batches[b]
    BY <1>1 DEF IInv, TypeOK
<1>3. pick \in [B -> P]
    BY <1>1, <1>2 DEF IInv, TypeOK
<1>4. /\ IsFiniteSet(B) /\ IsFiniteSet(P)
      /\ Cardinality(B) = Len(batches) /\ Cardinality(P) = Len(plan)
    <2>1. ASSUME NEW n \in Nat PROVE IsFiniteSet(1 .. n) /\ Cardinality(1 .. n) = n
        <3>1. 1 \in Int /\ n \in Int
            OBVIOUS
        <3>2. /\ IsFiniteSet(1 .. n)
              /\ Cardinality(1 .. n) = IF 1 > n THEN 0 ELSE n - 1 + 1
            BY <3>1, FS_Interval, Zenon
        <3> QED BY <3>2
    <2> QED BY <1>1, <2>1
<1>5. PICK b, c \in B : b # c /\ pick[b] = pick[c]
    <2> HIDE DEF B, P, pick
    <2> QED BY <1>3, <1>4, FS_PigeonHole
<1>6. batches[b] \cap batches[c] = {}
    BY <1>1, <1>5 DEF IInv, NoStepBatchedTwice
<1> QED BY <1>2, <1>5, <1>6

(* A position's level is the one number that chains into it reach and do   *)
(* not pass.                                                               *)
LEMMA LevelIs ==
    ASSUME NEW n \in 0 .. Len(plan), Len(plan) \in Nat, NEW i,
           ChainInto(n, i), ~ ChainInto(n + 1, i)
    PROVE  Level(i) = n
<1>1. ASSUME NEW m \in 0 .. Len(plan), ChainInto(m, i), ~ ChainInto(m + 1, i)
      PROVE  m = n
    <2>1. CASE m < n
        BY <1>1, <2>1, ShorterChain
    <2>2. CASE n < m
        BY <1>1, <2>2, ShorterChain
    <2> QED BY <2>1, <2>2
<1> QED BY <1>1 DEF Level

LEMMA BatchesAreLevels == IInv /\ LevelInv => BatchIsLevel
<1> SUFFICES ASSUME IInv, LevelInv, WellFormed, ~ looping, NEW i \in DOMAIN plan
             PROVE  BatchOf(i) = {Level(i) + 1}
    BY DEF BatchIsLevel
<1>1. /\ Len(batches) \in Nat /\ DOMAIN batches = 1 .. Len(batches)
      /\ Len(plan) \in Nat /\ Len(batches) <= Len(plan)
    BY FewBatches, LenProperties DEF IInv, LevelInv, BatchesBounded
<1>2. PICK b \in DOMAIN batches : i \in batches[b]
    <2>1. PICK b \in DOMAIN batches : plan[i].id \in IdsOf(plan, batches[b])
        BY DEF IInv, EveryIdIsBatched
    <2>2. PICK j \in batches[b] : plan[j].id = plan[i].id
        BY <2>1 DEF IdsOf
    <2>3. j = i
        BY <2>1, <2>2 DEF WellFormed, UniqueIds, IInv, TypeOK
    <2> QED BY <2>1, <2>2, <2>3
<1>3. BatchOf(i) = {b}
    BY <1>2 DEF BatchOf, IInv, NoStepBatchedTwice
<1>4. ChainInto(b - 1, i) /\ ~ ChainInto((b - 1) + 1, i) /\ b - 1 \in 0 .. Len(plan)
    BY <1>1, <1>2 DEF LevelInv
<1>5. Level(i) = b - 1
    BY <1>1, <1>4, LevelIs
<1> QED BY <1>1, <1>2, <1>3, <1>5

(* decomposer.js:95-96 and 104-117: on a plan with unique identifiers,     *)
(* known dependencies and no cycle, the batch of a step is the length of   *)
(* the longest chain of dependencies into it.                              *)
THEOREM Levels == Spec => []BatchIsLevel
BY BatchesAreLevels, BatchesInvariant, LevelsInvariant, PTL

(* On any plan, defects included, no step waits for a batch it needs       *)
(* nothing of: the parallelism the plan allows is used.                    *)
THEOREM NobodyWaitsIdle == Spec => []NoIdleWait
<1>1. LevelInv => NoIdleWait
    BY DEF LevelInv
<1> QED BY <1>1, LevelsInvariant, PTL

(* There are never more batches than steps. *)
THEOREM BatchesFewer == Spec => []BatchesBounded
BY FewBatches, BatchesInvariant, LevelsInvariant, PTL

(* Every iteration of the loop completes an identifier that remained, or   *)
(* is the last: decomposer.js:106, while (remaining.length > 0), counts     *)
(* down whatever the plan.                                                 *)
THEOREM LoopProgresses == Spec => IterationsProgress
<1>1. ASSUME IInv, [Next]_vars
      PROVE  [\/ ~ looping'
              \/ /\ Remaining(plan, completed)' \subseteq Remaining(plan, completed)
                 /\ Remaining(plan, completed)' # Remaining(plan, completed)]_vars
    <2>1. CASE BatchReady
        <3>1. PICK i : i \in Ready(plan, completed)
            BY <2>1 DEF BatchReady
        <3>2. i \in Remaining(plan, completed) /\ i \notin Remaining(plan, completed)'
            BY <2>1, <3>1 DEF BatchReady, Ready, Remaining, IdsOf
        <3>3. Remaining(plan, completed)' \subseteq Remaining(plan, completed)
            BY <2>1 DEF BatchReady, Remaining
        <3> QED BY <3>2, <3>3
    <2>2. CASE BatchRest \/ LoopEnds
        BY <2>2 DEF BatchRest, LoopEnds
    <2> QED BY <1>1, <2>1, <2>2 DEF Next
<1> QED BY <1>1, BatchesInvariant, PTL DEF Spec, IterationsProgress
=============================================================================
