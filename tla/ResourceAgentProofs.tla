------------------------- MODULE ResourceAgentProofs -------------------------
(***************************************************************************)
(* Theorems about ResourceAgent, for every value of its constants.         *)
(***************************************************************************)
EXTENDS ResourceAgent, ListLemmas, FiniteSetTheorems, FunctionTheorems,
        SequenceTheorems, WellFoundedInduction, TLAPS

------------------------------------------------------------------------------
(* The operators that compute budgets and lists                              *)

\* Subtraction of unsigned integers yields an unsigned integer.
LEMMA MinusType ==
    ASSUME NEW a \in 0..UIntMod - 1, NEW b \in 0..UIntMod - 1
    PROVE  Minus(a, b) \in 0..UIntMod - 1
BY ConstantsAssumption DEF ConstantsAssumption, Minus

\* What is left after paying is a triple of unsigned integers.
LEMMA ChargeType ==
    ASSUME NEW p \in Price, NEW c \in Price
    PROVE  Charge(p, c) \in Price
BY MinusType DEF Charge, Price

\* A bill is a triple of natural numbers.
LEMMA AddType ==
    ASSUME NEW p \in Amounts, NEW c \in Price
    PROVE  Add(p, c) \in Amounts
BY ConstantsAssumption DEF ConstantsAssumption, Add, Amounts, Price

------------------------------------------------------------------------------
(* Type correctness                                                          *)

\* Facts about task t that the actions use.
LEMMA TaskFacts ==
    ASSUME NEW t \in Task
    PROVE  /\ t.action \in {"BUILD", "TRAIN", "UPGRADE"} => Cost[t.what] \in Price
           /\ t.action \in {"BUILD", "TRAIN"} => t.what \in UnitType
           /\ t.action \in {"TRAIN", "TRANSFER"} => t.source \in Owner
           /\ t.action = "REPAIR" => t.target \in Target
           /\ t.action = "BUILD" => Cost[t.what].food = 0
BY ConstantsAssumption DEF ConstantsAssumption

\* The state after OnGameStart has the types.
LEMMA InitType == Init => TypeOK
BY ConstantsAssumption
   DEF ConstantsAssumption, Init, TypeOK, NoOrders, Unassigned, Zero, Price,
       Amounts

\* Every action that is no iteration of the loop preserves the types.
LEMMA OutsideLoopType ==
    ASSUME TypeOK,
           \/ Observe
           \/ \E t \in Task \ DepotTask : AddTask(t)
           \/ \E y \in UnitType : LoseProduction(y)
           \/ \E u \in Unit : UnitCreated(u)
           \/ \E u \in Unit : UnitDestroyed(u)
           \/ StepBegin
           \/ StepEnd
    PROVE  TypeOK'
<1> USE DEF TypeOK, agentVars, gameVars, stepVars
<1>1. CASE Observe
  <2>1. orders' \in [Scv -> SUBSET Order]
    BY <1>1 DEF Observe, Ordered
  <2>2. /\ obs' \in Observation
        /\ UNCHANGED <<queue, ordered_units, roster, born, dead, live>>
        /\ phase' = "events"
        /\ avail' = Zero /\ bill' = Zero
        /\ issued' = NoOrders
        /\ nearest' = Unassigned
    BY <1>1 DEF Observe
  <2>3. /\ Zero \in Price /\ Zero \in Amounts
        /\ NoOrders \in [Scv -> SUBSET Order]
        /\ Unassigned \in [Target -> Scv \union {NoScv}]
    BY ConstantsAssumption
       DEF ConstantsAssumption, Zero, Price, Amounts, NoOrders, Unassigned
  <2>4. QED
    BY <2>1, <2>2, <2>3
<1>2. CASE \E t \in Task \ DepotTask : AddTask(t)
  BY <1>2 DEF AddTask
<1>3. CASE \E y \in UnitType : LoseProduction(y)
  BY <1>3 DEF LoseProduction
<1>4. ASSUME NEW u \in Unit, UnitCreated(u)
      PROVE  TypeOK'
  <2>1. TypeOf[u] \in UnitType
    BY ConstantsAssumption DEF ConstantsAssumption
  <2>2. live' \in [UnitType -> Nat]
    BY <1>4, <2>1 DEF UnitCreated
  <2>3. "RESOURCE_AGENT" \in Owner
    BY DEF Owner, SourceAgent
  <2>4. CASE Entries(TypeOf[u]) = {}
    <3>1. /\ roster' = Give(roster, "RESOURCE_AGENT", u)
          /\ ordered_units' = ordered_units
      BY <1>4, <2>4 DEF UnitCreated
    <3>2. roster' \in [Owner -> SUBSET Unit]
      BY <3>1, <2>3 DEF Give
    <3>3. QED
      BY <1>4, <2>2, <3>1, <3>2 DEF UnitCreated
  <2>5. ASSUME NEW i \in Oldest(Entries(TypeOf[u])),
               roster' = Give(roster, ordered_units[i].source, u),
               ordered_units' = RemoveAt(ordered_units, i)
        PROVE  TypeOK'
    <3>1. i \in 1..Len(ordered_units)
      BY <2>5, LenProperties DEF Oldest, Entries
    <3>2. ordered_units[i].source \in Owner
      <4>1. ordered_units[i] \in [source : Owner, utype : UnitType]
        BY <3>1, ElementOfSeq
      <4>2. QED
        BY <4>1
    <3>3. ordered_units' \in Seq([source : Owner, utype : UnitType])
      BY <2>5, <3>1, RemoveAtProperties
    <3>4. roster' \in [Owner -> SUBSET Unit]
      BY <2>5, <3>2 DEF Give
    <3>5. QED
      BY <1>4, <2>2, <3>3, <3>4 DEF UnitCreated
  <2>6. QED
    BY <1>4, <2>4, <2>5 DEF UnitCreated
<1>5. ASSUME NEW u \in Unit, UnitDestroyed(u)
      PROVE  TypeOK'
  <2>1. queue' \subseteq Task
    BY <1>5 DEF UnitDestroyed, Replace, PushOneOf, ScoutOrder
  <2>2. orders' \in [Scv -> SUBSET Order]
    BY <1>5 DEF UnitDestroyed
  <2>3. roster' \in [Owner -> SUBSET Unit]
    BY <1>5 DEF UnitDestroyed
  <2>4. QED
    BY <1>5, <2>1, <2>2, <2>3 DEF UnitDestroyed
<1>6. CASE StepBegin
  <2>1. queue' \subseteq Task
    BY <1>6, ConstantsAssumption
       DEF ConstantsAssumption, StepBegin, PushDepot, PushOneOf
  <2>2. avail' \in Price
    <3>1. /\ obs.foodCap \in 0..UIntMod - 1
          /\ obs.foodUsed \in 0..UIntMod - 1
          /\ obs.minerals \in 0..UIntMod - 1
          /\ obs.vespene \in 0..UIntMod - 1
      BY ConstantsAssumption DEF ConstantsAssumption
    <3>2. QED
      BY <1>6, <3>1, MinusType DEF StepBegin, Price
  <2>3. nearest' \in [Target -> Scv \union {NoScv}]
    BY <1>6 DEF StepBegin, Available
  <2>4. QED
    BY <1>6, <2>1, <2>2, <2>3 DEF StepBegin
<1>7. CASE StepEnd
  BY <1>7 DEF StepEnd
<1>8. QED
  BY <1>1, <1>2, <1>3, <1>4, <1>5, <1>6, <1>7

\* Every iteration of the loop preserves the types.
LEMMA IterateType ==
    ASSUME TypeOK, Iterate
    PROVE  TypeOK'
<1> USE DEF TypeOK, agentVars, gameVars, stepVars
<1>1. PICK t \in Tops(queue) :
          \/ DoCommand(t) \/ DoBuild(t) \/ DoTrain(t)
          \/ DoRepair(t) \/ DoUpgrade(t) \/ DoTransfer(t)
  BY DEF Iterate
<1>2. t \in Task
  BY DEF Tops
<1>3. CASE PutBack
  BY <1>3 DEF PutBack
<1>4. CASE Drop(t)
  BY <1>4 DEF Drop
<1>5. ASSUME t.action = "BUILD", Construct(t)
      PROVE  TypeOK'
  <2>1. t.what \in UnitType /\ Cost[t.what] \in Price
    BY <1>2, <1>5, TaskFacts
  <2>2. avail' \in Price /\ bill' \in Amounts
    BY <1>5, <2>1, ChargeType, AddType DEF Construct
  <2>3. issued' \in [Scv -> SUBSET Order]
    <3>1. PICK s \in Available :
              issued' = [issued EXCEPT ![s] = @ \union {t.what}]
      BY <1>5 DEF Construct
    <3>2. s \in Scv
      BY DEF Available
    <3>3. QED
      BY <2>1, <3>1, <3>2 DEF Order
  <2>4. QED
    BY <1>5, <2>2, <2>3 DEF Construct
<1>6. ASSUME t.action = "TRAIN", Train(t)
      PROVE  TypeOK'
  <2>1. t.what \in UnitType /\ Cost[t.what] \in Price /\ t.source \in Owner
    BY <1>2, <1>6, TaskFacts
  <2>2. avail' \in Price /\ bill' \in Amounts
    BY <1>6, <2>1, ChargeType, AddType DEF Train
  <2>3. ordered_units' \in Seq([source : Owner, utype : UnitType])
    BY <1>6, <2>1, AppendProperties DEF Train
  <2>4. live' \in [UnitType -> Nat]
    BY <1>6, <2>1 DEF Train
  <2>5. QED
    BY <1>6, <2>2, <2>3, <2>4 DEF Train
<1>7. CASE DoRepair(t)
  <2>1. t.target \in Target
    BY <1>2, <1>7, TaskFacts DEF DoRepair
  <2>2. ASSUME NEW s \in Scv, issued' = [issued EXCEPT ![s] = @ \union {t.target}]
        PROVE  issued' \in [Scv -> SUBSET Order]
    BY <2>1, <2>2 DEF Order
  <2>3. issued' = issued
            \/ \E s \in Scv : issued' = [issued EXCEPT ![s] = @ \union {t.target}]
    BY <1>7 DEF DoRepair, Drop, NearestScv, Available
  <2>4. issued' \in [Scv -> SUBSET Order]
    BY <2>2, <2>3
  <2>5. QED
    BY <1>7, <2>4 DEF DoRepair, Drop
<1>8. CASE DoTransfer(t)
  <2>1. t.source \in Owner /\ "RESOURCE_AGENT" \in Owner
    BY <1>2, <1>8, TaskFacts DEF DoTransfer, Owner, SourceAgent
  <2>2. ASSUME NEW u \in Unit, TransferUnit(t, u)
        PROVE  TypeOK'
    <3>1. roster' \in [Owner -> SUBSET Unit]
      BY <2>1, <2>2 DEF TransferUnit, Give
    <3>2. QED
      BY <2>2, <3>1 DEF TransferUnit
  <2>3. QED
    BY <1>4, <1>8, <2>2 DEF DoTransfer, Available, Scv
<1>9. QED
  BY <1>1, <1>3, <1>4, <1>5, <1>6, <1>7, <1>8
     DEF DoCommand, DoBuild, DoTrain, DoUpgrade

\* Every variable has its type in every reachable state.
THEOREM TypeCorrect == Spec => []TypeOK
<1>1. TypeOK /\ [Next]_vars => TypeOK'
  <2>1. CASE UNCHANGED vars
    BY <2>1 DEF TypeOK, vars, agentVars, gameVars, stepVars
  <2>2. QED
    BY <2>1, OutsideLoopType, IterateType DEF Next
<1>2. QED
  BY InitType, <1>1, PTL DEF Spec

------------------------------------------------------------------------------
(* The budget of a step                                                      *)

\* While the loop runs, what is left and what was spent add up to what was
\* observed: no subtraction has wrapped around.
BudgetInv ==
    /\ WithinBudget
    /\ phase = "events" => bill = Zero
    /\ phase = "drain" =>
        /\ obs.foodCap < 200 => /\ avail.minerals + bill.minerals = obs.minerals
                                /\ avail.vespene + bill.vespene = obs.vespene
        /\ obs.foodUsed <= obs.foodCap =>
               obs.foodUsed + bill.food + avail.food = obs.foodCap

\* What an observation shows are unsigned integers.
LEMMA ObservationFacts ==
    ASSUME NEW o \in Observation
    PROVE  /\ o.minerals \in 0..UIntMod - 1 /\ o.vespene \in 0..UIntMod - 1
           /\ o.foodUsed \in 0..UIntMod - 1 /\ o.foodCap \in 0..UIntMod - 1
           /\ UIntMod \in Nat
BY ConstantsAssumption DEF ConstantsAssumption

\* Charging an affordable cost moves it from what is left to what was spent.
LEMMA ChargeAffordable ==
    ASSUME TypeOK, NEW c \in Price, ~Short(c)
    PROVE  LET a == Charge(avail, c)
               b == Add(bill, c)
           IN  /\ a.minerals + b.minerals = avail.minerals + bill.minerals
               /\ a.vespene + b.vespene = avail.vespene + bill.vespene
               /\ c.food <= avail.food =>
                      a.food + b.food = avail.food + bill.food
               /\ a \in Price /\ b \in Amounts
<1>1. avail \in Price /\ bill \in Amounts
  BY DEF TypeOK
<1>2. Charge(avail, c) \in Price /\ Add(bill, c) \in Amounts
  BY <1>1, ChargeType, AddType
<1>3. UIntMod \in Nat
  BY ConstantsAssumption DEF ConstantsAssumption
<1>4. QED
  BY <1>1, <1>2, <1>3 DEF Short, Charge, Add, Minus, Price, Amounts

\* Every step preserves the invariant.
LEMMA BudgetStep ==
    ASSUME TypeOK, TypeOK', BudgetInv, Next
    PROVE  BudgetInv'
<1> USE DEF agentVars, gameVars, stepVars
<1>1. CASE Observe
  <2>1. phase' = "events" /\ bill' = Zero /\ obs' \in Observation
    BY <1>1 DEF Observe
  <2>2. QED
    BY <2>1, ObservationFacts DEF BudgetInv, WithinBudget, Zero
<1>2. CASE \/ \E t \in Task \ DepotTask : AddTask(t)
           \/ \E y \in UnitType : LoseProduction(y)
           \/ \E u \in Unit : UnitCreated(u)
           \/ \E u \in Unit : UnitDestroyed(u)
  <2>1. UNCHANGED <<obs, phase, avail, bill>>
    BY <1>2 DEF AddTask, LoseProduction, UnitCreated, UnitDestroyed
  <2>2. QED
    BY <2>1 DEF BudgetInv, WithinBudget
<1>3. CASE StepBegin
  <2>1. /\ bill = Zero /\ UNCHANGED <<obs, bill>> /\ phase' = "drain"
        /\ avail' = [food |-> Minus(obs.foodCap, obs.foodUsed),
                     minerals |-> obs.minerals, vespene |-> obs.vespene]
    BY <1>3 DEF StepBegin, BudgetInv
  <2>2. obs \in Observation
    BY DEF TypeOK
  <2>3. QED
    BY <2>1, <2>2, ObservationFacts DEF BudgetInv, WithinBudget, Zero, Minus
<1>4. CASE StepEnd
  BY <1>4 DEF StepEnd, BudgetInv, WithinBudget
<1>5. CASE Iterate
  <2>1. PICK t \in Tops(queue) :
            \/ DoCommand(t) \/ DoBuild(t) \/ DoTrain(t)
            \/ DoRepair(t) \/ DoUpgrade(t) \/ DoTransfer(t)
    BY <1>5 DEF Iterate
  <2>2. t \in Task /\ phase = "drain"
    BY <1>5 DEF Tops, TypeOK, Iterate
  <2> DEFINE c == Cost[t.what]
  <2>3. CASE UNCHANGED <<obs, avail, bill>> /\ phase' \in {"drain", "sent"}
    BY <2>2, <2>3 DEF BudgetInv, WithinBudget
  <2>4. ASSUME t.action = "BUILD", ~Waits(c), Construct(t)
        PROVE  BudgetInv'
    <3>1. c \in Price /\ c.food = 0
      BY <2>2, <2>4, TaskFacts
    <3>2. /\ phase' = "sent" /\ UNCHANGED obs
          /\ bill' = Add(bill, c)
      BY <2>4 DEF Construct
    <3>3. obs.foodCap < 200 => ~Short(c)
      BY <2>4 DEF Waits
    <3>4. bill'.food = bill.food
      BY <3>1, <3>2 DEF Add, TypeOK, Amounts
    <3>5. obs.foodCap < 200 => /\ bill'.minerals <= obs.minerals
                               /\ bill'.vespene <= obs.vespene
      <4>1. SUFFICES ASSUME obs.foodCap < 200
                     PROVE  /\ bill'.minerals <= obs.minerals
                            /\ bill'.vespene <= obs.vespene
        OBVIOUS
      <4>2. avail' = Charge(avail, c)
        BY <2>4 DEF Construct
      <4>3. /\ avail'.minerals + bill'.minerals = avail.minerals + bill.minerals
            /\ avail'.vespene + bill'.vespene = avail.vespene + bill.vespene
            /\ avail' \in Price /\ bill' \in Amounts
        BY <3>1, <3>2, <3>3, <4>1, <4>2, ChargeAffordable
      <4>4. /\ avail'.minerals + bill'.minerals = obs.minerals
            /\ avail'.vespene + bill'.vespene = obs.vespene
        BY <2>2, <4>1, <4>3 DEF BudgetInv
      <4>5. /\ avail'.minerals \in Nat /\ avail'.vespene \in Nat
            /\ bill'.minerals \in Nat /\ bill'.vespene \in Nat
        BY <4>3 DEF Price, Amounts
      <4>6. QED
        BY <4>4, <4>5
    <3>6. QED
      BY <2>2, <3>2, <3>4, <3>5 DEF BudgetInv, WithinBudget
  <2>5. ASSUME t.action = "TRAIN", ~Unaffordable(c), Train(t)
        PROVE  BudgetInv'
    <3>1. c \in Price
      BY <2>2, <2>5, TaskFacts
    <3>2. /\ phase' = "drain" /\ UNCHANGED obs
          /\ avail' = Charge(avail, c) /\ bill' = Add(bill, c)
      BY <2>2, <2>5 DEF Train
    <3>3. ~Short(c) /\ c.food <= avail.food
      BY <2>5, <3>1 DEF Unaffordable, Price, TypeOK
    <3>4. /\ avail'.minerals + bill'.minerals = avail.minerals + bill.minerals
          /\ avail'.vespene + bill'.vespene = avail.vespene + bill.vespene
          /\ avail'.food + bill'.food = avail.food + bill.food
          /\ avail' \in Price /\ bill' \in Amounts
      BY <3>1, <3>2, <3>3, ChargeAffordable
    <3>5. /\ avail \in Price /\ bill \in Amounts /\ obs \in Observation
      BY DEF TypeOK
    <3>6. QED
      BY <2>2, <3>2, <3>4, <3>5, ObservationFacts
         DEF BudgetInv, WithinBudget, Price, Amounts
  <2>6. CASE PutBack \/ Drop(t) \/ DoRepair(t) \/ DoTransfer(t)
    BY <2>2, <2>3, <2>6
       DEF PutBack, Drop, DoRepair, DoTransfer, TransferUnit
  <2>7. QED
    BY <2>1, <2>4, <2>5, <2>6 DEF DoCommand, DoBuild, DoTrain, DoUpgrade
<1>6. QED
  BY <1>1, <1>2, <1>3, <1>4, <1>5 DEF Next

\* No step spends more than it observed.
THEOREM Budget == Spec => []WithinBudget
<1>1. Init => BudgetInv
  <2> SUFFICES ASSUME Init PROVE BudgetInv
    OBVIOUS
  <2>1. bill = Zero /\ phase = "events" /\ obs \in Observation
    BY DEF Init
  <2>2. QED
    BY <2>1, ObservationFacts DEF BudgetInv, WithinBudget, Zero
<1>2. TypeOK /\ TypeOK' /\ BudgetInv /\ [Next]_vars => BudgetInv'
  <2>1. CASE UNCHANGED vars
    BY <2>1 DEF BudgetInv, WithinBudget, vars, gameVars, stepVars
  <2>2. QED
    BY <2>1, BudgetStep
<1>3. BudgetInv => WithinBudget
  BY DEF BudgetInv
<1>4. QED
  BY <1>1, <1>2, <1>3, TypeCorrect, PTL DEF Spec

------------------------------------------------------------------------------
(* The order of service                                                      *)

\* Every set of natural numbers that is not empty has a least one.
LEMMA LeastNat ==
    ASSUME NEW N \in SUBSET Nat, N # {}
    PROVE  \E n \in N : \A k \in N : n <= k
<1> DEFINE R == {p \in Nat \X Nat : p[1] < p[2]}
<1>1. IsWellFoundedOn(R, Nat)
  BY NatLessThanWellFounded DEF OpToRel
<1>2. PICK n \in N : \A k \in N : ~(<<k, n>> \in R)
  <2> HIDE DEF R
  <2>1. QED
    BY <1>1, WFMin
<1>3. \A k \in N : ~(k < n)
  BY <1>2
<1>4. QED
  BY <1>3

\* Task::operator< is a strict weak order, as std::priority_queue requires: it
\* is irreflexive and transitive, and so is being equal under it.
THEOREM TaskOrder ==
    \A t, u, v \in Task :
        /\ ~Less(t, t)
        /\ Less(t, u) /\ Less(u, v) => Less(t, v)
        /\ ~Less(t, u) /\ ~Less(u, t) /\ ~Less(u, v) /\ ~Less(v, u)
               => ~Less(t, v) /\ ~Less(v, t)
<1> SUFFICES ASSUME NEW t \in Task, NEW u \in Task, NEW v \in Task
             PROVE  /\ ~Less(t, t)
                    /\ Less(t, u) /\ Less(u, v) => Less(t, v)
                    /\ ~Less(t, u) /\ ~Less(u, t) /\ ~Less(u, v) /\ ~Less(v, u)
                           => ~Less(t, v) /\ ~Less(v, t)
  OBVIOUS
<1>1. \A w \in Task : w.priority \in Nat /\ Rank(w.source) \in Nat
  BY ConstantsAssumption DEF ConstantsAssumption, SourceAgent, Rank
<1> DEFINE p(w) == w.priority
           r(w) == Rank(w.source)
<1>2. /\ p(t) \in Nat /\ p(u) \in Nat /\ p(v) \in Nat
      /\ r(t) \in Nat /\ r(u) \in Nat /\ r(v) \in Nat
  BY <1>1
<1>3. \A w, x \in Task : Less(w, x) <=> p(w) < p(x) \/ (p(w) = p(x) /\ r(w) > r(x))
  BY DEF Less
<1> HIDE DEF p, r
<1>4. QED
  BY <1>2, <1>3

\* A queue that is finite and not empty has a task that pop() may return.
THEOREM PopFindsTask ==
    ASSUME NEW S \in SUBSET Task, IsFiniteSet(S), S # {}
    PROVE  Tops(S) # {}
<1> DEFINE Above(t) == {u \in S : Less(t, u)}
           Sizes == {Cardinality(Above(t)) : t \in S}
<1>1. \A t \in S : IsFiniteSet(Above(t)) /\ Cardinality(Above(t)) \in Nat
  <2> TAKE t \in S
  <2>1. IsFiniteSet(Above(t))
    BY FS_Subset
  <2>2. QED
    BY <2>1, FS_CardinalityType
<1>2. Sizes \subseteq Nat /\ Sizes # {}
  BY <1>1
<1>3. PICK n \in Sizes : \A k \in Sizes : n <= k
  BY <1>2, LeastNat
<1>4. PICK t \in S : n = Cardinality(Above(t))
  BY <1>3
<1>5. ASSUME NEW u \in Above(t) PROVE FALSE
  <2>1. u \in S /\ Less(t, u)
    BY <1>5
  <2>2. Above(u) \subseteq Above(t) /\ u \notin Above(u)
    BY <1>4, <2>1, TaskOrder
  <2>3. Above(u) # Above(t)
    BY <2>2
  <2>4. Cardinality(Above(u)) < Cardinality(Above(t))
    <3> HIDE DEF Above
    <3>1. QED
      BY <1>1, <1>4, <2>1, <2>2, <2>3, FS_Subset
  <2>5. Cardinality(Above(t)) <= Cardinality(Above(u))
    BY <1>3, <1>4, <2>1
  <2>6. QED
    BY <1>1, <1>4, <2>1, <2>4, <2>5
<1>6. t \in Tops(S)
  BY <1>4, <1>5 DEF Tops
<1>7. QED
  BY <1>6

\* One iteration takes the task it serves, or nothing, from the queue.
LEMMA IterateQueue ==
    ASSUME NEW t, DoCommand(t) \/ DoBuild(t) \/ DoTrain(t)
                  \/ DoRepair(t) \/ DoUpgrade(t) \/ DoTransfer(t)
    PROVE  queue' = queue \/ queue' = queue \ {t}
BY DEF DoCommand, DoBuild, DoTrain, DoRepair, DoUpgrade, DoTransfer,
       TransferUnit, Construct, Train, Drop, PutBack, agentVars

\* No action but an iteration of the loop takes a task from the queue.
LEMMA OutsideLoopQueue ==
    ASSUME Next, ~Iterate
    PROVE  queue \subseteq queue'
BY DEF Next, Observe, AddTask, LoseProduction, UnitCreated, UnitDestroyed,
       Replace, StepBegin, PushDepot, PushOneOf, StepEnd, agentVars

\* A step adds at most one task to the queue.
LEMMA QueueGrowsByOne ==
    ASSUME [Next]_vars
    PROVE  \E t : queue' \subseteq queue \union {t}
<1>1. CASE UNCHANGED vars
  BY <1>1 DEF vars, agentVars
<1>2. CASE Iterate
  <2>1. PICK t \in Tops(queue) : queue' = queue \/ queue' = queue \ {t}
    BY <1>2, IterateQueue DEF Iterate
  <2>2. QED
    BY <2>1
<1>3. CASE Next /\ ~Iterate
  BY <1>3 DEF Next, Observe, AddTask, LoseProduction, UnitCreated, UnitDestroyed,
              Replace, StepBegin, PushDepot, PushOneOf, StepEnd, agentVars
<1>4. QED
  BY <1>1, <1>2, <1>3

\* The queue is always finite, however long the game lasts.
THEOREM QueueFinite == Spec => []IsFiniteSet(queue)
<1>1. Init => IsFiniteSet(queue)
  BY FS_EmptySet DEF Init
<1>2. IsFiniteSet(queue) /\ [Next]_vars => IsFiniteSet(queue)'
  <2> SUFFICES ASSUME IsFiniteSet(queue), [Next]_vars
               PROVE  IsFiniteSet(queue')
    OBVIOUS
  <2>1. PICK t : queue' \subseteq queue \union {t}
    BY QueueGrowsByOne
  <2>2. IsFiniteSet(queue \union {t})
    BY FS_AddElement
  <2>3. QED
    BY <2>1, <2>2, FS_Subset
<1>3. QED
  BY <1>1, <1>2, PTL DEF Spec

\* The loop of step() has as many iterations left as there are tasks in its
\* queue, at most: each iteration ends the loop or takes a task that nothing
\* puts back before the loop ends.
LoopCountsDown ==
    [][phase = "drain" => \/ phase' = "sent"
                          \/ /\ phase' = "drain"
                             /\ Cardinality(queue') < Cardinality(queue)]_vars

\* The loop cannot go on for ever (the part of StepEnds that needs no fairness).
THEOREM LoopEnds == Spec => LoopCountsDown
<1> DEFINE Step == phase = "drain" => \/ phase' = "sent"
                                      \/ /\ phase' = "drain"
                                         /\ Cardinality(queue') < Cardinality(queue)
<1>1. TypeOK /\ IsFiniteSet(queue) /\ [Next]_vars => [Step]_vars
  <2> SUFFICES ASSUME TypeOK, IsFiniteSet(queue), Next, phase = "drain"
               PROVE  Step
    OBVIOUS
  <2>1. Iterate \/ StepEnd
    BY DEF Next, Observe, AddTask, LoseProduction, UnitCreated, UnitDestroyed,
           StepBegin
  <2>2. CASE StepEnd
    BY <2>2 DEF StepEnd
  <2>3. CASE Iterate
    <3>1. PICK t \in Tops(queue) :
              \/ DoCommand(t) \/ DoBuild(t) \/ DoTrain(t)
              \/ DoRepair(t) \/ DoUpgrade(t) \/ DoTransfer(t)
      BY <2>3 DEF Iterate
    <3>2. \/ phase' = "sent"
          \/ phase' = "drain" /\ queue' = queue \ {t}
      BY <3>1
         DEF DoCommand, DoBuild, DoTrain, DoRepair, DoUpgrade, DoTransfer,
             TransferUnit, Construct, Train, Drop, PutBack, stepVars
    <3>3. t \in queue
      BY <3>1 DEF Tops
    <3>4. IsFiniteSet(queue \ {t}) /\ Cardinality(queue \ {t}) < Cardinality(queue)
      <4>1. /\ IsFiniteSet(queue \ {t})
            /\ Cardinality(queue \ {t}) = Cardinality(queue) - 1
        BY <3>3, FS_RemoveElement
      <4>2. Cardinality(queue) \in Nat
        BY FS_CardinalityType
      <4>3. QED
        BY <4>1, <4>2
    <3>5. QED
      BY <3>2, <3>4
  <2>4. QED
    BY <2>1, <2>2, <2>3
<1>2. QED
  BY <1>1, QueueFinite, TypeCorrect, PTL DEF Spec, LoopCountsDown

\* "we don't want to remove tasks from queue if there are not enough resources
\* to perform them" (RESOURCE_BOT::step): below the maximum supply cap, a task
\* whose producer exists does not leave the queue while minerals or vespene are
\* missing.  What KeptUntilAffordable asks for and the code does not do is the
\* same for supply.
KeptUntilPaid ==
    [][\A t \in queue \ queue' :
          t.action \in {"BUILD", "TRAIN", "UPGRADE"} /\ obs.foodCap < 200
              => \/ ~Short(Cost[t.what])
                 \/ t.action = "TRAIN" /\ t.maker \notin obs.makers]_vars

\* Tasks wait for minerals and vespene.
THEOREM TasksWait == Spec => KeptUntilPaid
<1> DEFINE Step == \A t \in queue \ queue' :
              t.action \in {"BUILD", "TRAIN", "UPGRADE"} /\ obs.foodCap < 200
                  => \/ ~Short(Cost[t.what])
                     \/ t.action = "TRAIN" /\ t.maker \notin obs.makers
<1>1. ASSUME Next, NEW t \in queue \ queue',
             t.action \in {"BUILD", "TRAIN", "UPGRADE"},
             t.action # "TRAIN" \/ t.maker \in obs.makers,
             obs.foodCap < 200
      PROVE  ~Short(Cost[t.what])
  <2>1. Iterate
    BY <1>1, OutsideLoopQueue
  <2>2. PICK s \in Tops(queue) :
            \/ DoCommand(s) \/ DoBuild(s) \/ DoTrain(s)
            \/ DoRepair(s) \/ DoUpgrade(s) \/ DoTransfer(s)
    BY <2>1 DEF Iterate
  <2>3. s = t
    BY <1>1, <2>2, IterateQueue
  <2>4. ~PutBack
    BY <1>1 DEF PutBack, agentVars
  <2>5. SUFFICES ASSUME Short(Cost[t.what]) PROVE FALSE
    OBVIOUS
  <2>6. Waits(Cost[t.what]) /\ Unaffordable(Cost[t.what])
    BY <1>1, <2>5 DEF Waits, Unaffordable
  <2>7. QED
    BY <1>1, <2>2, <2>3, <2>4, <2>5, <2>6
       DEF DoCommand, DoBuild, DoTrain, DoRepair, DoUpgrade, DoTransfer
<1>2. Next => Step
  BY <1>1
<1>3. QED
  BY <1>2, PTL DEF Spec, KeptUntilPaid

------------------------------------------------------------------------------
(* One construction of a kind at a time                                      *)

\* Until the loop has sent an SCV to build, which ends it, this step has sent
\* none: what the observation shows is all there is.
ConstructionInv ==
    /\ OneConstruction
    /\ phase = "events" => issued = NoOrders
    /\ phase = "drain" => \A s \in Scv : issued[s] \cap UnitType = {}

\* Every step preserves the invariant: Construct only runs when no SCV is
\* seen, and none was sent in this step, to construct the type.
LEMMA ConstructionStep ==
    ASSUME TypeOK, ConstructionInv, Next
    PROVE  ConstructionInv'
<1> USE DEF agentVars, gameVars, stepVars
<1>1. CASE Observe
  <2>1. /\ \A s \in Scv : orders'[s] \subseteq Ordered(s)
        /\ phase' = "events" /\ issued' = NoOrders
    BY <1>1 DEF Observe
  <2>2. \A s \in Scv : (Ordered(s))' \subseteq Ordered(s)
    BY <2>1 DEF Ordered, NoOrders
  <2>3. QED
    BY <2>1, <2>2 DEF ConstructionInv, OneConstruction
<1>2. CASE \/ \E t \in Task \ DepotTask : AddTask(t)
           \/ \E y \in UnitType : LoseProduction(y)
           \/ \E u \in Unit : UnitCreated(u)
           \/ \E u \in Unit : UnitDestroyed(u)
           \/ StepBegin \/ StepEnd
  <2>1. /\ issued' = issued
        /\ \A s \in Scv : orders'[s] \subseteq orders[s]
    BY <1>2 DEF AddTask, LoseProduction, UnitCreated, UnitDestroyed, StepBegin,
                StepEnd, TypeOK
  <2>2. \/ phase' = phase
        \/ phase = "events" /\ phase' = "drain"
        \/ phase' = "sent"
    BY <1>2 DEF AddTask, LoseProduction, UnitCreated, UnitDestroyed, StepBegin,
                StepEnd
  <2>3. \A s \in Scv : (Ordered(s))' \subseteq Ordered(s)
    BY <2>1 DEF Ordered
  <2>4. QED
    BY <2>1, <2>2, <2>3 DEF ConstructionInv, OneConstruction, NoOrders
<1>3. CASE Iterate
  <2>1. PICK t \in Tops(queue) :
            \/ DoCommand(t) \/ DoBuild(t) \/ DoTrain(t)
            \/ DoRepair(t) \/ DoUpgrade(t) \/ DoTransfer(t)
    BY <1>3 DEF Iterate
  <2>2. t \in Task /\ phase = "drain"
    BY <1>3 DEF Tops, TypeOK, Iterate
  <2>3. CASE UNCHANGED <<orders, issued>> /\ phase' \in {"drain", "sent"}
    BY <2>2, <2>3 DEF ConstructionInv, OneConstruction, Ordered
  <2>4. ASSUME t.action = "BUILD", Construct(t)
        PROVE  ConstructionInv'
    <3>1. PICK s \in Available :
              issued' = [issued EXCEPT ![s] = @ \union {t.what}]
      BY <2>4 DEF Construct
    <3>2. /\ s \in Scv /\ issued \in [Scv -> SUBSET Order]
          /\ orders' = orders /\ phase' = "sent"
      BY <2>4 DEF Available, TypeOK, Construct
    <3>3. t.what # "REFINERY" => \A r \in Scv : t.what \notin orders[r]
      BY <2>4 DEF Construct, Duplicate
    <3>4. \A r \in Scv : issued[r] \cap UnitType = {}
      BY <2>2 DEF ConstructionInv
    <3>5. \A r \in Scv, y \in UnitType :
              y \in issued'[r] => r = s /\ y = t.what
      BY <3>1, <3>2, <3>4
    <3>6. OneConstruction'
      BY <3>2, <3>3, <3>5 DEF ConstructionInv, OneConstruction, Ordered
    <3>7. QED
      BY <3>2, <3>6 DEF ConstructionInv
  <2>5. CASE DoRepair(t)
    <3>1. t.target \in Target /\ t.target \notin UnitType
      BY <2>2, <2>5, ConstantsAssumption DEF ConstantsAssumption, DoRepair
    <3>2. /\ orders' = orders /\ phase' = "drain"
          /\ \A s \in Scv : issued'[s] \subseteq issued[s] \union {t.target}
      BY <2>2, <2>5 DEF DoRepair, Drop, TypeOK
    <3>3. \A s \in Scv : issued'[s] \cap UnitType \subseteq issued[s] \cap UnitType
      BY <3>1, <3>2
    <3>4. QED
      BY <2>2, <3>2, <3>3 DEF ConstructionInv, OneConstruction, Ordered
  <2>6. CASE PutBack \/ Drop(t) \/ Train(t) \/ DoTransfer(t)
    BY <2>2, <2>3, <2>6 DEF PutBack, Drop, Train, DoTransfer, TransferUnit
  <2>7. QED
    BY <2>1, <2>4, <2>5, <2>6 DEF DoCommand, DoBuild, DoTrain, DoUpgrade
<1>4. QED
  BY <1>1, <1>2, <1>3 DEF Next

\* No two SCVs are ever sent to construct the same type.
THEOREM Construction == Spec => []OneConstruction
<1>1. Init => ConstructionInv
  BY DEF Init, ConstructionInv, OneConstruction, Ordered, NoOrders
<1>2. TypeOK /\ ConstructionInv /\ [Next]_vars => ConstructionInv'
  <2>1. CASE UNCHANGED vars
    BY <2>1 DEF ConstructionInv, OneConstruction, Ordered, vars, gameVars, stepVars
  <2>2. QED
    BY <2>1, ConstructionStep
<1>3. ConstructionInv => OneConstruction
  BY DEF ConstructionInv
<1>4. QED
  BY <1>1, <1>2, <1>3, TypeCorrect, PTL DEF Spec

------------------------------------------------------------------------------
(* Owners and repair crews.  Both depend on no unit changing hands, which only *)
(* a TRANSFER task makes it do; no function of the program constructs one.   *)

NoTransfers == \A t \in Task : t.action # "TRANSFER"

\* Without TRANSFER tasks the loop leaves the lists of units alone.
LEMMA IterateNoTransfer ==
    ASSUME NoTransfers, TypeOK, Iterate
    PROVE  /\ UNCHANGED <<roster, born, dead, orders, nearest>>
           /\ phase = "drain" /\ phase' \in {"drain", "sent"}
<1>1. PICK t \in Tops(queue) :
          \/ DoCommand(t) \/ DoBuild(t) \/ DoTrain(t)
          \/ DoRepair(t) \/ DoUpgrade(t) \/ DoTransfer(t)
  BY DEF Iterate
<1>2. ~DoTransfer(t)
  BY DEF NoTransfers, DoTransfer, Tops, TypeOK
<1>3. QED
  BY <1>1, <1>2
     DEF Iterate, DoCommand, DoBuild, DoTrain, DoRepair, DoUpgrade, Construct,
         Train, Drop, PutBack, agentVars, gameVars, stepVars

\* Every step preserves the two parts of OneOwner and the lists within born.
LEMMA OwnerStep ==
    ASSUME NoTransfers, TypeOK, OneOwner, Next
    PROVE  OneOwner'
<1> USE DEF agentVars, gameVars, stepVars
<1>1. CASE \/ Observe
           \/ \E t \in Task \ DepotTask : AddTask(t)
           \/ \E y \in UnitType : LoseProduction(y)
           \/ StepBegin \/ StepEnd \/ Iterate
  <2>1. UNCHANGED <<roster, born, dead>>
    BY <1>1, IterateNoTransfer
       DEF Observe, AddTask, LoseProduction, StepBegin, StepEnd
  <2>2. QED
    BY <2>1 DEF OneOwner
<1>2. ASSUME NEW u \in Unit, UnitCreated(u)
      PROVE  OneOwner'
  <2>1. PICK a \in Owner : roster' = Give(roster, a, u)
    <3>1. "RESOURCE_AGENT" \in Owner
      BY DEF Owner, SourceAgent
    <3>2. CASE Entries(TypeOf[u]) = {}
      BY <1>2, <3>1, <3>2 DEF UnitCreated
    <3>3. ASSUME NEW i \in Oldest(Entries(TypeOf[u])),
                 roster' = Give(roster, ordered_units[i].source, u)
          PROVE  \E a \in Owner : roster' = Give(roster, a, u)
      <4>1. i \in 1..Len(ordered_units)
        BY LenProperties DEF Oldest, Entries, TypeOK
      <4>2. ordered_units[i] \in [source : Owner, utype : UnitType]
        BY <4>1, ElementOfSeq DEF TypeOK
      <4>3. QED
        BY <3>3, <4>2
    <3>4. QED
      BY <1>2, <3>2, <3>3 DEF UnitCreated
  <2>2. /\ u \notin born /\ born' = born \union {u} /\ dead' = dead
        /\ dead \subseteq born /\ roster \in [Owner -> SUBSET Unit]
    BY <1>2 DEF UnitCreated, TypeOK
  <2>3. \A b \in Owner : roster'[b] = IF b = a THEN roster[b] \union {u}
                                              ELSE roster[b]
    BY <2>1, <2>2 DEF Give
  <2>4. \A b \in Owner : u \notin roster[b]
    BY <2>2 DEF OneOwner
  <2>5. born' \ dead' = UNION {roster'[b] : b \in Owner}
    <3>1. born' \ dead' = (born \ dead) \union {u}
      BY <2>2
    <3>2. UNION {roster'[b] : b \in Owner}
              = (UNION {roster[b] : b \in Owner}) \union {u}
      <4>1. ASSUME NEW v
            PROVE  v \in UNION {roster'[b] : b \in Owner}
                       <=> v \in UNION {roster[b] : b \in Owner} \/ v = u
        <5>1. (\E b \in Owner : v \in roster'[b])
                  <=> (\E b \in Owner : v \in roster[b]) \/ v = u
          BY <2>1, <2>3
        <5>2. QED
          BY <5>1
      <4>2. QED
        BY <4>1
    <3>3. QED
      BY <3>1, <3>2 DEF OneOwner
  <2>6. \A v \in Unit, b, d \in Owner : v \in roster'[b] \cap roster'[d] => b = d
    <3>1. \A b \in Owner : u \in roster'[b] => b = a
      BY <2>3, <2>4
    <3>2. \A v \in Unit \ {u}, b \in Owner : v \in roster'[b] => v \in roster[b]
      BY <2>3
    <3>3. QED
      BY <3>1, <3>2 DEF OneOwner
  <2>7. QED
    BY <2>5, <2>6 DEF OneOwner
<1>3. ASSUME NEW u \in Unit, UnitDestroyed(u)
      PROVE  OneOwner'
  <2>1. /\ dead' = dead \union {u} /\ born' = born
        /\ roster' = [a \in Owner |-> roster[a] \ {u}]
    BY <1>3 DEF UnitDestroyed
  <2>2. QED
    BY <2>1 DEF OneOwner
<1>4. QED
  BY <1>1, <1>2, <1>3 DEF Next

\* A unit that is alive is in the list of exactly one agent.
THEOREM Ownership ==
    ASSUME NoTransfers
    PROVE  Spec => []OneOwner
<1>1. Init => OneOwner
  <2> SUFFICES ASSUME Init PROVE OneOwner
    OBVIOUS
  <2>1. "RESOURCE_AGENT" \in Owner
    BY DEF Owner, SourceAgent
  <2>2. QED
    BY <2>1 DEF Init, OneOwner
<1>2. TypeOK /\ OneOwner /\ [Next]_vars => OneOwner'
  <2>1. CASE UNCHANGED vars
    BY <2>1 DEF OneOwner, vars, agentVars, gameVars
  <2>2. QED
    BY <2>1, OwnerStep
<1>3. QED
  BY <1>1, <1>2, TypeCorrect, PTL DEF Spec

\* All the SCVs that one step sends to repair a unit are the same one, which
\* getSCV picked for that unit.
RepairInv ==
    /\ RepairCrew
    /\ phase = "events" => issued = NoOrders
    /\ phase = "drain" =>
        \A x \in Target :
            /\ Available # {} => nearest[x] \in Available
            /\ \A s \in Scv : x \in issued[s] => s = nearest[x]

\* Some task allows the crew S for target x.
Allowed(x, S) ==
    S # {} => \E t \in Task : /\ t.action = "REPAIR" /\ t.target = x
                             /\ Cardinality(S) <= t.count

Crew(x) == {s \in Scv : x \in Ordered(s)}

\* Crews are finite.
LEMMA CrewFinite == IsFiniteSet(Scv)
BY ConstantsAssumption, FS_Subset DEF ConstantsAssumption, Scv

\* A smaller crew is allowed where a larger one is.
LEMMA AllowedSubset ==
    ASSUME NEW x, NEW S \in SUBSET Scv, NEW R \in SUBSET S, Allowed(x, S)
    PROVE  Allowed(x, R)
<1>1. IsFiniteSet(S) /\ IsFiniteSet(R)
  BY CrewFinite, FS_Subset
<1>2. /\ Cardinality(R) <= Cardinality(S)
      /\ Cardinality(R) \in Nat /\ Cardinality(S) \in Nat
  BY <1>1, FS_Subset, FS_CardinalityType
<1>3. \A t \in Task : t.action = "REPAIR" => t.count \in Nat
  BY ConstantsAssumption DEF ConstantsAssumption
<1>4. QED
  BY <1>2, <1>3 DEF Allowed

\* RepairCrew in the terms used below.
LEMMA RepairCrewAllowed == RepairCrew <=> \A x \in Target : Allowed(x, Crew(x))
BY DEF RepairCrew, Allowed, Crew

\* A step that adds nobody to any crew preserves RepairCrew.
LEMMA CrewsShrink ==
    ASSUME RepairCrew, \A s \in Scv : (Ordered(s))' \subseteq Ordered(s) \union UnitType
    PROVE  RepairCrew'
<1>1. ASSUME NEW x \in Target
      PROVE  (Allowed(x, Crew(x)))'
  <2>1. x \notin UnitType
    BY ConstantsAssumption DEF ConstantsAssumption
  <2>2. Crew(x)' \subseteq Crew(x) /\ Crew(x) \subseteq Scv
    BY <2>1 DEF Crew
  <2>3. Allowed(x, Crew(x))
    BY RepairCrewAllowed
  <2>4. Allowed(x, Crew(x)')
    BY <2>2, <2>3, AllowedSubset
  <2>5. QED
    BY <2>4 DEF Allowed
<1>2. QED
  BY <1>1 DEF RepairCrew, Allowed, Crew

\* One more SCV makes a crew larger by at most one.
LEMMA OneMore ==
    ASSUME NEW S, NEW e, IsFiniteSet(S)
    PROVE  /\ Cardinality(S \union {e}) <= Cardinality(S) + 1
           /\ Cardinality(S \union {e}) \in Nat /\ Cardinality(S) \in Nat
<1>1. IsFiniteSet(S \union {e})
  BY FS_AddElement
<1>2. /\ Cardinality(S \union {e}) \in Nat /\ Cardinality(S) \in Nat
  BY <1>1, FS_CardinalityType
<1>3. Cardinality(S \union {e}) = IF e \in S THEN Cardinality(S)
                                            ELSE Cardinality(S) + 1
  BY FS_AddElement
<1>4. QED
  BY <1>2, <1>3

\* The step that sends one more SCV to a target.
LEMMA RepairIteration ==
    ASSUME NoTransfers, TypeOK, RepairInv, Iterate,
           NEW t \in Task, DoRepair(t)
    PROVE  RepairInv'
<1>1. /\ UNCHANGED <<roster, born, dead, orders, nearest>>
      /\ phase = "drain" /\ phase' = "drain"
  BY IterateNoTransfer
     DEF DoRepair, Drop, stepVars
<1>2. Available' = Available
  BY <1>1 DEF Available
<1> DEFINE x == t.target
           crew == {s \in Scv : x \in orders[s]}
<1>3. x \in Target /\ t.action = "REPAIR" /\ t.count \in Nat
  BY ConstantsAssumption DEF ConstantsAssumption, DoRepair
<1>4. CASE issued' = issued
  <2>1. \A s \in Scv : (Ordered(s))' \subseteq Ordered(s) \union UnitType
    BY <1>1, <1>4 DEF Ordered
  <2>2. RepairCrew'
    BY <2>1, CrewsShrink DEF RepairInv
  <2>3. QED
    BY <1>1, <1>2, <1>4, <2>2 DEF RepairInv
<1>5. CASE issued' # issued
  <2>1. /\ Cardinality(crew) < t.count /\ Available # {}
        /\ \E s \in NearestScv(x) : issued' = [issued EXCEPT ![s] = @ \union {x}]
    BY <1>5 DEF DoRepair, Drop, stepVars
  <2>2. nearest[x] \in Available
    BY <1>1, <1>3, <2>1 DEF RepairInv
  <2>3. /\ nearest[x] \in Scv
        /\ issued' = [issued EXCEPT ![nearest[x]] = @ \union {x}]
    BY <2>1, <2>2 DEF NearestScv, Available
  <2>4. \A s \in Scv : issued'[s] = IF s = nearest[x] THEN issued[s] \union {x}
                                                     ELSE issued[s]
    BY <2>3 DEF TypeOK
  <2>5. \A s \in Scv : x \in issued[s] => s = nearest[x]
    BY <1>1, <1>3 DEF RepairInv
  <2>6. ASSUME NEW z \in Target
        PROVE  Allowed(z, Crew(z)')
    <3>1. CASE z = x
      <4>1. Crew(z)' = crew \union {nearest[x]}
        BY <1>1, <2>3, <2>4, <2>5, <3>1 DEF Crew, Ordered
      <4>2. IsFiniteSet(crew)
        BY CrewFinite, FS_Subset
      <4>3. /\ Cardinality(Crew(z)') <= Cardinality(crew) + 1
            /\ Cardinality(Crew(z)') \in Nat /\ Cardinality(crew) \in Nat
        <5> HIDE DEF crew
        <5>1. QED
          BY <4>1, <4>2, OneMore
      <4>6. Cardinality(Crew(z)') <= t.count
        BY <1>3, <2>1, <4>3
      <4>7. QED
        BY <1>3, <3>1, <4>6 DEF Allowed
    <3>2. CASE z # x
      <4>1. Crew(z)' = Crew(z)
        BY <1>1, <2>4, <3>2 DEF Crew, Ordered
      <4>2. QED
        BY <4>1, RepairCrewAllowed DEF RepairInv
    <3>3. QED
      BY <3>1, <3>2
  <2>7. RepairCrew'
    BY <2>6 DEF RepairCrew, Allowed, Crew
  <2>8. \A z \in Target, s \in Scv : z \in issued'[s] => s = nearest[z]
    <3>1. ASSUME NEW z \in Target, NEW s \in Scv, z \in issued'[s]
          PROVE  s = nearest[z]
      <4>1. z \in issued[s] \/ (s = nearest[x] /\ z = x)
        BY <2>4, <3>1
      <4>2. QED
        BY <1>1, <4>1 DEF RepairInv
    <3>2. QED
      BY <3>1
  <2>9. QED
    BY <1>1, <1>2, <2>7, <2>8 DEF RepairInv
<1>6. QED
  BY <1>4, <1>5

\* Every step preserves the invariant.
LEMMA RepairStep ==
    ASSUME NoTransfers, TypeOK, RepairInv, Next
    PROVE  RepairInv'
<1> USE DEF agentVars, gameVars, stepVars
<1>1. CASE Observe
  <2>1. /\ \A s \in Scv : orders'[s] \subseteq Ordered(s)
        /\ phase' = "events" /\ issued' = NoOrders
    BY <1>1 DEF Observe
  <2>2. \A s \in Scv : (Ordered(s))' \subseteq Ordered(s) \union UnitType
    BY <2>1 DEF Ordered, NoOrders
  <2>3. QED
    BY <2>1, <2>2, CrewsShrink DEF RepairInv
<1>2. CASE \/ \E t \in Task \ DepotTask : AddTask(t)
           \/ \E y \in UnitType : LoseProduction(y)
           \/ \E u \in Unit : UnitCreated(u)
           \/ \E u \in Unit : UnitDestroyed(u)
           \/ StepEnd
  <2>1. /\ issued' = issued
        /\ \A s \in Scv : orders'[s] \subseteq orders[s]
        /\ \/ phase = "events" /\ phase' = "events"
           \/ phase' = "sent"
    BY <1>2 DEF AddTask, LoseProduction, UnitCreated, UnitDestroyed, StepEnd,
                TypeOK
  <2>2. \A s \in Scv : (Ordered(s))' \subseteq Ordered(s) \union UnitType
    BY <2>1 DEF Ordered
  <2>3. QED
    BY <2>1, <2>2, CrewsShrink DEF RepairInv
<1>3. CASE StepBegin
  <2>1. /\ issued = NoOrders /\ issued' = NoOrders /\ phase' = "drain"
        /\ UNCHANGED <<orders, roster, born, dead>>
        /\ nearest' \in [Target -> IF Available = {} THEN {NoScv} ELSE Available]
    BY <1>3 DEF StepBegin, RepairInv
  <2>2. Available' = Available
    BY <2>1 DEF Available
  <2>3. \A s \in Scv : (Ordered(s))' \subseteq Ordered(s) \union UnitType
    BY <2>1 DEF Ordered
  <2>4. QED
    BY <2>1, <2>2, <2>3, CrewsShrink DEF RepairInv, NoOrders
<1>4. CASE Iterate
  <2>1. PICK t \in Tops(queue) :
            \/ DoCommand(t) \/ DoBuild(t) \/ DoTrain(t)
            \/ DoRepair(t) \/ DoUpgrade(t) \/ DoTransfer(t)
    BY <1>4 DEF Iterate
  <2>2. t \in Task
    BY DEF Tops, TypeOK
  <2>3. /\ UNCHANGED <<roster, born, dead, orders, nearest>>
        /\ phase = "drain" /\ phase' \in {"drain", "sent"}
    BY <1>4, IterateNoTransfer
  <2>4. Available' = Available
    BY <2>3 DEF Available
  <2>5. CASE issued' = issued
    <3>1. \A s \in Scv : (Ordered(s))' \subseteq Ordered(s) \union UnitType
      BY <2>3, <2>5 DEF Ordered
    <3>2. QED
      BY <2>3, <2>4, <2>5, <3>1, CrewsShrink DEF RepairInv
  <2>6. ASSUME t.action = "BUILD", Construct(t)
        PROVE  RepairInv'
    <3>1. t.what \in UnitType
      BY <2>2, <2>6, TaskFacts
    <3>2. \A s \in Scv : issued'[s] \subseteq issued[s] \union {t.what}
      BY <2>6 DEF Construct, TypeOK
    <3>3. \A s \in Scv : (Ordered(s))' \subseteq Ordered(s) \union UnitType
      BY <2>3, <3>1, <3>2 DEF Ordered
    <3>4. phase' = "sent"
      BY <2>6 DEF Construct
    <3>5. QED
      BY <3>3, <3>4, CrewsShrink DEF RepairInv
  <2>7. CASE DoRepair(t)
    BY <1>4, <2>2, <2>7, RepairIteration
  <2>8. ~DoTransfer(t)
    BY <2>2 DEF NoTransfers, DoTransfer
  <2>9. QED
    BY <2>1, <2>5, <2>6, <2>7, <2>8
       DEF DoCommand, DoBuild, DoTrain, DoUpgrade, Drop, PutBack, Train
<1>5. QED
  BY <1>1, <1>2, <1>3, <1>4 DEF Next

\* No step sends more SCVs to repair a unit than some task for it allows.
THEOREM RepairCrews ==
    ASSUME NoTransfers
    PROVE  Spec => []RepairCrew
<1>1. Init => RepairInv
  <2> SUFFICES ASSUME Init PROVE RepairInv
    OBVIOUS
  <2>1. phase = "events" /\ issued = NoOrders /\ orders = NoOrders
    BY DEF Init
  <2>2. \A x \in Target : {s \in Scv : x \in Ordered(s)} = {}
    BY <2>1 DEF Ordered, NoOrders
  <2>3. QED
    BY <2>1, <2>2 DEF RepairInv, RepairCrew
<1>2. TypeOK /\ RepairInv /\ [Next]_vars => RepairInv'
  <2>1. CASE UNCHANGED vars
    BY <2>1 DEF RepairInv, RepairCrew, Available, Ordered, vars, agentVars,
                gameVars, stepVars
  <2>2. QED
    BY <2>1, RepairStep
<1>3. RepairInv => RepairCrew
  BY DEF RepairInv
<1>4. QED
  BY <1>1, <1>2, <1>3, TypeCorrect, PTL DEF Spec

------------------------------------------------------------------------------
(* Counting the entries of ordered_units                                     *)

Hits(s, P) == {i \in DOMAIN s : s[i] \in P}

\* The places of a list where it hits a set are finitely many.
LEMMA HitsFinite ==
    ASSUME NEW S, NEW s \in Seq(S), NEW P
    PROVE  IsFiniteSet(Hits(s, P)) /\ Cardinality(Hits(s, P)) \in Nat
<1>1. Len(s) \in Nat /\ DOMAIN s = 1..Len(s)
  BY LenProperties
<1>2. IsFiniteSet(1..Len(s))
  BY <1>1, FS_Interval
<1>3. Hits(s, P) \in SUBSET (1..Len(s))
  BY <1>1 DEF Hits
<1>4. IsFiniteSet(Hits(s, P))
  BY <1>2, <1>3, FS_Subset
<1>5. QED
  BY <1>4, FS_CardinalityType

\* Append adds one hit if the new entry is one.
LEMMA HitsAppend ==
    ASSUME NEW S, NEW s \in Seq(S), NEW e \in S, NEW P
    PROVE  Cardinality(Hits(Append(s, e), P))
               = IF e \in P THEN Cardinality(Hits(s, P)) + 1
                           ELSE Cardinality(Hits(s, P))
<1> DEFINE r == Append(s, e)
<1>1. /\ Len(s) \in Nat /\ DOMAIN s = 1..Len(s)
      /\ r \in Seq(S) /\ Len(r) = Len(s) + 1 /\ DOMAIN r = 1..Len(r)
      /\ \A i \in 1..Len(s) : r[i] = s[i]
      /\ r[Len(s) + 1] = e
  BY LenProperties, AppendProperties
<1> HIDE DEF r
<1>2. CASE e \in P
  <2>1. Hits(r, P) = Hits(s, P) \union {Len(s) + 1}
    BY <1>1, <1>2 DEF Hits
  <2>2. Len(s) + 1 \notin Hits(s, P)
    BY <1>1 DEF Hits
  <2>3. QED
    BY <1>2, <2>1, <2>2, HitsFinite, FS_AddElement DEF r
<1>3. CASE e \notin P
  <2>1. Hits(r, P) = Hits(s, P)
    BY <1>1, <1>3 DEF Hits
  <2>2. QED
    BY <1>3, <2>1 DEF r
<1>4. QED
  BY <1>2, <1>3

\* RemoveAt removes one hit if the entry it removes is one.
LEMMA HitsRemoveAt ==
    ASSUME NEW S, NEW s \in Seq(S), NEW k \in 1..Len(s), NEW P
    PROVE  Cardinality(Hits(RemoveAt(s, k), P))
               = IF s[k] \in P THEN Cardinality(Hits(s, P)) - 1
                              ELSE Cardinality(Hits(s, P))
<1> DEFINE r == RemoveAt(s, k)
           A == Hits(r, P)
           B == Hits(s, P) \ {k}
           f == [i \in A |-> IF i < k THEN i ELSE i + 1]
<1>1. /\ Len(s) \in Nat /\ DOMAIN s = 1..Len(s) /\ k \in 1..Len(s)
      /\ r \in Seq(S) /\ Len(r) = Len(s) - 1 /\ DOMAIN r = 1..Len(r)
      /\ \A i \in 1..Len(s) - 1 : r[i] = IF i < k THEN s[i] ELSE s[i + 1]
  BY LenProperties, RemoveAtProperties
<1>2. IsFiniteSet(A)
  BY <1>1, HitsFinite
<1> HIDE DEF r
<1>3. \A i \in A : i \in 1..Len(s) - 1 /\ f[i] \in B
  BY <1>1 DEF Hits
<1>4. \A i, j \in A : f[i] = f[j] => i = j
  BY <1>3
<1>5. \A j \in B : \E i \in A : f[i] = j
  <2> SUFFICES ASSUME NEW j \in B
               PROVE  \E i \in A : f[i] = j
    OBVIOUS
  <2>1. j \in 1..Len(s) /\ j # k /\ s[j] \in P
    BY <1>1 DEF Hits
  <2>2. CASE j < k
    <3>1. j \in A /\ f[j] = j
      BY <1>1, <2>1, <2>2 DEF Hits
    <3>2. QED
      BY <3>1
  <2>3. CASE ~(j < k)
    <3>1. j - 1 \in A /\ f[j - 1] = j
      BY <1>1, <2>1, <2>3 DEF Hits
    <3>2. QED
      BY <3>1
  <2>4. QED
    BY <2>2, <2>3
<1>6. ExistsBijection(A, B)
  <2>1. f \in [A -> B]
    BY <1>3
  <2>2. f \in Bijection(A, B)
    BY <1>4, <1>5, <2>1, Fun_IsBij
  <2>3. QED
    BY <2>2 DEF ExistsBijection
<1>7. Cardinality(A) = Cardinality(B)
  <2> HIDE DEF A, B
  <2>1. QED
    BY <1>2, <1>6, FS_Bijection
<1>8. Cardinality(B) = IF k \in Hits(s, P) THEN Cardinality(Hits(s, P)) - 1
                                          ELSE Cardinality(Hits(s, P))
  BY HitsFinite, FS_RemoveElement
<1>9. k \in Hits(s, P) <=> s[k] \in P
  BY <1>1 DEF Hits
<1>10. QED
  BY <1>7, <1>8, <1>9 DEF r

Entry == [source : Owner, utype : UnitType]
Kind(y) == {e \in Entry : e.utype = y}
Count(P) == Cardinality(Hits(ordered_units, P))

\* The entries of a type are the hits of its kind.
LEMMA KindHits ==
    ASSUME NEW s \in Seq(Entry), NEW y
    PROVE  {i \in DOMAIN s : s[i].utype = y} = Hits(s, Kind(y))
<1>1. \A i \in DOMAIN s : s[i] \in Entry
  BY LenProperties, ElementOfSeq
<1>2. QED
  BY <1>1 DEF Hits, Kind

\* Waiting and Owed count entries.
LEMMA CountsAreHits ==
    ASSUME TypeOK
    PROVE  /\ \A y : Waiting(y) = Count(Kind(y)) /\ Entries(y) = Hits(ordered_units, Kind(y))
           /\ \A a, y : Owed(a, y) = Count({[source |-> a, utype |-> y]})
<1>1. ordered_units \in Seq(Entry)
  BY DEF TypeOK, Entry
<1>2. \A y : Entries(y) = Hits(ordered_units, Kind(y))
  BY <1>1, KindHits DEF Entries
<1>3. \A a, y : {i \in DOMAIN ordered_units :
                    ordered_units[i] = [source |-> a, utype |-> y]}
                  = Hits(ordered_units, {[source |-> a, utype |-> y]})
  BY DEF Hits
<1>4. QED
  BY <1>2, <1>3 DEF Waiting, Owed, Count

\* A count is a natural number.
LEMMA CountType ==
    ASSUME TypeOK, NEW P
    PROVE  Count(P) \in Nat
BY HitsFinite DEF TypeOK, Count

\* A set of which nothing is counted has no entry.
LEMMA CountZero ==
    ASSUME TypeOK, NEW P
    PROVE  Count(P) = 0 <=> Hits(ordered_units, P) = {}
<1>1. IsFiniteSet(Hits(ordered_units, P))
  BY HitsFinite DEF TypeOK
<1>2. QED
  BY <1>1, FS_EmptySet DEF Count

\* The TRAIN command adds the entry of its task.
LEMMA TrainCount ==
    ASSUME TypeOK, NEW t \in Task, t.action = "TRAIN", Train(t), NEW P
    PROVE  Count(P)' = IF [source |-> t.source, utype |-> t.what] \in P
                       THEN Count(P) + 1 ELSE Count(P)
<1>1. [source |-> t.source, utype |-> t.what] \in Entry
  BY TaskFacts DEF Entry
<1>2. ordered_units \in Seq(Entry)
  BY DEF TypeOK, Entry
<1>3. ordered_units' = Append(ordered_units, [source |-> t.source, utype |-> t.what])
  BY DEF Train
<1>4. QED
  BY <1>1, <1>2, <1>3, HitsAppend DEF Count

\* A unit somebody ordered removes one entry of its type, that of its owner.
LEMMA CreatedCount ==
    ASSUME TypeOK, NEW u \in Unit, UnitCreated(u), Entries(TypeOf[u]) # {}
    PROVE  \E a \in Owner :
              /\ roster' = Give(roster, a, u)
              /\ [source |-> a, utype |-> TypeOf[u]] \in Entry
              /\ Count({[source |-> a, utype |-> TypeOf[u]]}) > 0
              /\ \A P : Count(P)' = IF [source |-> a, utype |-> TypeOf[u]] \in P
                                   THEN Count(P) - 1 ELSE Count(P)
<1> DEFINE y == TypeOf[u]
<1>1. PICK i \in Oldest(Entries(y)) :
          /\ roster' = Give(roster, ordered_units[i].source, u)
          /\ ordered_units' = RemoveAt(ordered_units, i)
  BY DEF UnitCreated
<1> DEFINE e == ordered_units[i]
<1>2. ordered_units \in Seq(Entry)
  BY DEF TypeOK, Entry
<1>3. i \in 1..Len(ordered_units) /\ i \in DOMAIN ordered_units /\ e.utype = y
  BY <1>2, LenProperties DEF Oldest, Entries
<1>4. e \in Entry
  BY <1>2, <1>3, ElementOfSeq
<1>5. e.source \in Owner /\ e = [source |-> e.source, utype |-> y]
  BY <1>3, <1>4 DEF Entry
<1>6. \A P : Count(P)' = IF e \in P THEN Count(P) - 1 ELSE Count(P)
  BY <1>1, <1>2, <1>3, HitsRemoveAt DEF Count
<1>7. Count({e}) > 0
  <2>1. i \in Hits(ordered_units, {e})
    BY <1>3 DEF Hits
  <2>2. Count({e}) # 0 /\ Count({e}) \in Nat
    BY <2>1, CountZero, CountType
  <2>3. QED
    BY <2>2
<1>8. QED
  BY <1>1, <1>4, <1>5, <1>6, <1>7

------------------------------------------------------------------------------
(* No unit in production is without an entry                                 *)

\* The types that create no unit are never in production.
OrphanInv ==
    /\ NoOrphan
    /\ \A y \in Addon : live[y] = 0

\* What UnitCreated does to the counts of a type: one unit fewer is in
\* production, and one entry fewer waits if there was any.
LEMMA CreatedCounts ==
    ASSUME TypeOK, NEW u \in Unit, UnitCreated(u), NEW y \in UnitType
    PROVE  /\ TypeOf[u] \in UnitType
           /\ TypeOf[u] \notin Addon => live[TypeOf[u]] > 0
           /\ live'[y] = IF y = TypeOf[u] /\ y \notin Addon THEN live[y] - 1 ELSE live[y]
           /\ Count(Kind(y))' = IF y = TypeOf[u] /\ Count(Kind(y)) > 0
                                THEN Count(Kind(y)) - 1 ELSE Count(Kind(y))
<1> DEFINE z == TypeOf[u]
<1>1. z \in UnitType
  BY ConstantsAssumption DEF ConstantsAssumption
<1>2. /\ z \notin Addon => live[z] > 0
      /\ live' = IF z \in Addon THEN live ELSE [live EXCEPT ![z] = @ - 1]
  BY DEF UnitCreated
<1>3. live'[y] = IF y = z /\ y \notin Addon THEN live[y] - 1 ELSE live[y]
  BY <1>1, <1>2 DEF TypeOK
<1>4. CASE Entries(z) = {}
  <2>1. ordered_units' = ordered_units
    BY <1>4 DEF UnitCreated
  <2>2. Count(Kind(y))' = Count(Kind(y))
    BY <2>1 DEF Count
  <2>3. Count(Kind(z)) = 0
    BY <1>4, CountsAreHits, CountZero
  <2>4. QED
    BY <1>1, <1>2, <1>3, <2>2, <2>3
<1>5. CASE Entries(z) # {}
  <2>1. PICK a \in Owner :
            /\ [source |-> a, utype |-> z] \in Entry
            /\ \A P : Count(P)' = IF [source |-> a, utype |-> z] \in P
                                 THEN Count(P) - 1 ELSE Count(P)
    BY <1>5, CreatedCount
  <2>2. [source |-> a, utype |-> z] \in Kind(y) <=> y = z
    BY <2>1 DEF Kind
  <2>3. Count(Kind(z)) # 0 /\ Count(Kind(z)) \in Nat
    BY <1>5, CountsAreHits, CountZero, CountType
  <2>4. Count(Kind(y))' = IF y = z THEN Count(Kind(y)) - 1 ELSE Count(Kind(y))
    BY <2>1, <2>2
  <2>5. QED
    BY <1>1, <1>2, <1>3, <2>3, <2>4
<1>6. QED
  BY <1>4, <1>5

\* What the TRAIN command does to the counts of a type.
LEMMA TrainCounts ==
    ASSUME TypeOK, NEW t \in Task, t.action = "TRAIN", Train(t), NEW y \in UnitType
    PROVE  /\ live'[y] = IF y = t.what /\ y \notin Addon THEN live[y] + 1 ELSE live[y]
           /\ Count(Kind(y))' = IF y = t.what THEN Count(Kind(y)) + 1 ELSE Count(Kind(y))
<1> DEFINE z == t.what
           e == [source |-> t.source, utype |-> z]
<1>1. z \in UnitType /\ e \in Entry
  BY TaskFacts DEF Entry
<1>2. live' = IF z \in Addon THEN live ELSE [live EXCEPT ![z] = @ + 1]
  BY DEF Train
<1>3. e \in Kind(y) <=> y = z
  BY <1>1 DEF Kind
<1>4. Count(Kind(y))' = IF y = z THEN Count(Kind(y)) + 1 ELSE Count(Kind(y))
  BY <1>3, TrainCount
<1>5. live'[y] = IF y = z /\ y \notin Addon THEN live[y] + 1 ELSE live[y]
  BY <1>1, <1>2 DEF TypeOK
<1>6. QED
  BY <1>4, <1>5

\* No step but the loss of a unit in production, the creation of a unit and the
\* TRAIN command changes the counts.
LEMMA CountsStep ==
    ASSUME TypeOK, Next
    PROVE  \/ UNCHANGED <<live, ordered_units>>
           \/ \E y \in UnitType : LoseProduction(y)
           \/ \E u \in Unit : UnitCreated(u)
           \/ born' = born /\ \E t \in Task : t.action = "TRAIN" /\ Train(t)
<1> USE DEF agentVars, gameVars, stepVars
<1>1. CASE Iterate
  <2>1. PICK t \in Tops(queue) :
            \/ DoCommand(t) \/ DoBuild(t) \/ DoTrain(t)
            \/ DoRepair(t) \/ DoUpgrade(t) \/ DoTransfer(t)
    BY <1>1 DEF Iterate
  <2>2. t \in Task
    BY DEF Tops, TypeOK
  <2>3. CASE DoTrain(t)
    BY <2>2, <2>3 DEF DoTrain, Drop, PutBack, Train
  <2>4. CASE ~DoTrain(t)
    BY <2>1, <2>4
       DEF DoCommand, DoBuild, DoRepair, DoUpgrade, DoTransfer, TransferUnit,
           Construct, Drop, PutBack
  <2>5. QED
    BY <2>3, <2>4
<1>2. QED
  BY <1>1 DEF Next, Observe, AddTask, UnitDestroyed, StepBegin, StepEnd

\* Every step preserves the invariant.
LEMMA OrphanStep ==
    ASSUME TypeOK, TypeOK', OrphanInv, Next
    PROVE  OrphanInv'
<1>1. /\ \A y \in UnitType : live[y] <= Count(Kind(y))
      /\ \A y \in UnitType : live[y] \in Nat /\ Count(Kind(y)) \in Nat
      /\ \A y \in UnitType : live'[y] \in Nat
      /\ \A y \in Addon : live[y] = 0
      /\ Addon \subseteq UnitType
  BY CountsAreHits, CountType, ConstantsAssumption
     DEF ConstantsAssumption, OrphanInv, NoOrphan, TypeOK
<1>2. SUFFICES ASSUME NEW y \in UnitType
               PROVE  live'[y] <= Count(Kind(y))' /\ (y \in Addon => live'[y] = 0)
  <2>1. \A y : Waiting(y)' = Count(Kind(y))'
    <3>1. ordered_units' \in Seq(Entry)
      BY DEF TypeOK, Entry
    <3>2. QED
      BY <3>1, KindHits DEF Waiting, Entries, Count
  <2>2. QED
    BY <1>1, <1>2, <2>1 DEF OrphanInv, NoOrphan
<1>3. CASE UNCHANGED <<live, ordered_units>>
  BY <1>1, <1>3 DEF Count
<1>4. ASSUME NEW z \in UnitType, LoseProduction(z)
      PROVE  live'[y] <= Count(Kind(y))' /\ (y \in Addon => live'[y] = 0)
  <2>1. /\ live[z] > 0 /\ live' = [live EXCEPT ![z] = @ - 1]
        /\ ordered_units' = ordered_units
    BY <1>4 DEF LoseProduction, agentVars
  <2>2. live'[y] <= live[y] /\ Count(Kind(y))' = Count(Kind(y))
    BY <1>1, <2>1 DEF TypeOK, Count
  <2>3. QED
    BY <1>1, <2>2
<1>5. ASSUME NEW u \in Unit, UnitCreated(u)
      PROVE  live'[y] <= Count(Kind(y))' /\ (y \in Addon => live'[y] = 0)
  BY <1>1, <1>5, CreatedCounts
<1>6. ASSUME NEW t \in Task, t.action = "TRAIN", Train(t)
      PROVE  live'[y] <= Count(Kind(y))' /\ (y \in Addon => live'[y] = 0)
  BY <1>1, <1>6, TrainCounts
<1>7. QED
  BY <1>3, <1>4, <1>5, <1>6, CountsStep

\* The invariant holds in every reachable state.
LEMMA OrphansInductive == Spec => []OrphanInv
<1>1. Init => OrphanInv
  <2> SUFFICES ASSUME Init PROVE OrphanInv
    OBVIOUS
  <2>1. TypeOK
    BY InitType
  <2>2. \A y \in UnitType : live[y] = 0
    BY DEF Init
  <2>3. \A y : Waiting(y) \in Nat
    BY <2>1, CountsAreHits, CountType
  <2>4. QED
    BY <2>2, <2>3, ConstantsAssumption DEF ConstantsAssumption, OrphanInv, NoOrphan
<1>2. TypeOK /\ TypeOK' /\ OrphanInv /\ [Next]_vars => OrphanInv'
  <2>1. CASE UNCHANGED vars
    BY <2>1 DEF OrphanInv, NoOrphan, Waiting, Entries, vars, agentVars, gameVars
  <2>2. QED
    BY <2>1, OrphanStep
<1>3. QED
  BY <1>1, <1>2, TypeCorrect, PTL DEF Spec

\* Every unit in production has an entry that names its owner.
THEOREM Orphans == Spec => []NoOrphan
<1>1. OrphanInv => NoOrphan
  BY DEF OrphanInv
<1>2. QED
  BY <1>1, OrphansInductive, PTL

\* The entries too many change only when a unit in production is lost, and then
\* there is one more of its type, which nothing takes back.
LEMMA SurplusStep ==
    ASSUME TypeOK, TypeOK', OrphanInv, Next, NEW y \in UnitType \ Addon
    PROVE  Surplus(y)' = IF live'[y] < live[y] /\ born' = born
                         THEN Surplus(y) + 1 ELSE Surplus(y)
<1>1. /\ live[y] \in Nat /\ live'[y] \in Nat /\ Count(Kind(y)) \in Nat
      /\ live[y] <= Count(Kind(y))
  BY CountsAreHits, CountType DEF OrphanInv, NoOrphan, TypeOK
<1>2. Surplus(y) = Count(Kind(y)) - live[y]
  BY CountsAreHits DEF Surplus
<1>3. Surplus(y)' = Count(Kind(y))' - live'[y]
  <2>1. ordered_units' \in Seq(Entry)
    BY DEF TypeOK, Entry
  <2>2. Waiting(y)' = Count(Kind(y))'
    BY <2>1, KindHits DEF Waiting, Entries, Count
  <2>3. QED
    BY <2>2 DEF Surplus
<1>4. CASE UNCHANGED <<live, ordered_units>>
  BY <1>1, <1>2, <1>3, <1>4 DEF Count
<1>5. ASSUME NEW z \in UnitType, LoseProduction(z)
      PROVE  Surplus(y)' = IF live'[y] < live[y] /\ born' = born
                           THEN Surplus(y) + 1 ELSE Surplus(y)
  <2>1. /\ live'[y] = IF y = z THEN live[y] - 1 ELSE live[y]
        /\ UNCHANGED <<born, ordered_units>>
    BY <1>5 DEF LoseProduction, TypeOK, agentVars
  <2>2. QED
    BY <1>1, <1>2, <1>3, <2>1 DEF Count
<1>6. ASSUME NEW u \in Unit, UnitCreated(u)
      PROVE  Surplus(y)' = IF live'[y] < live[y] /\ born' = born
                           THEN Surplus(y) + 1 ELSE Surplus(y)
  <2>1. born' # born
    BY <1>6 DEF UnitCreated
  <2>2. QED
    BY <1>1, <1>2, <1>3, <1>6, <2>1, CreatedCounts
<1>7. ASSUME NEW t \in Task, t.action = "TRAIN", Train(t)
      PROVE  Surplus(y)' = IF live'[y] < live[y] /\ born' = born
                           THEN Surplus(y) + 1 ELSE Surplus(y)
  BY <1>1, <1>2, <1>3, <1>7, TrainCounts
<1>8. QED
  BY <1>4, <1>5, <1>6, <1>7, CountsStep

\* Each unit lost in production leaves one entry too many, for ever.
THEOREM StaleEntry == Spec => StaleEntries
<1> DEFINE Step == \A y \in UnitType \ Addon :
                      Surplus(y)' = IF live'[y] < live[y] /\ born' = born
                                    THEN Surplus(y) + 1 ELSE Surplus(y)
<1>1. TypeOK /\ TypeOK' /\ OrphanInv /\ [Next]_vars => [Step]_vars
  BY SurplusStep
<1>2. QED
  BY <1>1, OrphansInductive, TypeCorrect, PTL DEF Spec, StaleEntries

------------------------------------------------------------------------------
(* Transferred units                                                         *)

\* Nobody who is alive is forgotten.
NobodyLost == born \ dead \subseteq UNION {roster[a] : a \in Owner}

\* A unit that is alive is in some agent's list, even if units are transferred:
\* TRANSFER may leave a unit in the list it came from, but takes none from its
\* list without putting it into another.
THEOREM NobodyIsLost == Spec => []NobodyLost
<1>1. Init => NobodyLost
  <2>1. "RESOURCE_AGENT" \in Owner
    BY DEF Owner, SourceAgent
  <2>2. QED
    BY <2>1 DEF Init, NobodyLost
<1>2. TypeOK /\ NobodyLost /\ [Next]_vars => NobodyLost'
  <2> SUFFICES ASSUME TypeOK, NobodyLost, [Next]_vars,
                      NEW v \in born' \ dead'
               PROVE  \E a \in Owner : v \in roster'[a]
    BY DEF NobodyLost
  <2> USE DEF agentVars, gameVars, stepVars
  <2>1. CASE UNCHANGED <<roster, born, dead>>
    BY <2>1 DEF NobodyLost
  <2>2. ASSUME NEW u \in Unit, UnitCreated(u)
        PROVE  \E a \in Owner : v \in roster'[a]
    <3>1. PICK a \in Owner : roster' = Give(roster, a, u)
      <4>1. CASE Entries(TypeOf[u]) = {}
        BY <2>2, <4>1 DEF UnitCreated, Owner, SourceAgent
      <4>2. CASE Entries(TypeOf[u]) # {}
        BY <2>2, <4>2, CreatedCount
      <4>3. QED
        BY <4>1, <4>2
    <3>2. v \in born \ dead \/ v = u
      BY <2>2 DEF UnitCreated
    <3>3. \A b \in Owner : roster[b] \subseteq roster'[b]
      BY <3>1 DEF Give, TypeOK
    <3>4. u \in roster'[a]
      BY <3>1 DEF Give, TypeOK
    <3>5. QED
      BY <3>2, <3>3, <3>4 DEF NobodyLost
  <2>3. ASSUME NEW u \in Unit, UnitDestroyed(u)
        PROVE  \E a \in Owner : v \in roster'[a]
    BY <2>3 DEF UnitDestroyed, NobodyLost
  <2>4. ASSUME NEW t \in Task, DoTransfer(t)
        PROVE  \E a \in Owner : v \in roster'[a]
    <3>1. /\ t.source \in Owner /\ AnyScv \notin Unit
          /\ t.self \in Unit \union {AnyScv}
      BY <2>4, TaskFacts, ConstantsAssumption DEF ConstantsAssumption, DoTransfer
    <3>2. /\ UNCHANGED <<born, dead>>
          /\ \/ roster' = roster
             \/ \E u \in Unit :
                  /\ t.self # AnyScv => u = t.self
                  /\ roster' = [Give(roster, t.source, u) EXCEPT
                                   !["RESOURCE_AGENT"] = @ \ {t.self}]
                  /\ t.source # "RESOURCE_AGENT"
      BY <2>4 DEF DoTransfer, TransferUnit, Drop, Available, Scv, TypeOK
    <3>3. PICK b \in Owner : v \in roster[b]
      BY <3>2 DEF NobodyLost
    <3>4. CASE roster' = roster
      BY <3>3, <3>4
    <3>5. ASSUME NEW u \in Unit,
                 t.self # AnyScv => u = t.self,
                 roster' = [Give(roster, t.source, u) EXCEPT
                               !["RESOURCE_AGENT"] = @ \ {t.self}],
                 t.source # "RESOURCE_AGENT"
          PROVE  \E a \in Owner : v \in roster'[a]
      <4>1. \A a \in Owner : roster'[a] =
                (IF a = t.source THEN roster[a] \union {u} ELSE roster[a])
                    \ (IF a = "RESOURCE_AGENT" THEN {t.self} ELSE {})
        BY <3>1, <3>5 DEF Give, TypeOK
      <4>2. v \in Unit
        BY <3>3 DEF TypeOK
      <4>3. CASE v = t.self
        BY <3>1, <3>5, <4>1, <4>2, <4>3
      <4>4. CASE v # t.self
        BY <3>3, <4>1, <4>4
      <4>5. QED
        BY <4>3, <4>4
    <3>6. QED
      BY <3>2, <3>4, <3>5
  <2>5. CASE Iterate
    <3>1. PICK t \in Tops(queue) :
              \/ DoCommand(t) \/ DoBuild(t) \/ DoTrain(t)
              \/ DoRepair(t) \/ DoUpgrade(t) \/ DoTransfer(t)
      BY <2>5 DEF Iterate
    <3>2. t \in Task
      BY <3>1 DEF Tops, TypeOK
    <3>3. CASE DoTransfer(t)
      BY <2>4, <3>2, <3>3
    <3>4. CASE ~DoTransfer(t)
      BY <2>1, <3>1, <3>4
         DEF DoCommand, DoBuild, DoTrain, DoRepair, DoUpgrade, Construct, Train,
             Drop, PutBack
    <3>5. QED
      BY <3>3, <3>4
  <2>6. CASE UNCHANGED vars
    BY <2>1, <2>6 DEF vars
  <2>7. QED
    BY <2>1, <2>2, <2>3, <2>5, <2>6
       DEF Next, Observe, AddTask, LoseProduction, StepBegin, StepEnd
<1>3. QED
  BY <1>1, <1>2, TypeCorrect, PTL DEF Spec

------------------------------------------------------------------------------
(* The agent implements OrderBook                                            *)

\* The debts of OrderBook, as ordered_units records them.
debts == [d \in Owner \X UnitType |-> Owed(d[1], d[2])]

Claim(a, y) == [source |-> a, utype |-> y]

\* A debt counts the entries that are its claim.
LEMMA DebtsAreCounts ==
    ASSUME TypeOK
    PROVE  \A a \in Owner, y \in UnitType :
              debts[<<a, y>>] = Count({Claim(a, y)}) /\ debts[<<a, y>>] \in Nat
BY CountsAreHits, CountType DEF debts, Claim

\* So does Owed.
LEMMA OwedCounts == \A a, y : Owed(a, y) = Count({Claim(a, y)})
BY DEF Owed, Count, Hits, Claim

\* The initial state owes nothing, and OrderBook starts there.
LEMMA BookInit == Init => Book!Init
<1> SUFFICES ASSUME Init PROVE Book!Init
  OBVIOUS
<1>1. ordered_units = <<>>
  BY DEF Init
<1>2. \A a, y : {i \in DOMAIN ordered_units :
                   ordered_units[i] = [source |-> a, utype |-> y]} = {}
  BY <1>1
<1>3. \A a, y : Owed(a, y) = 0
  BY <1>2, FS_EmptySet DEF Owed
<1>4. QED
  BY <1>3 DEF Init, Book!Init

\* A step that leaves both lists alone is a stutter of OrderBook.
LEMMA BookStutter ==
    ASSUME UNCHANGED <<ordered_units, roster>>
    PROVE  UNCHANGED <<debts, roster>>
BY DEF debts, Owed

\* A TRAIN command places an order.
LEMMA BookTrain ==
    ASSUME TypeOK, NEW t \in Task, t.action = "TRAIN", Train(t)
    PROVE  Book!Place(t.source, t.what)
<1>1. t.source \in Owner /\ t.what \in UnitType
  BY TaskFacts
<1>2. \A a \in Owner, y \in UnitType :
          Owed(a, y)' = IF a = t.source /\ y = t.what THEN Owed(a, y) + 1
                                                     ELSE Owed(a, y)
  <2> TAKE a \in Owner, y \in UnitType
  <2>1. Owed(a, y)' = Count({Claim(a, y)})' /\ Owed(a, y) = Count({Claim(a, y)})
    BY OwedCounts DEF Owed, Count, Hits, Claim
  <2>2. Claim(t.source, t.what) \in {Claim(a, y)} <=> a = t.source /\ y = t.what
    BY DEF Claim
  <2>3. QED
    BY <2>1, <2>2, TrainCount DEF Claim
<1>3. roster' = roster
  BY DEF Train
<1>4. debts' = [debts EXCEPT ![<<t.source, t.what>>] = @ + 1]
  <2>1. debts' = [d \in Owner \X UnitType |-> Owed(d[1], d[2])']
    BY DEF debts
  <2>2. \A d \in Owner \X UnitType :
            Owed(d[1], d[2])' = IF d = <<t.source, t.what>>
                                THEN Owed(d[1], d[2]) + 1 ELSE Owed(d[1], d[2])
    BY <1>1, <1>2
  <2>3. QED
    BY <1>1, <2>1, <2>2 DEF debts
<1>5. QED
  BY <1>3, <1>4 DEF Book!Place, debts

\* A unit created pays the oldest order of its type, or is kept.
LEMMA BookCreated ==
    ASSUME TypeOK, NEW u \in Unit, UnitCreated(u)
    PROVE  Book!Keep(u) \/ \E a \in Owner : Book!Pay(u, a)
<1> DEFINE z == TypeOf[u]
<1>1. z \in UnitType
  BY ConstantsAssumption DEF ConstantsAssumption
<1>2. CASE Entries(z) = {}
  <2>1. /\ roster' = Give(roster, "RESOURCE_AGENT", u)
        /\ ordered_units' = ordered_units
    BY <1>2 DEF UnitCreated
  <2>2. \A a \in Owner : Owed(a, z) = 0
    <3> TAKE a \in Owner
    <3>1. {i \in DOMAIN ordered_units :
              ordered_units[i] = [source |-> a, utype |-> z]} = {}
      BY <1>2 DEF Entries
    <3>2. QED
      BY <3>1, FS_EmptySet DEF Owed
  <2>3. \A a \in Owner : debts[<<a, z>>] = 0
    BY <1>1, <2>2 DEF debts
  <2>4. debts' = debts
    BY <2>1 DEF debts, Owed
  <2>5. Book!Keep(u)
    BY <2>1, <2>3, <2>4 DEF Book!Keep, Book!Give, Give, debts
  <2>6. QED
    BY <2>5
<1>3. CASE Entries(z) # {}
  <2>1. PICK a \in Owner :
            /\ roster' = Give(roster, a, u)
            /\ Count({Claim(a, z)}) > 0
            /\ \A P : Count(P)' = IF Claim(a, z) \in P THEN Count(P) - 1
                                                       ELSE Count(P)
    BY <1>3, CreatedCount DEF Claim
  <2>2. \A b \in Owner, y \in UnitType :
            Owed(b, y)' = IF b = a /\ y = z THEN Owed(b, y) - 1 ELSE Owed(b, y)
    <3> TAKE b \in Owner, y \in UnitType
    <3>1. Owed(b, y)' = Count({Claim(b, y)})' /\ Owed(b, y) = Count({Claim(b, y)})
      BY OwedCounts DEF Owed, Count, Hits, Claim
    <3>2. Claim(a, z) \in {Claim(b, y)} <=> b = a /\ y = z
      BY DEF Claim
    <3>3. QED
      BY <2>1, <3>1, <3>2
  <2>3. debts' = [debts EXCEPT ![<<a, z>>] = @ - 1]
    <3>1. debts' = [d \in Owner \X UnitType |-> Owed(d[1], d[2])']
      BY DEF debts
    <3>2. \A d \in Owner \X UnitType :
              Owed(d[1], d[2])' = IF d = <<a, z>>
                                  THEN Owed(d[1], d[2]) - 1 ELSE Owed(d[1], d[2])
      BY <1>1, <2>2
    <3>3. QED
      BY <1>1, <3>1, <3>2 DEF debts
  <2>4. debts[<<a, z>>] > 0
    BY <1>1, <2>1, DebtsAreCounts
  <2>5. Book!Pay(u, a)
    BY <2>1, <2>3, <2>4 DEF Book!Pay, Book!Give, Give, debts
  <2>6. QED
    BY <2>5
<1>4. QED
  BY <1>2, <1>3

\* Every step is a step of OrderBook or leaves it unchanged.
LEMMA BookStep ==
    ASSUME NoTransfers, TypeOK, Next
    PROVE  Book!Next \/ UNCHANGED <<debts, roster>>
<1> USE DEF agentVars, gameVars, stepVars
<1>1. ASSUME NEW u \in Unit, UnitCreated(u)
      PROVE  Book!Next
  BY <1>1, BookCreated DEF Book!Next
<1>2. ASSUME NEW u \in Unit, UnitDestroyed(u)
      PROVE  Book!Next
  <2>1. /\ ordered_units' = ordered_units
        /\ roster' = [a \in Owner |-> roster[a] \ {u}]
    BY <1>2 DEF UnitDestroyed
  <2>2. Book!Forget(u)
    BY <2>1, BookStutter DEF Book!Forget, debts, Owed
  <2>3. QED
    BY <2>2 DEF Book!Next
<1>3. CASE Iterate
  <2>1. PICK t \in Tops(queue) :
            \/ DoCommand(t) \/ DoBuild(t) \/ DoTrain(t)
            \/ DoRepair(t) \/ DoUpgrade(t) \/ DoTransfer(t)
    BY <1>3 DEF Iterate
  <2>2. t \in Task
    BY DEF Tops, TypeOK
  <2>3. roster' = roster
    BY <1>3, IterateNoTransfer
  <2>4. ASSUME t.action = "TRAIN", Train(t)
        PROVE  Book!Next
    <3>1. Book!Place(t.source, t.what) /\ t.source \in Owner /\ t.what \in UnitType
      BY <2>2, <2>4, BookTrain, TaskFacts
    <3>2. QED
      BY <3>1 DEF Book!Next
  <2>5. CASE ordered_units' = ordered_units
    BY <2>3, <2>5, BookStutter
  <2>6. QED
    BY <2>1, <2>2, <2>4, <2>5
       DEF NoTransfers, DoCommand, DoBuild, DoTrain, DoRepair, DoUpgrade,
           DoTransfer, Construct, Drop, PutBack
<1>4. CASE UNCHANGED <<ordered_units, roster>>
  BY <1>4, BookStutter
<1>5. QED
  BY <1>1, <1>2, <1>3, <1>4
     DEF Next, Observe, AddTask, LoseProduction, StepBegin, StepEnd

\* Whoever orders a unit is paid: every step of the agent is a step of
\* OrderBook or leaves it unchanged.
THEOREM Refinement ==
    ASSUME NoTransfers
    PROVE  Spec => KeepsBook
<1>1. TypeOK /\ [Next]_vars => [Book!Next]_<<debts, roster>>
  <2>1. CASE UNCHANGED vars
    BY <2>1, BookStutter DEF vars, agentVars
  <2>2. QED
    BY <2>1, BookStep
<1>2. QED
  BY BookInit, <1>1, TypeCorrect, PTL DEF Spec, KeepsBook, Book!Spec, debts

------------------------------------------------------------------------------
(* Depots are served                                                         *)

\* What has to hold again and again when step() is called: every cost can be
\* paid, and nothing that costs minerals or ends the step comes before the
\* depots.  The tasks the agents push are like this but for one: the request
\* for a command center when none is left has priority 20, above 10.
DepotsNext ==
    /\ Rich
    /\ \A t \in queue \ DepotTask :
        /\ t.action \in {"BUILD", "TRAIN"} => \A d \in DepotTask : Less(t, d)
        /\ t.action # "TRANSFER"

\* The loop has not spent anything yet, and a depot is in the queue.
DepotAhead ==
    /\ phase = "drain"
    /\ avail.minerals = obs.minerals /\ avail.vespene = obs.vespene
    /\ DepotsNext
    /\ DepotTask \cap queue # {}

\* Nothing that is served before the depot spends or ends the step.
LEMMA DepotStaysAhead ==
    ASSUME TypeOK, DepotAhead, [Next]_vars
    PROVE  DepotAhead' \/ \E d \in DepotTask \cap queue : d \notin queue'
<1> USE DEF agentVars, gameVars, stepVars
<1>1. CASE UNCHANGED vars
  BY <1>1 DEF vars, DepotAhead, DepotsNext, Rich
<1>2. CASE Iterate
  <2>1. PICK t \in Tops(queue) :
            \/ DoCommand(t) \/ DoBuild(t) \/ DoTrain(t)
            \/ DoRepair(t) \/ DoUpgrade(t) \/ DoTransfer(t)
    BY <1>2 DEF Iterate
  <2>2. PICK d \in DepotTask : d \in queue
    BY DEF DepotAhead
  <2>3. /\ t \in queue /\ t \in Task /\ ~Less(t, d)
        /\ t \in DepotTask => t.action = "BUILD"
    BY <2>1, <2>2, ConstantsAssumption DEF ConstantsAssumption, Tops, TypeOK
  <2>4. t.action \in {"BUILD", "TRAIN", "UPGRADE"} => ~Short(Cost[t.what])
    <3>1. /\ obs \in Observation /\ avail \in Price
          /\ obs.minerals \in Nat /\ obs.vespene \in Nat
      BY ConstantsAssumption DEF ConstantsAssumption, TypeOK
    <3>2. t.action \in {"BUILD", "TRAIN", "UPGRADE"} => Cost[t.what] \in Price
      BY <2>3, TaskFacts
    <3>3. UIntMod \in Nat
      BY ConstantsAssumption DEF ConstantsAssumption
    <3>4. QED
      BY <2>3, <3>1, <3>2, <3>3 DEF DepotAhead, DepotsNext, Rich, Short, Price
  <2>5. CASE t \in DepotTask
    <3>1. Construct(t) \/ Drop(t)
      BY <2>1, <2>3, <2>4, <2>5
         DEF DoCommand, DoBuild, DoTrain, DoRepair, DoUpgrade, DoTransfer, Waits
    <3>2. t \notin queue'
      BY <3>1 DEF Construct, Drop
    <3>3. QED
      BY <2>3, <2>5, <3>2
  <2>6. CASE t \notin DepotTask
    <3>1. t.action \notin {"BUILD", "TRAIN", "TRANSFER"}
      BY <2>2, <2>3, <2>6 DEF DepotAhead, DepotsNext
    <3>2. /\ UNCHANGED <<phase, avail, obs>> /\ queue' \subseteq queue
          /\ d \in queue'
      BY <2>1, <2>2, <2>3, <2>4, <2>6, <3>1
         DEF DoCommand, DoBuild, DoTrain, DoRepair, DoUpgrade, DoTransfer, Drop
    <3>3. QED
      BY <2>2, <3>2 DEF DepotAhead, DepotsNext, Rich
  <2>7. QED
    BY <2>5, <2>6
<1>3. CASE Next /\ ~Iterate
  BY <1>3 DEF DepotAhead, Next, Observe, AddTask, LoseProduction, UnitCreated,
              UnitDestroyed, StepBegin, StepEnd
<1>4. QED
  BY <1>1, <1>2, <1>3

\* Depots are not starved if step() is called again and again when they come
\* next and can be paid.
THEOREM DepotServedWhenNext ==
    Spec /\ []<><<StepBegin /\ DepotsNext>>_vars => DepotServed
<1>1. TypeOK /\ <<StepBegin /\ DepotsNext>>_vars
          => DepotAhead' \/ DepotTask \cap queue = {}
  <2> SUFFICES ASSUME StepBegin, DepotsNext, DepotTask \cap queue # {}
               PROVE  DepotAhead'
    OBVIOUS
  <2>1. /\ phase' = "drain" /\ obs' = obs
        /\ avail'.minerals = obs.minerals /\ avail'.vespene = obs.vespene
    BY DEF StepBegin, gameVars
  <2>2. queue \subseteq queue' /\ queue' \ DepotTask = queue \ DepotTask
    BY DEF StepBegin, PushDepot, PushOneOf
  <2>3. DepotsNext'
    BY <2>1, <2>2 DEF DepotsNext, Rich
  <2>4. QED
    BY <2>1, <2>2, <2>3 DEF DepotAhead
<1>2. TypeOK /\ DepotAhead /\ [Next]_vars
          => DepotAhead' \/ <<\E d \in DepotTask \cap queue : d \notin queue'>>_vars
  <2>1. ASSUME NEW d \in DepotTask \cap queue, d \notin queue'
        PROVE  vars' # vars
    BY <2>1 DEF vars, agentVars
  <2>2. QED
    BY <2>1, DepotStaysAhead
<1>3. DepotAhead => ~(StepBegin /\ DepotsNext)
  BY DEF DepotAhead, StepBegin
<1>4. QED
  BY <1>1, <1>2, <1>3, TypeCorrect, PTL DEF Spec, DepotServed

==============================================================================
