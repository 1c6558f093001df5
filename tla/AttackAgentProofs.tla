-------------------------- MODULE AttackAgentProofs --------------------------
(***************************************************************************)
(* Theorems about AttackAgent, for any number of units, start locations    *)
(* and minutes.                                                            *)
(***************************************************************************)
EXTENDS AttackAgent, TLAPS

------------------------------------------------------------------------------
(* The queue                                                                 *)

\* Attack makes a task, and one for each unit and ability.
LEMMA AttackTasks ==
    /\ \A u \in Unit, a \in {"ATTACK_ATTACK", "MOVE_MOVE"} :
          Attack(u, a) \in AttackTask /\ Attack(u, a) \in Task
    /\ \A u, v : \A a, b : Attack(u, a) = Attack(v, b) => u = v /\ a = b
<1>1. ASSUME NEW u \in Unit, NEW a \in {"ATTACK_ATTACK", "MOVE_MOVE"}
      PROVE  Attack(u, a) \in AttackTask /\ Attack(u, a) \in Task
  BY DEF Attack, AttackTask, Task
<1>2. ASSUME NEW u, NEW v, NEW a, NEW b, Attack(u, a) = Attack(v, b)
      PROVE  u = v /\ a = b
  <2>1. Attack(u, a).unit = u /\ Attack(v, b).unit = v
    BY DEF Attack
  <2>2. Attack(u, a).ability = a /\ Attack(v, b).ability = b
    BY DEF Attack
  <2>3. QED
    BY <1>2, <2>1, <2>2
<1>3. QED
  BY <1>1, <1>2

\* So does Train.
LEMMA TrainTasks ==
    \A w \in {"addon", "troop"}, p \in 5..8 : Train(w, p) \in TrainTask
BY DEF Train, TrainTask

\* pop() takes one task out that was there, and changes no other count.
LEMMA PopEffect ==
    ASSUME queue \in [Task -> Nat], NEW t \in Task, Pop(t)
    PROVE  /\ queue' \in [Task -> Nat]
           /\ queue[t] > 0
           /\ \A w \in Task : w # t => queue'[w] = queue[w]
           /\ \A w \in Task : queue'[w] <= queue[w]
           /\ \A w \in Task : queue[w] > 0 => ~Less(t, w)
<1>1. queue[t] > 0 /\ \A w \in Task : queue[w] > 0 => ~Less(t, w)
  BY DEF Pop, Tops
<1>2. queue' = [queue EXCEPT ![t] = @ - 1]
  BY DEF Pop
<1>3. QED
  BY <1>1, <1>2

\* unitIdle puts tasks in and takes none out.
LEMMA PushEffect ==
    ASSUME queue \in [Task -> Nat],
           \/ \E u \in Army : ArmyIdle(u)
           \/ \E u \in Support : SupportIdle(u)
           \/ ProducerIdle
    PROVE  /\ queue' \in [Task -> Nat]
           /\ \A w \in Task : queue'[w] >= queue[w]
<1>1. CASE \E u \in Army : ArmyIdle(u)
  <2>1. PICK u \in Army : ArmyIdle(u)
    BY <1>1
  <2> DEFINE s == Attack(u, "ATTACK_ATTACK")
             t == Attack(u, "MOVE_MOVE")
  <2>2. s \in Task /\ t \in Task /\ s # t
    BY <2>1, AttackTasks DEF Unit
  <2>3. queue' = [queue EXCEPT ![s] = @ + 1, ![t] = @ + 1]
    BY <2>1 DEF ArmyIdle
  <2> HIDE DEF s, t
  <2>4. QED
    BY <2>2, <2>3
<1>2. CASE \E u \in Support : SupportIdle(u)
  <2>1. PICK u \in Support : SupportIdle(u)
    BY <1>2
  <2> DEFINE t == Attack(u, "MOVE_MOVE")
  <2>2. t \in Task
    BY <2>1, AttackTasks DEF Unit
  <2>3. queue' = [queue EXCEPT ![t] = @ + 1]
    BY <2>1 DEF SupportIdle
  <2> HIDE DEF t
  <2>4. QED
    BY <2>2, <2>3
<1>3. CASE ProducerIdle
  <2>1. PICK pushed : queue' = [t \in Task |-> IF t \in pushed THEN queue[t] + 1
                                                              ELSE queue[t]]
    BY <1>3 DEF ProducerIdle
  <2>2. QED
    BY <2>1
<1>4. QED
  BY <1>1, <1>2, <1>3

------------------------------------------------------------------------------
(* Types, and a place to attack                                              *)

\* Whatever the lists are, after updateEnemyLocations there is a place to attack.
LEMMA UpdateGivesPlace ==
    ASSUME NEW p \in Nat, NEW k \in Nat,
           NEW s \in Update([possible |-> p, known |-> k])
    PROVE  s.possible \in Nat /\ s.known \in Nat \ {0}
<1> DEFINE refilled == IF p = 0 THEN {Starts} \union 1..MaxPlaces ELSE {p}
<1>1. \A q \in refilled : q \in Nat /\ q - 1 \in Nat
  BY AttackAssumption
<1>2. CASE k = 0
  <2>1. s \in [possible : {q - 1 : q \in refilled}, known : 1..MaxPlaces]
    BY <1>2 DEF Update
  <2>2. s.possible \in {q - 1 : q \in refilled} /\ s.known \in 1..MaxPlaces
    BY <2>1
  <2>3. QED
    BY <1>1, <2>2, AttackAssumption
<1>3. CASE k # 0
  <2>1. s \in [possible : refilled, known : {k}]
    BY <1>3 DEF Update
  <2>2. s.possible \in refilled /\ s.known = k
    BY <2>1
  <2>3. QED
    BY <1>1, <1>3, <2>2
<1>4. QED
  BY <1>2, <1>3

PlaceInv == TypeOK /\ PlaceToAttack

\* unitIdle for the army: the second update repairs what mark_location_visited
\* may have emptied.
LEMMA ArmyPlaces ==
    ASSUME PlaceInv, NEW u \in Army, ArmyIdle(u)
    PROVE  possible' \in Nat /\ known' \in Nat /\ ~fault'
<1>1. PICK s1 \in Update(Lists) : \E s2 \in Visited(s1) : \E s3 \in ForSupport(s2) :
          /\ Keep(s3)
          /\ fault' = (fault \/ s1.known = 0 \/ s3.known = 0)
  BY DEF ArmyIdle
<1>2. s1.possible \in Nat /\ s1.known \in Nat \ {0}
  BY UpdateGivesPlace DEF Lists, PlaceInv, TypeOK
<1>3. PICK s2 \in Visited(s1) : \E s3 \in ForSupport(s2) :
          /\ Keep(s3)
          /\ fault' = (fault \/ s1.known = 0 \/ s3.known = 0)
  BY <1>1
<1>4. s1 = [possible |-> s1.possible, known |-> s1.known]
  <2>1. \E A, B : s1 \in [possible : A, known : B]
    BY DEF Update
  <2>2. QED
    BY <2>1
<1>5. \E k \in Nat : s2 = [possible |-> s1.possible, known |-> k]
  <2>1. CASE s2 = s1
    BY <1>2, <1>4, <2>1
  <2>2. CASE s2 = [s1 EXCEPT !.known = IF @ = 0 THEN 0 ELSE @ - 1]
    <3>1. s2 = [possible |-> s1.possible, known |-> s1.known - 1]
      BY <1>2, <1>4, <2>2
    <3>2. QED
      BY <1>2, <3>1
  <2>3. QED
    BY <1>3, <2>1, <2>2 DEF Visited
<1>6. PICK s3 \in ForSupport(s2) :
          /\ Keep(s3)
          /\ fault' = (fault \/ s1.known = 0 \/ s3.known = 0)
  BY <1>3
<1>7. s3.possible \in Nat /\ s3.known \in Nat \ {0}
  BY <1>2, <1>5, <1>6, UpdateGivesPlace DEF ForSupport
<1>8. QED
  BY <1>2, <1>6, <1>7 DEF Keep, PlaceInv, PlaceToAttack

LEMMA SupportPlaces ==
    ASSUME PlaceInv, NEW u \in Support, SupportIdle(u)
    PROVE  possible' \in Nat /\ known' \in Nat /\ ~fault'
<1>1. PICK s \in ForSupport(Lists) :
          Keep(s) /\ fault' = (fault \/ s.known = 0)
  BY DEF SupportIdle
<1>2. s.possible \in Nat /\ s.known \in Nat \ {0}
  BY <1>1, UpdateGivesPlace DEF ForSupport, Lists, PlaceInv, TypeOK
<1>3. QED
  BY <1>1, <1>2 DEF Keep, PlaceInv, PlaceToAttack

\* What the loop does with an ATTACK task keeps the types.
LEMMA JoinTypes ==
    ASSUME TypeOK, NEW t \in Task, Join(t)
    PROVE  /\ t \in AttackTask
           /\ t.unit \in Unit /\ t.ability \in {"ATTACK_ATTACK", "MOVE_MOVE"}
           /\ queue' \in [Task -> Nat]
           /\ Joined(ground_units, t.unit, Ground) \subseteq Ground
           /\ air_units' \subseteq Air
           /\ support_units' \subseteq Support
<1>1. t \in AttackTask
  BY DEF Join, Task, TrainTask
<1>2. queue' \in [Task -> Nat]
  BY PopEffect DEF Join, TypeOK
<1>3. QED
  BY <1>1, <1>2 DEF Join, Joined, TypeOK, AttackTask

LEMMA PlaceStep ==
    ASSUME PlaceInv, [Next]_vars
    PROVE  PlaceInv'
<1> USE DEF PlaceInv, PlaceToAttack
<1> USE DEF places, squad
<1>1. CASE Minute
  BY <1>1 DEF Minute, TypeOK
<1>2. CASE \E u \in Unit : Die(u)
  BY <1>2 DEF Die, TypeOK, Orders
<1>3. ASSUME NEW u \in Army, ArmyIdle(u)
      PROVE  PlaceInv'
  <2>1. queue' \in [Task -> Nat]
    BY <1>3, PushEffect DEF TypeOK
  <2>2. order' \in [Unit -> Orders]
    BY <1>3 DEF ArmyIdle, BecomesIdle, TypeOK, Orders, Unit
  <2>3. QED
    BY <1>3, <2>1, <2>2, ArmyPlaces DEF ArmyIdle, TypeOK
<1>4. ASSUME NEW u \in Support, SupportIdle(u)
      PROVE  PlaceInv'
  <2>1. queue' \in [Task -> Nat]
    BY <1>4, PushEffect DEF TypeOK
  <2>2. order' \in [Unit -> Orders]
    BY <1>4 DEF SupportIdle, BecomesIdle, TypeOK, Orders, Unit
  <2>3. QED
    BY <1>4, <2>1, <2>2, SupportPlaces DEF SupportIdle, TypeOK
<1>5. CASE ProducerIdle
  <2>1. queue' \in [Task -> Nat]
    BY <1>5, PushEffect DEF TypeOK
  <2>2. QED
    BY <1>5, <2>1 DEF ProducerIdle, TypeOK
<1>6. CASE StepBegin
  BY <1>6 DEF StepBegin, TypeOK, Orders
<1>7. ASSUME NEW t \in Task, Forward(t)
      PROVE  PlaceInv'
  <2>1. queue' \in [Task -> Nat]
    BY <1>7, PopEffect DEF Forward, TypeOK
  <2>2. QED
    BY <1>7, <2>1 DEF Forward, Pop, TypeOK
<1>8. ASSUME NEW t \in Task, Wait(t)
      PROVE  PlaceInv'
  <2>1. Join(t)
    BY <1>8 DEF Wait
  <2>2. /\ queue' \in [Task -> Nat]
        /\ Joined(ground_units, t.unit, Ground) \subseteq Ground
        /\ air_units' \subseteq Air
        /\ support_units' \subseteq Support
        /\ UNCHANGED <<places, minutes>>
    BY <2>1, JoinTypes DEF Join, Pop
  <2>3. QED
    BY <1>8, <2>2 DEF Wait, TypeOK
<1>9. ASSUME NEW t \in Task, SetOff(t)
      PROVE  PlaceInv'
  <2>1. Join(t)
    BY <1>9 DEF SetOff
  <2>2. order' \in [Unit -> Orders]
    BY <1>9, <2>1, JoinTypes DEF SetOff, TypeOK, Orders
  <2>3. /\ queue' \in [Task -> Nat]
        /\ Joined(ground_units, t.unit, Ground) \subseteq Ground
        /\ air_units' \subseteq Air
        /\ support_units' \subseteq Support
        /\ UNCHANGED <<places, minutes>>
    BY <2>1, JoinTypes DEF Join, Pop
  <2>4. QED
    BY <1>9, <2>2, <2>3 DEF SetOff, TypeOK
<1>10. ASSUME NEW t \in Task, TurnBack(t)
       PROVE  PlaceInv'
  <2>1. Join(t)
    BY <1>10 DEF TurnBack
  <2>2. /\ queue' \in [Task -> Nat]
        /\ Joined(ground_units, t.unit, Ground) \subseteq Ground
        /\ air_units' \subseteq Air
        /\ support_units' \subseteq Support
        /\ UNCHANGED <<places, minutes>>
    BY <2>1, JoinTypes DEF Join, Pop
  <2>3. QED
    BY <1>10, <2>2 DEF TurnBack, TypeOK
<1>11. CASE StepEnd
  BY <1>11 DEF StepEnd, TypeOK
<1>12. CASE UNCHANGED vars
  BY <1>12 DEF vars, TypeOK
<1>13. QED
  BY <1>1, <1>2, <1>3, <1>4, <1>5, <1>6, <1>7, <1>8, <1>9, <1>10, <1>11, <1>12
     DEF Next, Iterate

LEMMA PlaceInductive == Spec => []PlaceInv
<1>1. ASSUME Init
      PROVE  PlaceInv
  <2>1. possible \in Nat
    BY <1>1, AttackAssumption DEF Init
  <2>2. queue \in [Task -> Nat]
    BY <1>1 DEF Init
  <2>3. order \in [Unit -> Orders]
    BY <1>1 DEF Init, Orders
  <2>4. ~fault /\ fault \in BOOLEAN
    BY <1>1 DEF Init
  <2>5. QED
    BY <1>1, <2>1, <2>2, <2>3, <2>4 DEF Init, PlaceInv, PlaceToAttack, TypeOK
<1>2. QED
  BY <1>1, PlaceStep, PTL DEF Spec

\* The lists hold units of their kind, the orders are orders, the numbers counts.
THEOREM AttackTypes == Spec => []TypeOK
BY PlaceInductive, PTL DEF PlaceInv

\* TroopManager never takes back() of an empty list of places: there is an enemy,
\* it has a start location, and each list is filled before it is read.
THEOREM AlwaysAPlace == Spec => []PlaceToAttack
BY PlaceInductive, PTL DEF PlaceInv

------------------------------------------------------------------------------
(* Nobody is forgotten                                                       *)

\* A unit that is waiting goes on waiting if nothing is taken from the queue and
\* nobody from the lists.
LEMMA StillWaiting ==
    ASSUME queue \in [Task -> Nat], queue' \in [Task -> Nat],
           \A w \in Task : queue'[w] >= queue[w],
           ground_units' = ground_units, air_units' = air_units,
           NEW u \in Army, Waiting(u)
    PROVE  Waiting(u)'
<1>1. CASE u \in ground_units \union air_units
  BY <1>1 DEF Waiting
<1>2. CASE \E a \in {"ATTACK_ATTACK", "MOVE_MOVE"} : queue[Attack(u, a)] > 0
  <2>1. PICK a \in {"ATTACK_ATTACK", "MOVE_MOVE"} : queue[Attack(u, a)] > 0
    BY <1>2
  <2>2. Attack(u, a) \in Task
    BY AttackTasks DEF Unit
  <2>3. queue'[Attack(u, a)] > 0
    BY <2>1, <2>2
  <2>4. QED
    BY <2>3 DEF Waiting, Attack
<1>3. QED
  BY <1>1, <1>2 DEF Waiting

\* A task that is not popped remains: so a unit whose task it was not, waits on.
LEMMA OtherTasks ==
    ASSUME queue \in [Task -> Nat], NEW t \in Task, Pop(t),
           NEW u \in Army, NEW a \in {"ATTACK_ATTACK", "MOVE_MOVE"},
           queue[Attack(u, a)] > 0, t # Attack(u, a)
    PROVE  Waiting(u)'
<1>1. Attack(u, a) \in Task
  BY AttackTasks DEF Unit
<1>2. queue'[Attack(u, a)] > 0
  BY <1>1, PopEffect
<1>3. QED
  BY <1>2 DEF Waiting, Attack

ForgottenInv == TypeOK /\ NoOneForgotten

LEMMA NoOneForgottenStep ==
    ASSUME ForgottenInv, TypeOK', [Next]_vars
    PROVE  NoOneForgotten'
<1> USE DEF ForgottenInv
<1> SUFFICES ASSUME NEW u \in Army, order'[u] = "idle"
             PROVE  Waiting(u)'
  BY DEF NoOneForgotten
<1>0. u \in Unit /\ queue \in [Task -> Nat] /\ queue' \in [Task -> Nat]
      /\ order \in [Unit -> Orders]
  BY DEF Unit, TypeOK
<1>1. ASSUME order[u] = "idle",
             \A w \in Task : queue'[w] >= queue[w],
             ground_units' = ground_units, air_units' = air_units
      PROVE  Waiting(u)'
  <2>1. Waiting(u)
    BY <1>1 DEF NoOneForgotten
  <2>2. QED
    BY <1>0, <1>1, <2>1, StillWaiting
<1>2. ASSUME UNCHANGED <<queue, squad>>, order[u] = "idle"
      PROVE  Waiting(u)'
  BY <1>0, <1>1, <1>2 DEF squad
<1>3. CASE Minute
  BY <1>2, <1>3 DEF Minute
<1>4. CASE \E v \in Unit : Die(v)
  <2>1. order[u] = "idle"
    BY <1>0, <1>4 DEF Die
  <2>2. QED
    BY <1>2, <1>4, <2>1 DEF Die
<1>5. ASSUME NEW v \in Army, ArmyIdle(v)
      PROVE  Waiting(u)'
  <2>1. CASE u = v
    <3>1. Attack(u, "ATTACK_ATTACK") \in Task /\ Attack(u, "MOVE_MOVE") \in Task
          /\ Attack(u, "ATTACK_ATTACK") # Attack(u, "MOVE_MOVE")
      BY <1>0, AttackTasks
    <3>2. queue' = [queue EXCEPT ![Attack(u, "ATTACK_ATTACK")] = @ + 1,
                                 ![Attack(u, "MOVE_MOVE")] = @ + 1]
      BY <1>5, <2>1 DEF ArmyIdle
    <3>3. queue'[Attack(u, "ATTACK_ATTACK")] = queue[Attack(u, "ATTACK_ATTACK")] + 1
      BY <1>0, <3>1, <3>2
    <3>4. queue'[Attack(u, "ATTACK_ATTACK")] > 0
      BY <1>0, <3>1, <3>3
    <3>5. QED
      BY <3>4 DEF Waiting, Attack
  <2>2. CASE u # v
    <3>1. order[u] = "idle"
      BY <1>0, <1>5, <2>2 DEF ArmyIdle, BecomesIdle
    <3>2. \A w \in Task : queue'[w] >= queue[w]
      BY <1>0, <1>5, PushEffect
    <3>3. QED
      BY <1>1, <1>5, <3>1, <3>2 DEF ArmyIdle, squad
  <2>3. QED
    BY <2>1, <2>2
<1>6. ASSUME NEW v \in Support, SupportIdle(v)
      PROVE  Waiting(u)'
  <2>1. u # v
    BY AttackAssumption
  <2>2. order[u] = "idle"
    BY <1>0, <1>6, <2>1 DEF SupportIdle, BecomesIdle
  <2>3. \A w \in Task : queue'[w] >= queue[w]
    BY <1>0, <1>6, PushEffect
  <2>4. QED
    BY <1>1, <1>6, <2>2, <2>3 DEF SupportIdle, squad
<1>7. CASE ProducerIdle
  <2>1. \A w \in Task : queue'[w] >= queue[w]
    BY <1>0, <1>7, PushEffect
  <2>2. QED
    BY <1>1, <1>7, <2>1 DEF ProducerIdle, squad
<1>8. CASE StepBegin
  <2>1. order[u] = "idle"
    BY <1>0, <1>8 DEF StepBegin
  <2>2. QED
    BY <1>2, <1>8, <2>1 DEF StepBegin
<1>9. ASSUME NEW t \in Task, Forward(t)
      PROVE  Waiting(u)'
  <2>1. Pop(t) /\ t.action = "TRAIN" /\ UNCHANGED <<squad, order>>
    BY <1>9 DEF Forward
  <2>2. CASE u \in ground_units \union air_units
    BY <2>1, <2>2 DEF Waiting, squad
  <2>3. ASSUME NEW a \in {"ATTACK_ATTACK", "MOVE_MOVE"}, queue[Attack(u, a)] > 0
        PROVE  Waiting(u)'
    <3>1. t # Attack(u, a)
      BY <2>1 DEF Attack
    <3>2. QED
      BY <1>0, <2>1, <2>3, <3>1, OtherTasks
  <2>4. QED
    BY <2>1, <2>2, <2>3 DEF NoOneForgotten, Waiting
<1>10. ASSUME NEW t \in Task, Join(t), order[u] = "idle",
              \/ ground_units' = Joined(ground_units, t.unit, Ground)
              \/ u \notin Joined(ground_units, t.unit, Ground)
       PROVE  Waiting(u)'
  <2>1. Pop(t) /\ air_units' = Joined(air_units, t.unit, Air)
    BY <1>10 DEF Join
  <2>2. CASE u \in ground_units \union air_units \/ u = t.unit
    <3>1. \/ u \in Joined(ground_units, t.unit, Ground)
          \/ u \in Joined(air_units, t.unit, Air)
      BY <2>2 DEF Joined, Army
    <3>2. u \in ground_units' \union air_units'
      BY <1>10, <2>1, <3>1
    <3>3. QED
      BY <3>2 DEF Waiting
  <2>3. ASSUME NEW a \in {"ATTACK_ATTACK", "MOVE_MOVE"}, queue[Attack(u, a)] > 0,
               u # t.unit
        PROVE  Waiting(u)'
    <3>1. t # Attack(u, a)
      BY <2>3 DEF Attack
    <3>2. QED
      BY <1>0, <2>1, <2>3, <3>1, OtherTasks
  <2>4. QED
    BY <1>10, <2>2, <2>3 DEF NoOneForgotten, Waiting
<1>11. ASSUME NEW t \in Task, Wait(t)
       PROVE  Waiting(u)'
  BY <1>10, <1>11 DEF Wait
<1>12. ASSUME NEW t \in Task, SetOff(t)
       PROVE  Waiting(u)'
  <2> DEFINE ground == Joined(ground_units, t.unit, Ground)
  <2>1. Join(t)
        /\ order'[u] = CASE ~Living(u) -> order[u]
                         [] Living(u) /\ u \in Squadron(ground, air_units') -> t.ability
                         [] Living(u) /\ u \in support_units' -> "MOVE_MOVE"
                         [] OTHER -> order[u]
    BY <1>0, <1>12 DEF SetOff
  <2>2. t.ability # "idle"
    BY <2>1, JoinTypes
  <2>3. order[u] = "idle" /\ (Living(u) => u \notin ground)
    BY <2>1, <2>2 DEF Squadron, Living
  <2>4. u \notin ground
    BY <2>3 DEF Living
  <2>5. QED
    BY <1>10, <2>1, <2>3, <2>4
<1>13. ASSUME NEW t \in Task, TurnBack(t)
       PROVE  Waiting(u)'
  BY <1>10, <1>13 DEF TurnBack
<1>14. CASE StepEnd
  BY <1>2, <1>14 DEF StepEnd
<1>15. CASE UNCHANGED vars
  BY <1>2, <1>15 DEF vars
<1>16. QED
  BY <1>3, <1>4, <1>5, <1>6, <1>7, <1>8, <1>9, <1>11, <1>12, <1>13, <1>14, <1>15
     DEF Next, Iterate

\* A unit of the army that has nothing to do has a task in the queue or is in a
\* list: TroopManager::unitIdle makes the task when it becomes idle, and step()
\* lets go of it only for an order.
THEOREM NobodyForgotten == Spec => []NoOneForgotten
<1>1. Init => NoOneForgotten
  BY DEF Init, NoOneForgotten, Unit
<1>2. TypeOK /\ TypeOK' /\ NoOneForgotten /\ [Next]_vars => NoOneForgotten'
  BY NoOneForgottenStep DEF ForgottenInv
<1>3. QED
  BY <1>1, <1>2, AttackTypes, PTL DEF Spec

------------------------------------------------------------------------------
(* Add-ons first                                                             *)

\* Tasks for add-ons have priorities above that of an attack.
AddonInv ==
    /\ queue \in [Task -> Nat]
    /\ \A t \in TrainTask :
          t.what = "addon" /\ queue[t] > 0 => t.priority \in AddonPriority

LEMMA AddonStep ==
    ASSUME AddonInv, queue' \in [Task -> Nat], [Next]_vars
    PROVE  AddonInv'
<1> SUFFICES ASSUME NEW t \in TrainTask, t.what = "addon", queue'[t] > 0
             PROVE  t.priority \in AddonPriority
  BY DEF AddonInv
<1>0. t \in Task /\ queue \in [Task -> Nat]
      /\ (queue[t] > 0 => t.priority \in AddonPriority)
  BY DEF AddonInv, Task
<1>1. ASSUME queue'[t] <= queue[t]
      PROVE  t.priority \in AddonPriority
  BY <1>0, <1>1
<1>2. ASSUME NEW u \in Unit,
             queue' = [queue EXCEPT ![Attack(u, "ATTACK_ATTACK")] = @ + 1,
                                    ![Attack(u, "MOVE_MOVE")] = @ + 1]
             \/ queue' = [queue EXCEPT ![Attack(u, "MOVE_MOVE")] = @ + 1]
      PROVE  t.priority \in AddonPriority
  <2>1. \A a : t # Attack(u, a)
    BY DEF Attack, TrainTask
  <2>2. queue'[t] = queue[t]
    BY <1>0, <1>2, <2>1
  <2>3. QED
    BY <1>0, <1>1, <2>2
<1>3. CASE \E u \in Army : ArmyIdle(u)
  BY <1>2, <1>3 DEF ArmyIdle, Unit
<1>4. CASE \E u \in Support : SupportIdle(u)
  BY <1>2, <1>4 DEF SupportIdle, Unit
<1>5. CASE ProducerIdle
  <2>1. PICK addons \in {{}} \union {{Train("addon", p)} : p \in AddonPriority},
             troops \in SUBSET {Train("troop", 6), Train("troop", 7)} :
          queue' = [w \in Task |-> IF w \in addons \union troops THEN queue[w] + 1
                                                                 ELSE queue[w]]
    BY <1>5 DEF ProducerIdle
  <2>2. CASE t \in addons
    <3>1. PICK p \in AddonPriority : t = Train("addon", p)
      BY <2>1, <2>2
    <3>2. QED
      BY <3>1 DEF Train
  <2>3. CASE t \notin addons
    <3>1. t \notin troops
      BY <2>1 DEF Train
    <3>2. queue'[t] = queue[t]
      BY <1>0, <2>1, <2>3, <3>1
    <3>3. QED
      BY <1>0, <1>1, <3>2
  <2>4. QED
    BY <2>2, <2>3
<1>6. ASSUME NEW w \in Task, Pop(w)
      PROVE  t.priority \in AddonPriority
  BY <1>0, <1>1, <1>6, PopEffect
<1>7. CASE Iterate
  BY <1>6, <1>7 DEF Iterate, Forward, Wait, SetOff, TurnBack, Join
<1>8. CASE UNCHANGED queue
  BY <1>0, <1>1, <1>8
<1>9. QED
  BY <1>3, <1>4, <1>5, <1>7, <1>8
     DEF Next, Minute, Die, StepBegin, StepEnd, vars

LEMMA AddonReturn ==
    ASSUME AddonInv, TypeOK', Next, phase = "drain", phase' = "events"
    PROVE  \A t \in TrainTask : t.what = "addon" => queue'[t] = 0
<1> SUFFICES ASSUME NEW t \in TrainTask, t.what = "addon"
             PROVE  queue'[t] = 0
  OBVIOUS
<1>0. t \in Task /\ queue \in [Task -> Nat] /\ queue' \in [Task -> Nat]
  BY DEF AddonInv, Task, TypeOK
<1>1. CASE StepEnd
  BY <1>0, <1>1 DEF StepEnd
<1>2. ASSUME NEW w \in Task, TurnBack(w)
      PROVE  queue'[t] = 0
  <2>1. Pop(w) /\ w.action = "ATTACK"
    BY <1>2 DEF TurnBack, Join
  <2>2. w.priority = 6
    BY <2>1 DEF Task, AttackTask, TrainTask
  <2>3. queue[t] > 0 => ~Less(w, t)
    BY <1>0, <2>1, PopEffect
  <2>4. queue[t] > 0 => t.priority \in {7, 8}
    BY DEF AddonInv, AddonPriority
  <2>5. queue[t] = 0
    BY <1>0, <2>2, <2>3, <2>4 DEF Less
  <2>6. queue'[t] <= queue[t]
    BY <1>0, <2>1, PopEffect
  <2>7. QED
    BY <1>0, <2>5, <2>6
<1>3. QED
  BY <1>1, <1>2
     DEF Next, Minute, Die, ArmyIdle, SupportIdle, ProducerIdle, StepBegin,
         Iterate, Forward, Wait, SetOff

\* AddonInv is invariant.
LEMMA AddonInductive == Spec => []AddonInv
<1>1. ASSUME Init
      PROVE  AddonInv
  <2>1. queue = [t \in Task |-> 0]
    BY <1>1 DEF Init
  <2>2. \A t \in TrainTask : queue[t] = 0
    BY <2>1 DEF Task
  <2>3. QED
    BY <2>1, <2>2 DEF AddonInv
<1>2. AddonInv /\ TypeOK' /\ [Next]_vars => AddonInv'
  BY AddonStep DEF TypeOK
<1>3. QED
  BY <1>1, <1>2, AttackTypes, PTL DEF Spec

\* Whenever step() returns, no task for an add-on is left in the queue, because
\* only an attack makes it return early and attacks come after.
THEOREM Addons == Spec => AddonsFirst
<1>1. AddonInv /\ TypeOK' /\ [Next]_vars =>
         [phase = "drain" /\ phase' = "events" =>
             \A t \in TrainTask : t.what = "addon" => queue'[t] = 0]_vars
  BY AddonReturn
<1>2. QED
  BY <1>1, AddonInductive, AttackTypes, PTL DEF Spec, AddonsFirst

\* Each task for an add-on that a structure pushes is taken out of the queue and
\* handed to the resource agent sooner or later, whatever tasks for attacks are
\* pushed meanwhile and however often step() returns for one of them.
AddonsServed ==
    \A t \in TrainTask : t.what = "addon" => (queue[t] > 0 ~> queue[t] = 0)

\* It is, provided that step() is called again and again: that it ran before
\* means that its loop was left.
THEOREM AddonsAreServed == Spec /\ []<><<StepBegin>>_vars => AddonsServed
<1>1. SUFFICES ASSUME NEW t \in TrainTask, t.what = "addon"
               PROVE  Spec /\ []<><<StepBegin>>_vars
                        => (queue[t] > 0 ~> queue[t] = 0)
  BY DEF AddonsServed
<1>2. TypeOK => queue[t] > 0 \/ queue[t] = 0
  BY <1>1 DEF TypeOK, Task
<1>3. <<StepBegin>>_vars => (phase = "drain")'
  BY DEF StepBegin
<1>4. phase = "drain" => ~StepBegin
  BY DEF StepBegin
<1>5. AddonInv /\ TypeOK' /\ phase = "drain" /\ [Next]_vars
          => (phase = "drain")' \/ (queue[t] = 0)'
  <2>1. SUFFICES ASSUME AddonInv, TypeOK', phase = "drain", Next, phase' # "drain"
                 PROVE  queue'[t] = 0
    BY DEF vars
  <2>2. phase' = "events"
    BY <2>1 DEF TypeOK
  <2>3. QED
    BY <1>1, <2>1, <2>2, AddonReturn
<1>6. QED
  BY <1>2, <1>3, <1>4, <1>5, AddonInductive, AttackTypes, PTL DEF Spec

==============================================================================
