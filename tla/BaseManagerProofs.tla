--------------------------- MODULE BaseManagerProofs ---------------------------
(***************************************************************************)
(* Theorems about BaseManager, for every number of command centers and     *)
(* every threshold.                                                        *)
(***************************************************************************)
EXTENDS BaseManager, ListLemmas, SequenceTheorems, TLAPS

------------------------------------------------------------------------------
(* The lists                                                                 *)

\* Erasing a base takes its command out of the list, if it is there once, and
\* no other.
LEMMA RemoveBase ==
    ASSUME NEW s \in Seq(Base), NEW k \in 1..Len(s)
    PROVE  /\ Commands(RemoveAt(s, k)) \subseteq Commands(s)
           /\ Commands(s) \ {s[k].command} \subseteq Commands(RemoveAt(s, k))
           /\ Distinct(s) => /\ Distinct(RemoveAt(s, k))
                             /\ s[k].command \notin Commands(RemoveAt(s, k))
<1> DEFINE r == RemoveAt(s, k)
           From(i) == IF i < k THEN i ELSE i + 1
<1>1. /\ Len(s) \in Nat /\ k \in 1..Len(s)
      /\ DOMAIN s = 1..Len(s)
      /\ DOMAIN r = 1..Len(s) - 1
      /\ \A i \in 1..Len(s) - 1 : r[i] = s[From(i)]
  <2>1. /\ r \in Seq(Base) /\ Len(r) = Len(s) - 1
        /\ \A i \in 1..Len(s) - 1 : r[i] = IF i < k THEN s[i] ELSE s[i + 1]
    BY RemoveAtProperties
  <2>2. DOMAIN r = 1..Len(r) /\ Len(s) \in Nat /\ DOMAIN s = 1..Len(s)
    BY <2>1, LenProperties
  <2>3. QED
    BY <2>1, <2>2
<1> HIDE DEF r
<1>2. \A i \in DOMAIN r : From(i) \in DOMAIN s /\ From(i) # k
  BY <1>1
<1>3. \A i, j \in DOMAIN r : From(i) = From(j) => i = j
  BY <1>1
<1>4. ASSUME NEW i \in DOMAIN s, i # k
      PROVE  \E j \in DOMAIN r : From(j) = i
  <2>1. CASE i < k
    <3>1. i \in DOMAIN r /\ From(i) = i
      BY <1>1, <2>1
    <3>2. QED
      BY <3>1
  <2>2. CASE i > k
    <3>1. i - 1 \in DOMAIN r /\ From(i - 1) = i
      BY <1>1, <2>2
    <3>2. QED
      BY <3>1
  <2>3. QED
    BY <1>1, <1>4, <2>1, <2>2
<1> HIDE DEF From
<1>5. Commands(r) \subseteq Commands(s)
  BY <1>1, <1>2 DEF Commands
<1>6. Commands(s) \ {s[k].command} \subseteq Commands(r)
  <2>1. ASSUME NEW i \in DOMAIN s, s[i].command # s[k].command
        PROVE  s[i].command \in Commands(r)
    <3>1. PICK j \in DOMAIN r : From(j) = i
      BY <1>4, <2>1
    <3>2. QED
      BY <1>1, <3>1 DEF Commands
  <2>2. QED
    BY <2>1 DEF Commands
<1>7. ASSUME Distinct(s)
      PROVE  Distinct(r) /\ s[k].command \notin Commands(r)
  <2>1. k \in DOMAIN s
    BY <1>1
  <2>2. ASSUME NEW i \in DOMAIN r
        PROVE  r[i] = s[From(i)] /\ From(i) \in DOMAIN s /\ From(i) # k
    BY <1>1, <1>2
  <2>3. ASSUME NEW i \in DOMAIN r, NEW j \in DOMAIN r,
               r[i].command = r[j].command
        PROVE  i = j
    <3>1. From(i) = From(j)
      BY <1>7, <2>2, <2>3 DEF Distinct
    <3>2. QED
      BY <1>3, <3>1
  <2>4. ASSUME NEW i \in DOMAIN r
        PROVE  r[i].command # s[k].command
    BY <1>7, <2>1, <2>2 DEF Distinct
  <2>5. QED
    BY <2>3, <2>4 DEF Distinct, Commands
<1>8. QED
  BY <1>5, <1>6, <1>7 DEF r

\* Pushing a base adds its command.
LEMMA AppendBase ==
    ASSUME NEW s \in Seq(Base), NEW b \in Base
    PROVE  /\ Append(s, b) \in Seq(Base)
           /\ Len(Append(s, b)) = Len(s) + 1
           /\ Commands(Append(s, b)) = Commands(s) \union {b.command}
           /\ Distinct(s) /\ b.command \notin Commands(s) => Distinct(Append(s, b))
<1> DEFINE r == Append(s, b)
<1>1. /\ r \in Seq(Base) /\ Len(r) = Len(s) + 1 /\ Len(s) \in Nat
      /\ DOMAIN s = 1..Len(s) /\ DOMAIN r = 1..Len(s) + 1
      /\ \A i \in 1..Len(s) : r[i] = s[i]
      /\ r[Len(s) + 1] = b
  <2>1. /\ r \in Seq(Base) /\ Len(r) = Len(s) + 1
        /\ \A i \in 1..Len(s) : r[i] = s[i]
        /\ r[Len(s) + 1] = b
    BY AppendProperties
  <2>2. QED
    BY <2>1, LenProperties
<1> HIDE DEF r
<1>2. \A i \in DOMAIN r : i \in DOMAIN s \/ i = Len(s) + 1
  BY <1>1
<1>3. \A i \in DOMAIN s : i \in DOMAIN r /\ i # Len(s) + 1
  BY <1>1
<1>4. Len(s) + 1 \in DOMAIN r
  BY <1>1
<1>5. Commands(r) = Commands(s) \union {b.command}
  BY <1>1, <1>2, <1>3, <1>4 DEF Commands
<1>6. Distinct(s) /\ b.command \notin Commands(s) => Distinct(r)
  BY <1>1, <1>2, <1>3 DEF Distinct, Commands
<1>7. QED
  BY <1>1, <1>5, <1>6 DEF r

\* Writing to a base, not to its command, changes no command.
LEMMA UpdateBase ==
    ASSUME NEW s \in Seq(Base), NEW k \in 1..Len(s), NEW b \in Base,
           b.command = s[k].command
    PROVE  /\ [s EXCEPT ![k] = b] \in Seq(Base)
           /\ Len([s EXCEPT ![k] = b]) = Len(s)
           /\ Commands([s EXCEPT ![k] = b]) = Commands(s)
           /\ Distinct(s) => Distinct([s EXCEPT ![k] = b])
<1> DEFINE r == [s EXCEPT ![k] = b]
<1>1. r \in Seq(Base) /\ Len(r) = Len(s)
  BY ExceptSeq
<1>2. DOMAIN r = DOMAIN s /\ \A i \in DOMAIN s : r[i].command = s[i].command
  OBVIOUS
<1> HIDE DEF r
<1>3. QED
  BY <1>1, <1>2 DEF Commands, Distinct, r

\* The commands of a list are those of its elements.
LEMMA CommandsType ==
    ASSUME NEW s \in Seq(Base)
    PROVE  Commands(s) \subseteq Center \union {NoUnit}
<1>1. DOMAIN s = 1..Len(s)
  BY LenProperties
<1>2. \A i \in 1..Len(s) : s[i] \in Base
  BY ElementOfSeq
<1>3. QED
  BY <1>1, <1>2 DEF Commands, Base

------------------------------------------------------------------------------
(* Type correctness                                                          *)

\* Inside the loop, the slots it was started for are those of the vector and
\* those behind it; outside there are none.
LoopInv == IF phase = "active"
           THEN at <= upTo + 1 /\ upTo = Len(active) + Len(stale)
           ELSE stale = <<>>

\* scv_count is behind the number of SCVs by the scouts lost.
CountInv == 0 <= scvs - scv_count /\ scvs - scv_count <= MaxDrift

TypeInv == TypeOK /\ LoopInv /\ CountInv

\* Adding a command center adds a base for it, or names the one made before.
LEMMA WithBaseProperties ==
    ASSUME TypeOK, NEW c \in Center
    PROVE  /\ WithBase(c) \in Seq(Base)
           /\ Commands(WithBase(c)) \subseteq Commands(active) \union {c}
           /\ Commands(active) \ {NoUnit} \subseteq Commands(WithBase(c))
           /\ c \in Commands(WithBase(c))
           /\ Distinct(active) /\ c \notin Commands(active) => Distinct(WithBase(c))
<1>1. active \in Seq(Base) /\ NewBase(c) \in Base /\ NewBase(c).command = c
  BY DEF TypeOK, NewBase, Base
<1>2. CASE Len(active) = 1 /\ active[1].command = NoUnit
  <2>1. active[1] \in Base
    <3>1. 1 \in 1..Len(active)
      BY <1>2
    <3>2. QED
      BY <1>1, <3>1, ElementOfSeq
  <2> DEFINE b == [active[1] EXCEPT !.command = c]
  <2>2. b \in Base /\ b.command = c
    BY <2>1 DEF Base
  <2>3. DOMAIN active = 1..1
    BY <1>1, <1>2, LenProperties
  <2>4. Commands(active) = {NoUnit}
    BY <1>2, <2>3 DEF Commands
  <2>5. WithBase(c) = <<b>>
    BY <1>2 DEF WithBase
  <2> HIDE DEF b
  <2>6. <<b>> \in Seq(Base) /\ Commands(<<b>>) = {c} /\ Distinct(<<b>>)
    BY <2>2 DEF Commands, Distinct
  <2>7. QED
    BY <2>4, <2>5, <2>6
<1>3. CASE ~(Len(active) = 1 /\ active[1].command = NoUnit)
  <2>1. WithBase(c) = Append(active, NewBase(c))
    BY <1>3 DEF WithBase
  <2>2. QED
    BY <1>1, <2>1, AppendBase
<1>4. QED
  BY <1>2, <1>3

\* The loop is at a base.
LEMMA HereType ==
    ASSUME TypeInv, phase = "active", at <= upTo
    PROVE  Here \in Base
<1>1. /\ active \in Seq(Base) /\ stale \in Seq(Base) /\ at \in Nat \ {0}
      /\ Len(active) \in Nat /\ Len(stale) \in Nat
      /\ at <= Len(active) + Len(stale)
  BY LenProperties DEF TypeInv, TypeOK, LoopInv
<1>2. CASE at <= Len(active)
  BY <1>1, <1>2, ElementOfSeq DEF Here
<1>3. CASE ~(at <= Len(active))
  <2>1. at - Len(active) \in 1..Len(stale)
    BY <1>1, <1>3
  <2>2. stale[at - Len(active)] \in Base
    BY <1>1, <2>1, ElementOfSeq
  <2>3. QED
    BY <1>3, <2>2 DEF Here
<1>4. QED
  BY <1>2, <1>3

\* The lists keep their type when an event removes a center.
LEMMA ForgetType ==
    ASSUME TypeOK, NEW c \in Center, Forget(c)
    PROVE  active' \in Seq(Base) /\ isolated' \in Seq(Center)
<1>1. /\ active \in Seq(Base) /\ isolated \in Seq(Center)
      /\ DOMAIN active = 1..Len(active) /\ DOMAIN isolated = 1..Len(isolated)
  BY LenProperties DEF TypeOK
<1>2. ASSUME NEW i \in Earliest(ActiveAt(c)), active' = RemoveAt(active, i)
      PROVE  active' \in Seq(Base)
  <2>1. i \in 1..Len(active)
    BY <1>1 DEF Earliest, ActiveAt
  <2>2. QED
    BY <1>1, <1>2, <2>1, RemoveAtProperties
<1>3. ASSUME NEW i \in Earliest(IsolatedAt(c)), isolated' = RemoveAt(isolated, i)
      PROVE  isolated' \in Seq(Center)
  <2>1. i \in 1..Len(isolated)
    BY <1>1 DEF Earliest, IsolatedAt
  <2>2. QED
    BY <1>1, <1>3, <2>1, RemoveAtProperties
<1>4. QED
  BY <1>1, <1>2, <1>3 DEF Forget

\* t lists the bases of s, whose flags may differ.
Like(s, t) ==
    /\ t \in Seq(Base)
    /\ Len(t) = Len(s) /\ DOMAIN t = DOMAIN s
    /\ \A i \in DOMAIN s : t[i].command = s[i].command

\* Lists that are alike hold the same commands.
LEMMA LikeCommands ==
    ASSUME NEW s, NEW t, Like(s, t)
    PROVE  /\ Commands(t) = Commands(s)
           /\ Distinct(s) => Distinct(t)
BY DEF Like, Commands, Distinct

\* Setting the flag of a base changes no command and no length.
LEMMA FlaggedLike ==
    ASSUME NEW s \in Seq(Base), NEW k \in Int
    PROVE  /\ Like(s, Flagged(s, k))
           /\ \A i \in DOMAIN s : i # k => Flagged(s, k)[i] = s[i]
           /\ k \in DOMAIN s => Flagged(s, k)[k].transfer
<1>1. DOMAIN s = 1..Len(s)
  BY LenProperties
<1>2. CASE k \notin DOMAIN s
  BY <1>2 DEF Flagged, Like
<1>3. CASE k \in DOMAIN s
  <2> DEFINE b == [s[k] EXCEPT !.transfer = TRUE]
             t == [s EXCEPT ![k] = b]
  <2>1. s[k] \in Base
    BY <1>1, <1>3, ElementOfSeq
  <2>2. b \in Base /\ b.command = s[k].command /\ b.transfer
    BY <2>1 DEF Base
  <2>3. Flagged(s, k) = t
    BY <1>3 DEF Flagged
  <2> HIDE DEF b
  <2>4. t \in Seq(Base) /\ Len(t) = Len(s)
    BY <1>1, <1>3, <2>2, ExceptSeq
  <2>5. /\ DOMAIN t = DOMAIN s /\ t[k] = b
        /\ \A i \in DOMAIN s : i # k => t[i] = s[i]
    BY <1>3
  <2> HIDE DEF t
  <2>6. QED
    BY <2>2, <2>3, <2>4, <2>5 DEF Like
<1>4. QED
  BY <1>2, <1>3

\* Whether a turn that finds v around a base asks for a center.
Asks(b, v) == RunsOut(b, v) /\ ~Many(b.command)

\* What a turn that finds v has in the slots of the vector and behind it, when
\* it comes to give the base up or not.
Marked(b, v, bases, rest) ==
    /\ Like(active, bases) /\ Like(stale, rest)
    /\ \A i \in DOMAIN active : i # at => bases[i] = active[i]
    /\ RunsOut(b, v) /\ at \in DOMAIN active => bases[at].transfer

GivesUp(b, v, bases, rest) ==
    v = "none" /\ ~Asks(b, v) /\ Isolate(b, bases, rest)

Keeps(b, v, bases, rest) ==
    /\ v # "none" \/ Asks(b, v)
    /\ active' = bases /\ stale' = rest /\ isolated' = isolated
    /\ requests' \in 0..MaxRequests

\* A turn sets a flag or none, and then gives the base up or keeps it.
LEMMA DealCases ==
    ASSUME TypeInv, NEW b, NEW v, Deal(b, v)
    PROVE  \E bases, rest :
              /\ Marked(b, v, bases, rest)
              /\ GivesUp(b, v, bases, rest) \/ Keeps(b, v, bases, rest)
<1> DEFINE out == RunsOut(b, v)
           bases == IF out THEN Flagged(active, at) ELSE active
           rest == IF out THEN Flagged(stale, at - Len(active)) ELSE stale
<1>1. /\ active \in Seq(Base) /\ stale \in Seq(Base) /\ at \in Nat
      /\ Len(active) \in Nat /\ requests \in 0..MaxRequests
  BY LenProperties DEF TypeInv, TypeOK
<1>2. /\ Like(active, Flagged(active, at))
      /\ \A i \in DOMAIN active : i # at => Flagged(active, at)[i] = active[i]
      /\ at \in DOMAIN active => Flagged(active, at)[at].transfer
  BY <1>1, FlaggedLike
<1>3. Like(stale, Flagged(stale, at - Len(active)))
  <2>1. at - Len(active) \in Int
    BY <1>1
  <2>2. QED
    BY <1>1, <2>1, FlaggedLike
<1>4. Like(active, active) /\ Like(stale, stale)
  BY <1>1 DEF Like
<1>5. Marked(b, v, bases, rest)
  BY <1>2, <1>3, <1>4 DEF Marked
<1>6. GivesUp(b, v, bases, rest) \/ Keeps(b, v, bases, rest)
  <2>1. CASE GivesUp(b, v, bases, rest)
    BY <2>1
  <2>2. CASE ~GivesUp(b, v, bases, rest)
    <3>1. /\ Asks(b, v) \/ v # "none"
          /\ active' = bases /\ stale' = rest /\ isolated' = isolated
          /\ requests' = requests \/ requests' = Requested(1)
      BY <2>2 DEF Deal, Asks, GivesUp
    <3>2. requests' \in 0..MaxRequests
      BY <1>1, <3>1, BaseAssumption DEF BaseAssumption, Requested
    <3> HIDE DEF bases, rest
    <3>3. QED
      BY <3>1, <3>2 DEF Keeps
  <2>3. QED
    BY <2>1, <2>2
<1> HIDE DEF bases, rest
<1>7. QED
  BY <1>5, <1>6

\* What a turn of the loop is.
Turn(bases, rest) ==
    \E v \in Found(Here.command) :
        /\ Marked(Here, v, bases, rest)
        /\ GivesUp(Here, v, bases, rest) \/ Keeps(Here, v, bases, rest)

LEMMA VisitCases ==
    ASSUME TypeInv, Visit
    PROVE  /\ phase = "active" /\ at <= upTo /\ Here \in Base
           /\ UNCHANGED <<scv_count, game>>
           /\ \/ ~Observed(Here.command) /\ Return /\ UNCHANGED <<lists, requests>>
              \/ /\ status[Here.command] = "building"
                 /\ Advance /\ UNCHANGED <<lists, requests, stale>>
              \/ /\ Observed(Here.command) /\ Here.command \in Center
                 /\ status[Here.command] # "building"
                 /\ Advance
                 /\ \E bases, rest : Turn(bases, rest)
<1>1. phase = "active" /\ at <= upTo /\ Here \in Base
  BY HereType DEF Visit
<1>2. Observed(Here.command) => Here.command \in Center
  BY <1>1 DEF Base, Observed
<1>3. ASSUME NEW v \in Found(Here.command), Deal(Here, v)
      PROVE  \E bases, rest : Turn(bases, rest)
  <2>1. PICK bases, rest :
            /\ Marked(Here, v, bases, rest)
            /\ GivesUp(Here, v, bases, rest) \/ Keeps(Here, v, bases, rest)
    BY <1>3, DealCases
  <2>2. Turn(bases, rest)
    BY <2>1 DEF Turn
  <2>3. QED
    BY <2>2
<1>4. QED
  BY <1>1, <1>2, <1>3 DEF Visit

\* Moving a base keeps the number of slots: what leaves the vector stays
\* behind it.
LEMMA IsolateLists ==
    ASSUME TypeInv, NEW b \in Base, b.command \in Center, NEW bases, NEW rest,
           Like(active, bases), Like(stale, rest), Isolate(b, bases, rest)
    PROVE  /\ active' \in Seq(Base) /\ stale' \in Seq(Base)
           /\ isolated' \in Seq(Center)
           /\ Len(active') + Len(stale') = Len(active) + Len(stale)
<1>1. /\ bases \in Seq(Base) /\ rest \in Seq(Base) /\ isolated \in Seq(Center)
      /\ Len(bases) \in Nat /\ Len(rest) \in Nat
      /\ Len(bases) = Len(active) /\ Len(rest) = Len(stale)
      /\ DOMAIN active = 1..Len(bases)
  BY LenProperties DEF TypeInv, TypeOK, Like
<1>2. isolated' \in Seq(Center)
  BY <1>1, AppendProperties DEF Isolate
<1>3. ASSUME NEW i \in Earliest(ActiveAt(b.command)),
             active' = RemoveAt(bases, i), stale' = <<bases[Len(bases)]>> \o rest
      PROVE  /\ active' \in Seq(Base) /\ stale' \in Seq(Base)
             /\ Len(active') + Len(stale') = Len(active) + Len(stale)
  <2>1. i \in 1..Len(bases) /\ Len(bases) \in 1..Len(bases)
    BY <1>1 DEF Earliest, ActiveAt
  <2>2. active' \in Seq(Base) /\ Len(active') = Len(bases) - 1
    BY <1>1, <1>3, <2>1, RemoveAtProperties
  <2>3. bases[Len(bases)] \in Base
    BY <1>1, <2>1, ElementOfSeq
  <2>4. <<bases[Len(bases)]>> \in Seq(Base) /\ Len(<<bases[Len(bases)]>>) = 1
    BY <2>3
  <2>5. stale' \in Seq(Base) /\ Len(stale') = 1 + Len(rest)
    BY <1>1, <1>3, <2>4, ConcatProperties, Zenon
  <2>6. QED
    BY <1>1, <2>2, <2>5
<1>4. QED
  BY <1>1, <1>2, <1>3 DEF Isolate

\* The invariant holds initially.
LEMMA TypeInit == Init => TypeInv
<1>1. <<[command |-> NoUnit, transfer |-> FALSE]>> \in Seq(Base)
  BY DEF Base
<1>2. <<>> \in Seq(Base) /\ <<>> \in Seq(Center)
  BY EmptySeq
<1>3. QED
  BY <1>1, <1>2, BaseAssumption
     DEF BaseAssumption, Init, TypeInv, TypeOK, LoopInv, CountInv, Level, Status

\* Steps of the game and events keep the invariant.
LEMMA TypeGame ==
    ASSUME TypeInv, Game \/ Events
    PROVE  TypeInv'
<1> USE BaseAssumption DEF BaseAssumption, lists, loop, game
<1>1. ASSUME NEW c \in Center, Deplete(c)
      PROVE  TypeInv'
  BY <1>1 DEF TypeInv, TypeOK, LoopInv, CountInv, Level, Less, Deplete
<1>2. ASSUME NEW c \in Center, Complete(c) \/ Uncover(c)
      PROVE  TypeInv'
  BY <1>2 DEF TypeInv, TypeOK, LoopInv, CountInv, Status, Complete, Uncover
<1>3. CASE LoseBuilder
  BY <1>3 DEF TypeInv, TypeOK, LoopInv, CountInv, LoseBuilder
<1>4. CASE Serve
  BY <1>4 DEF TypeInv, TypeOK, LoopInv, CountInv, Serve
<1>5. ASSUME NEW c \in Center, Start(c) \/ Create(c)
      PROVE  TypeInv'
  <2>1. active' \in Seq(Base)
    BY <1>5, WithBaseProperties DEF TypeInv, Start, Create
  <2>2. QED
    BY <1>5, <2>1 DEF TypeInv, TypeOK, LoopInv, CountInv, Status, Start, Create
<1>6. ASSUME NEW c \in Center, Destroy(c)
      PROVE  TypeInv'
  <2>1. active' \in Seq(Base) /\ isolated' \in Seq(Center)
    BY <1>6, ForgetType DEF TypeInv, Destroy
  <2>2. QED
    BY <1>6, <2>1 DEF TypeInv, TypeOK, LoopInv, CountInv, Status, Level, Destroy
<1>7. CASE AddScv
  BY <1>7 DEF TypeInv, TypeOK, LoopInv, CountInv, AddScv
<1>8. CASE DeleteScv
  BY <1>8 DEF TypeInv, TypeOK, LoopInv, CountInv, DeleteScv
<1>9. CASE DeleteScout
  BY <1>9 DEF TypeInv, TypeOK, LoopInv, CountInv, DeleteScout
<1>10. QED
  BY <1>1, <1>2, <1>3, <1>4, <1>5, <1>6, <1>7, <1>8, <1>9 DEF Game, Events

\* Steps of step() keep the invariant.
LEMMA TypeStep ==
    ASSUME TypeInv, StepBegin \/ Visit \/ ActiveDone \/ StepEnd
    PROVE  TypeInv'
<1> USE BaseAssumption DEF BaseAssumption, lists, loop, game
<1>1. /\ Len(active) \in Nat /\ Len(stale) \in Nat /\ at \in Nat \ {0}
      /\ <<>> \in Seq(Base) /\ Len(<<>>) = 0
  BY LenProperties, EmptySeq DEF TypeInv, TypeOK
<1>2. CASE StepBegin
  BY <1>1, <1>2 DEF TypeInv, TypeOK, LoopInv, CountInv, StepBegin
<1>3. CASE ActiveDone
  BY <1>1, <1>3 DEF TypeInv, TypeOK, LoopInv, CountInv, ActiveDone
<1>4. CASE StepEnd
  <2>1. requests' \in 0..MaxRequests
    BY <1>4 DEF TypeInv, TypeOK, StepEnd, Requested
  <2>2. QED
    BY <1>1, <1>4, <2>1 DEF TypeInv, TypeOK, LoopInv, CountInv, StepEnd, Return
<1>5. CASE Visit
  <2>1. /\ phase = "active" /\ at <= upTo /\ Here \in Base
        /\ UNCHANGED <<scv_count, game>>
    BY <1>5, VisitCases
  <2>2. CASE Return /\ UNCHANGED <<lists, requests>>
    BY <1>1, <2>1, <2>2 DEF TypeInv, TypeOK, LoopInv, CountInv, Return
  <2>3. CASE Advance /\ UNCHANGED <<lists, requests, stale>>
    BY <1>1, <2>1, <2>3 DEF TypeInv, TypeOK, LoopInv, CountInv, Advance
  <2>4. ASSUME Here.command \in Center, Advance, NEW bases, NEW rest,
               Turn(bases, rest)
        PROVE  TypeInv'
    <3>1. PICK v : /\ Marked(Here, v, bases, rest)
                   /\ GivesUp(Here, v, bases, rest) \/ Keeps(Here, v, bases, rest)
      BY <2>4 DEF Turn
    <3>2. Like(active, bases) /\ Like(stale, rest)
      BY <3>1 DEF Marked
    <3>3. /\ active' \in Seq(Base) /\ stale' \in Seq(Base)
          /\ isolated' \in Seq(Center) /\ requests' \in 0..MaxRequests
          /\ Len(active') + Len(stale') = Len(active) + Len(stale)
      <4>1. CASE Keeps(Here, v, bases, rest)
        BY <3>2, <4>1 DEF Keeps, Like, TypeInv, TypeOK
      <4>2. CASE Isolate(Here, bases, rest)
        <5>1. requests' = requests
          BY <4>2 DEF Isolate
        <5>2. QED
          BY <2>1, <2>4, <3>2, <4>2, <5>1, IsolateLists DEF TypeInv, TypeOK
      <4>3. QED
        BY <3>1, <4>1, <4>2 DEF GivesUp
    <3>4. QED
      BY <1>1, <2>1, <2>4, <3>3 DEF TypeInv, TypeOK, LoopInv, CountInv, Advance
  <2>5. QED
    BY <1>5, <2>2, <2>3, <2>4, VisitCases
<1>6. QED
  BY <1>2, <1>3, <1>4, <1>5

\* Every step keeps TypeInv.
LEMMA TypeNext == TypeInv /\ [Next]_vars => TypeInv'
<1>1. CASE UNCHANGED vars
  BY <1>1 DEF vars, lists, game, loop, TypeInv, TypeOK, LoopInv, CountInv
<1>2. QED
  BY <1>1, TypeGame, TypeStep DEF Next

\* TypeInv is invariant.
LEMMA Typing == Spec => []TypeInv
BY TypeInit, TypeNext, PTL DEF Spec

\* Every variable has its type, whatever is erased while the loop runs.
THEOREM BaseTypes == Spec => []TypeOK
<1>1. TypeInv => TypeOK
  BY DEF TypeInv
<1>2. QED
  BY <1>1, Typing, PTL

\* scv_count never says more than there are.
THEOREM Counting == Spec => []NeverOvercounts
<1>1. TypeInv => NeverOvercounts
  BY DEF TypeInv, TypeOK, CountInv, NeverOvercounts
<1>2. QED
  BY <1>1, Typing, PTL

------------------------------------------------------------------------------
(* Which bases are in which list                                             *)

\* A center that does not exist yet is not isolated.
Unborn == \A c \in Center : status[c] = "none" => c \notin Isolated

ListsInv == NoBaseLost /\ ActiveOnce /\ Unborn

\* Erasing a center from the isolated ones takes none in, and no other out.
LEMMA RemoveCenter ==
    ASSUME TypeOK, NEW k \in 1..Len(isolated), isolated' = RemoveAt(isolated, k)
    PROVE  Isolated' \subseteq Isolated /\ Isolated \ {isolated[k]} \subseteq Isolated'
<1> DEFINE n == Len(isolated)
<1>1. /\ n \in Nat /\ DOMAIN isolated = 1..n /\ DOMAIN isolated' = 1..n - 1
      /\ \A i \in 1..n - 1 :
            isolated'[i] = IF i < k THEN isolated[i] ELSE isolated[i + 1]
  <2>1. isolated \in Seq(Center)
    BY DEF TypeOK
  <2>2. /\ isolated' \in Seq(Center) /\ Len(isolated') = n - 1
        /\ \A i \in 1..n - 1 :
              isolated'[i] = IF i < k THEN isolated[i] ELSE isolated[i + 1]
    BY <2>1, RemoveAtProperties
  <2>3. /\ n \in Nat /\ DOMAIN isolated = 1..n
        /\ DOMAIN isolated' = 1..Len(isolated')
    BY <2>1, <2>2, LenProperties
  <2>4. QED
    BY <2>2, <2>3
<1> HIDE DEF n
<1>2. Isolated' \subseteq Isolated
  BY <1>1 DEF Isolated
<1>3. ASSUME NEW i \in 1..n, i # k
      PROVE  \E j \in 1..n - 1 : isolated'[j] = isolated[i]
  <2>1. CASE i < k
    <3>1. i \in 1..n - 1
      BY <1>1, <2>1 DEF n
    <3>2. isolated'[i] = isolated[i]
      BY <1>1, <2>1, <3>1
    <3>3. QED
      BY <3>1, <3>2
  <2>2. CASE i > k
    <3>1. i - 1 \in 1..n - 1 /\ ~(i - 1 < k) /\ i - 1 + 1 = i
      BY <1>1, <2>2 DEF n
    <3>2. isolated'[i - 1] = isolated[i]
      BY <1>1, <3>1
    <3>3. QED
      BY <3>1, <3>2
  <2>3. QED
    BY <1>1, <1>3, <2>1, <2>2
<1>4. Isolated \ {isolated[k]} \subseteq Isolated'
  <2>1. ASSUME NEW i \in 1..n, isolated[i] # isolated[k]
        PROVE  isolated[i] \in Isolated'
    <3>1. PICK j \in 1..n - 1 : isolated'[j] = isolated[i]
      BY <1>3, <2>1
    <3>2. QED
      BY <1>1, <3>1 DEF Isolated
  <2>2. QED
    BY <1>1, <2>1 DEF Isolated
<1>5. QED
  BY <1>2, <1>4

\* A destroyed center leaves the active bases, others stay where they are.
LEMMA ForgetLists ==
    ASSUME TypeOK, Distinct(active), NEW c \in Center, Forget(c)
    PROVE  /\ Distinct(active')
           /\ Commands(active') \subseteq Commands(active) \ {c}
           /\ Commands(active) \ {c} \subseteq Commands(active')
           /\ Isolated' \subseteq Isolated /\ Isolated \ {c} \subseteq Isolated'
<1>1. /\ active \in Seq(Base)
      /\ DOMAIN active = 1..Len(active) /\ DOMAIN isolated = 1..Len(isolated)
  BY LenProperties DEF TypeOK
<1>2. ASSUME NEW i \in Earliest(ActiveAt(c)), active' = RemoveAt(active, i),
             isolated' = isolated
      PROVE  /\ Distinct(active')
             /\ Commands(active') \subseteq Commands(active) \ {c}
             /\ Commands(active) \ {c} \subseteq Commands(active')
             /\ Isolated' = Isolated
  <2>1. i \in 1..Len(active) /\ active[i].command = c
    BY <1>1 DEF Earliest, ActiveAt
  <2>2. Isolated' = Isolated
    BY <1>2 DEF Isolated
  <2>3. QED
    BY <1>1, <1>2, <2>1, <2>2, RemoveBase
<1>3. ASSUME ActiveAt(c) = {}
      PROVE  c \notin Commands(active)
  BY <1>3 DEF ActiveAt, Commands
<1>4. ASSUME NEW i \in Earliest(IsolatedAt(c)), isolated' = RemoveAt(isolated, i)
      PROVE  Isolated' \subseteq Isolated /\ Isolated \ {c} \subseteq Isolated'
  <2>1. i \in 1..Len(isolated) /\ isolated[i] = c
    BY <1>1 DEF Earliest, IsolatedAt
  <2>2. QED
    BY <1>4, <2>1, RemoveCenter
<1>5. CASE ActiveAt(c) # {}
  BY <1>2, <1>5 DEF Forget
<1>6. CASE ActiveAt(c) = {}
  <2>1. active' = active /\ c \notin Commands(active)
    BY <1>3, <1>6 DEF Forget
  <2>2. CASE isolated' = isolated
    BY <2>1, <2>2 DEF Isolated
  <2>3. CASE isolated' # isolated
    BY <1>4, <1>6, <2>1, <2>3 DEF Forget
  <2>4. QED
    BY <2>2, <2>3
<1>7. QED
  BY <1>5, <1>6

\* A base that is moved is in the other list afterwards, and only there.
LEMMA IsolateSets ==
    ASSUME TypeOK, Distinct(active), NEW b \in Base, b.command \in Center,
           NEW bases, NEW rest, Like(active, bases), Isolate(b, bases, rest)
    PROVE  /\ Distinct(active')
           /\ Commands(active') = Commands(active) \ {b.command}
           /\ Isolated' = Isolated \union {b.command}
<1>1. /\ bases \in Seq(Base) /\ isolated \in Seq(Center)
      /\ Commands(bases) = Commands(active) /\ Distinct(bases)
      /\ DOMAIN isolated = 1..Len(isolated) /\ Len(isolated) \in Nat
      /\ DOMAIN active = 1..Len(bases)
      /\ \A i \in DOMAIN active : bases[i].command = active[i].command
  BY LenProperties, LikeCommands DEF TypeOK, Like
<1>2. Isolated' = Isolated \union {b.command}
  <2>1. isolated' = Append(isolated, b.command)
    BY DEF Isolate
  <2>2. /\ DOMAIN isolated' = 1..Len(isolated) + 1
        /\ \A i \in 1..Len(isolated) : isolated'[i] = isolated[i]
        /\ isolated'[Len(isolated) + 1] = b.command
    BY <1>1, <2>1, AppendProperties, LenProperties
  <2>3. QED
    BY <1>1, <2>2 DEF Isolated
<1>3. CASE ActiveAt(b.command) = {}
  <2>1. active' = bases
    BY <1>3 DEF Isolate
  <2>2. b.command \notin Commands(active)
    BY <1>3 DEF ActiveAt, Commands
  <2>3. QED
    BY <1>1, <1>2, <2>1, <2>2
<1>4. CASE ActiveAt(b.command) # {}
  <2>1. PICK i \in Earliest(ActiveAt(b.command)) : active' = RemoveAt(bases, i)
    BY <1>4 DEF Isolate
  <2>2. i \in 1..Len(bases) /\ bases[i].command = b.command
    BY <1>1, <2>1 DEF Earliest, ActiveAt
  <2>3. QED
    BY <1>1, <1>2, <2>1, <2>2, RemoveBase
<1>5. QED
  BY <1>3, <1>4

\* The invariant holds initially.
LEMMA ListsInit == Init => ListsInv
<1> SUFFICES ASSUME Init
             PROVE  ListsInv
  OBVIOUS
<1>1. Isolated = {}
  BY DEF Init, Isolated
<1>2. Commands(active) = {NoUnit} /\ Distinct(active)
  BY DEF Init, Commands, Distinct
<1>3. QED
  BY <1>1, <1>2, BaseAssumption
     DEF BaseAssumption, Init, ListsInv, NoBaseLost, ActiveOnce,
         Unborn, Alive

\* Isolated bases are centers, active ones too, or the one without.
LEMMA ListsType ==
    ASSUME TypeOK
    PROVE  /\ Isolated \subseteq Center
           /\ Commands(active) \subseteq Center \union {NoUnit}
<1>1. DOMAIN isolated = 1..Len(isolated)
  BY LenProperties DEF TypeOK
<1>2. \A i \in 1..Len(isolated) : isolated[i] \in Center
  BY ElementOfSeq DEF TypeOK
<1>3. QED
  BY <1>1, <1>2, CommandsType DEF TypeOK, Isolated

\* Steps that move no base and by which no center is born or dies.
LEMMA ListsSame ==
    ASSUME TypeOK, ListsInv, Commands(active') = Commands(active),
           Distinct(active'), isolated' = isolated,
           \A c \in Center : Alive(c)' <=> Alive(c),
           \A c \in Center : status'[c] = "none" => status[c] = "none"
    PROVE  ListsInv'
<1>1. Isolated' = Isolated
  BY DEF Isolated
<1>2. NoBaseLost'
  BY <1>1 DEF ListsInv, NoBaseLost
<1>3. ActiveOnce'
  BY <1>1, ListsType DEF ListsInv, ActiveOnce
<1>4. Unborn'
  BY <1>1 DEF ListsInv, Unborn
<1>5. QED
  BY <1>2, <1>3, <1>4 DEF ListsInv

\* Steps of the game and events keep the invariant.
LEMMA ListsGame ==
    ASSUME TypeOK, ListsInv, Game \/ Events
    PROVE  ListsInv'
<1> USE DEF lists, loop, game
<1>1. CASE UNCHANGED <<lists, status>>
  BY <1>1, ListsSame DEF Alive, ListsInv, ActiveOnce
<1>2. ASSUME NEW c \in Center, Complete(c) \/ Uncover(c)
      PROVE  ListsInv'
  <2>1. /\ active' = active /\ isolated' = isolated /\ Alive(c)
        /\ \E y \in {"new", "ready"} : status' = [status EXCEPT ![c] = y]
    BY <1>2 DEF Complete, Uncover, Alive
  <2>2. /\ \A d \in Center : Alive(d)' <=> Alive(d)
        /\ \A d \in Center : status'[d] = "none" => status[d] = "none"
    BY <2>1 DEF Alive, TypeOK
  <2>3. QED
    BY <2>1, <2>2, ListsSame DEF ListsInv, ActiveOnce
<1>3. ASSUME NEW c \in Center, Start(c) \/ Create(c)
      PROVE  ListsInv'
  <2>1. /\ active' = WithBase(c) /\ isolated' = isolated /\ status[c] = "none"
        /\ \E y \in {"ready", "building"} : status' = [status EXCEPT ![c] = y]
    BY <1>3 DEF Start, Create
  <2>2. c \notin Isolated /\ c \notin Commands(active) /\ Isolated' = Isolated
    BY <2>1, BaseAssumption
       DEF BaseAssumption, ListsInv, ActiveOnce, Unborn, Alive, Isolated
  <2>3. /\ \A d \in Center : Alive(d)' <=> Alive(d) \/ d = c
        /\ \A d \in Center : status'[d] = "none" => status[d] = "none"
    BY <2>1 DEF Alive, TypeOK
  <2>4. /\ Commands(active') \subseteq Commands(active) \union {c}
        /\ Commands(active) \ {NoUnit} \subseteq Commands(active')
        /\ c \in Commands(active') /\ Distinct(active')
    BY <2>1, <2>2, WithBaseProperties DEF ListsInv, ActiveOnce
  <2>5. NoBaseLost'
    BY <2>2, <2>3, <2>4, BaseAssumption
       DEF BaseAssumption, ListsInv, NoBaseLost
  <2>6. ActiveOnce'
    BY <2>2, <2>3, <2>4, ListsType DEF ListsInv, ActiveOnce
  <2>7. Unborn'
    BY <2>2, <2>3 DEF ListsInv, Unborn
  <2>8. QED
    BY <2>5, <2>6, <2>7 DEF ListsInv
<1>4. ASSUME NEW c \in Center, Destroy(c)
      PROVE  ListsInv'
  <2>1. status' = [status EXCEPT ![c] = "dead"] /\ Forget(c)
    BY <1>4 DEF Destroy
  <2>2. /\ Distinct(active')
        /\ Commands(active') \subseteq Commands(active) \ {c}
        /\ Commands(active) \ {c} \subseteq Commands(active')
        /\ Isolated' \subseteq Isolated /\ Isolated \ {c} \subseteq Isolated'
    BY <2>1, ForgetLists DEF ListsInv, ActiveOnce
  <2>3. /\ \A d \in Center : Alive(d)' <=> Alive(d) /\ d # c
        /\ \A d \in Center : status'[d] = "none" => status[d] = "none"
    BY <2>1 DEF Alive, TypeOK
  <2>4. NoBaseLost'
    BY <2>2, <2>3 DEF ListsInv, NoBaseLost
  <2>5. ActiveOnce'
    BY <2>2, <2>3, ListsType DEF ListsInv, ActiveOnce
  <2>6. Unborn'
    BY <2>2, <2>3 DEF ListsInv, Unborn
  <2>7. QED
    BY <2>4, <2>5, <2>6 DEF ListsInv
<1>5. QED
  BY <1>1, <1>2, <1>3, <1>4
     DEF Game, Events, Deplete, LoseBuilder, Serve, AddScv, DeleteScv, DeleteScout

\* Steps of step() keep the invariant.
LEMMA ListsStep ==
    ASSUME TypeInv, ListsInv, StepBegin \/ Visit \/ ActiveDone \/ StepEnd
    PROVE  ListsInv'
<1> USE DEF lists, loop, game
<1>1. CASE UNCHANGED <<lists, status>>
  BY <1>1, ListsSame DEF TypeInv, Alive, ListsInv, ActiveOnce
<1>2. CASE Visit
  <2>1. status' = status /\ Here \in Base
    BY <1>2, VisitCases
  <2>2. /\ \A c \in Center : Alive(c)' <=> Alive(c)
        /\ \A c \in Center : status'[c] = "none" => status[c] = "none"
    BY <2>1 DEF Alive
  <2>3. ASSUME Observed(Here.command), Here.command \in Center,
               NEW bases, NEW rest, Turn(bases, rest)
        PROVE  ListsInv'
    <3>1. PICK v : /\ Marked(Here, v, bases, rest)
                   /\ GivesUp(Here, v, bases, rest) \/ Keeps(Here, v, bases, rest)
      BY <2>3 DEF Turn
    <3>2. /\ Like(active, bases) /\ Commands(bases) = Commands(active)
          /\ Distinct(bases) /\ TypeOK /\ Distinct(active)
      BY <3>1, LikeCommands DEF Marked, ListsInv, ActiveOnce, TypeInv
    <3>3. CASE Keeps(Here, v, bases, rest)
      BY <2>2, <3>2, <3>3, ListsSame DEF Keeps
    <3>4. CASE GivesUp(Here, v, bases, rest)
      <4>1. /\ Distinct(active')
            /\ Commands(active') = Commands(active) \ {Here.command}
            /\ Isolated' = Isolated \union {Here.command}
        BY <2>1, <2>3, <3>2, <3>4, IsolateSets DEF GivesUp
      <4>2. NoBaseLost'
        BY <2>2, <4>1 DEF ListsInv, NoBaseLost
      <4>3. ActiveOnce'
        BY <2>2, <3>2, <4>1, ListsType DEF ListsInv, ActiveOnce
      <4>4. Unborn'
        BY <2>1, <2>3, <4>1 DEF ListsInv, Unborn, Observed, Alive
      <4>5. QED
        BY <4>2, <4>3, <4>4 DEF ListsInv
    <3>5. QED
      BY <3>1, <3>3, <3>4
  <2>4. QED
    BY <1>1, <1>2, <2>1, <2>3, VisitCases
<1>3. QED
  BY <1>1, <1>2 DEF StepBegin, ActiveDone, StepEnd, Return

\* ListsInv is invariant.
LEMMA Listing == Spec => []ListsInv
<1>1. TypeInv /\ ListsInv /\ [Next]_vars => ListsInv'
  <2>1. ASSUME TypeInv, ListsInv, UNCHANGED vars
        PROVE  ListsInv'
    BY <2>1, ListsSame
       DEF vars, lists, game, TypeInv, Alive, ListsInv, ActiveOnce
  <2>2. QED
    BY <2>1, ListsGame, ListsStep DEF Next, TypeInv
<1>2. QED
  BY ListsInit, <1>1, Typing, PTL DEF Spec

\* No command center that stands or is being built is forgotten, although the
\* loop erases from the vector it runs over.
THEOREM NoneLost == Spec => []NoBaseLost
<1>1. ListsInv => NoBaseLost
  BY DEF ListsInv
<1>2. QED
  BY <1>1, Listing, PTL

\* Active bases are listed once, are not isolated, and are alive.
THEOREM OnceActive == Spec => []ActiveOnce
<1>1. ListsInv => ActiveOnce
  BY DEF ListsInv
<1>2. QED
  BY <1>1, Listing, PTL

\* A turn that gives a base up has found nothing there; where all is in view,
\* nothing is left.  No other step adds to the isolated ones.
LEMMA GivenUp ==
    ASSUME TypeInv, ListsInv, Next, NEW c \in Center,
           c \in Isolated' \ Isolated, status[c] = "ready"
    PROVE  field[c] = "none"
<1> USE DEF lists, loop, game
<1>1. isolated' # isolated
  BY DEF Isolated
<1>2. ASSUME NEW d \in Center, Forget(d)
      PROVE  FALSE
  BY <1>2, ForgetLists DEF TypeInv, ListsInv, ActiveOnce
<1>3. CASE Visit
  <2>1. /\ Here \in Base /\ Here.command \in Center
        /\ \E bases, rest : Turn(bases, rest)
    BY <1>1, <1>3, VisitCases
  <2>2. PICK bases, rest : Turn(bases, rest)
    BY <2>1
  <2>3. PICK v \in Found(Here.command) :
            /\ Marked(Here, v, bases, rest)
            /\ GivesUp(Here, v, bases, rest) \/ Keeps(Here, v, bases, rest)
    BY <2>2 DEF Turn
  <2>4. GivesUp(Here, v, bases, rest)
    BY <1>1, <2>3 DEF Keeps
  <2>5. Isolated' = Isolated \union {Here.command}
    BY <2>1, <2>3, <2>4, IsolateSets
       DEF Marked, GivesUp, TypeInv, ListsInv, ActiveOnce
  <2>6. v = "none" /\ v \in Found(c)
    BY <2>3, <2>4, <2>5 DEF GivesUp
  <2>7. QED
    BY <2>6 DEF Found
<1>4. QED
  BY <1>1, <1>2, <1>3
     DEF Next, Game, Events, Deplete, Complete, Uncover, LoseBuilder, Serve,
         Start, Create, Destroy, AddScv, DeleteScv, DeleteScout, StepBegin,
         ActiveDone, StepEnd

\* A base whose surroundings are in view is given up only when nothing is left
\* there, although step() visits slots it has erased from.
THEOREM OnlyDepletedIsolated == Spec => IsolatedDepleted
<1>1. TypeInv /\ ListsInv /\ [Next]_vars
          => [\A c \in Center : c \in Isolated' \ Isolated /\ status[c] = "ready"
                                    => field[c] = "none"]_vars
  BY GivenUp
<1>2. QED
  BY <1>1, Typing, Listing, PTL DEF Spec, IsolatedDepleted

------------------------------------------------------------------------------
(* A command center is asked for again                                       *)

NoEntry == Len(active) + Len(isolated) = 0
Recovering == requests > 0 \/ \E c \in Center : Alive(c)

\* step() has come past the loop over the active bases, with none left.
AboutToAsk ==
    /\ NoEntry
    /\ \/ phase = "active" /\ at > upTo
       \/ phase = "rest"

\* Without entries and without a center that is observed, step() changes no
\* list until it asks.
LEMMA NothingLeft ==
    ASSUME TypeInv, NoEntry, ~Recovering, ~Recovering', [Next]_vars
    PROVE  /\ NoEntry'
           /\ StepBegin => AboutToAsk'
           /\ AboutToAsk => AboutToAsk'
<1> USE DEF lists, game, loop
<1>1. /\ Len(active) \in Nat /\ Len(isolated) \in Nat /\ requests \in 0..MaxRequests
      /\ Len(active) = 0 /\ Len(isolated) = 0
      /\ \A c \in Center : ~Alive(c)
  BY LenProperties DEF TypeInv, TypeOK, NoEntry, Recovering
<1>2. CASE UNCHANGED <<lists, phase, at, upTo>>
  BY <1>2 DEF NoEntry, AboutToAsk, StepBegin
<1>3. ASSUME NEW c \in Center, Start(c) \/ Create(c)
      PROVE  FALSE
  <2>1. status' = [status EXCEPT ![c] = "ready"]
            \/ status' = [status EXCEPT ![c] = "building"]
    BY <1>3 DEF Start, Create
  <2>2. Alive(c)'
    BY <2>1 DEF Alive, TypeInv, TypeOK
  <2>3. QED
    BY <2>2 DEF Recovering
<1>4. ASSUME NEW c \in Center, Destroy(c)
      PROVE  FALSE
  BY <1>1, <1>4 DEF Destroy
<1>5. CASE StepBegin
  BY <1>1, <1>5 DEF StepBegin, NoEntry, AboutToAsk
<1>6. CASE Visit
  <2>1. phase = "active" /\ at <= upTo /\ Here \in Base
    BY <1>6, HereType DEF Visit
  <2>2. ~Observed(Here.command)
    BY <1>1, <2>1 DEF Observed, Base
  <2>3. UNCHANGED lists
    BY <1>6, <2>2 DEF Visit
  <2>4. ~AboutToAsk /\ ~StepBegin
    BY <2>1 DEF AboutToAsk, StepBegin, TypeInv, TypeOK
  <2>5. QED
    BY <2>3, <2>4 DEF NoEntry
<1>7. CASE ActiveDone
  BY <1>7 DEF ActiveDone, NoEntry, AboutToAsk, StepBegin
<1>8. CASE StepEnd
  <2>1. Isolated = {}
    <3>1. DOMAIN isolated = 1..Len(isolated)
      BY LenProperties DEF TypeInv, TypeOK
    <3>2. QED
      BY <1>1, <3>1 DEF Isolated
  <2>2. requests' = Requested(1)
    BY <1>1, <1>8, <2>1 DEF StepEnd, Wanted
  <2>3. requests' > 0
    BY <1>1, <2>2, BaseAssumption DEF BaseAssumption, Requested
  <2>4. QED
    BY <2>3 DEF Recovering
<1>9. QED
  BY <1>2, <1>3, <1>4, <1>5, <1>6, <1>7, <1>8
     DEF Next, Game, Events, Deplete, Complete, Uncover, LoseBuilder, Serve,
         AddScv, DeleteScv, DeleteScout, vars

\* A bot that has lost its last command center asks for another one, provided
\* that step() is called again and again.
THEOREM AsksWhenCalled == Spec /\ []<><<StepBegin>>_vars => AsksAgain
<1>1. TypeInv /\ NoEntry /\ ~Recovering /\ [Next]_vars
          => NoEntry' \/ Recovering'
  BY NothingLeft
<1>2. TypeInv /\ NoEntry /\ ~Recovering /\ [Next]_vars /\ <<StepBegin>>_vars
          => AboutToAsk' \/ Recovering'
  BY NothingLeft
<1>3. TypeInv /\ AboutToAsk /\ ~Recovering /\ [Next]_vars
          => AboutToAsk' \/ Recovering'
  BY NothingLeft DEF AboutToAsk
<1>4. AboutToAsk => ~StepBegin
  BY DEF AboutToAsk, StepBegin
<1>5. Spec /\ []<><<StepBegin>>_vars => (NoEntry ~> Recovering)
  BY <1>1, <1>2, <1>3, <1>4, Typing, PTL DEF Spec
<1>6. QED
  BY <1>5 DEF AsksAgain, NoEntry, Recovering

------------------------------------------------------------------------------
(* Depleted bases are moved                                                  *)

\* The base without a command center is the only one while it is there.
FirstAlone == NoUnit \in Commands(active) => Commands(active) = {NoUnit}

\* Every step keeps the first base alone.
LEMMA FirstAloneStep ==
    ASSUME TypeInv, ListsInv, FirstAlone, [Next]_vars
    PROVE  FirstAlone'
<1> USE DEF lists, game, loop
<1>1. /\ active \in Seq(Base) /\ Len(active) \in Nat
      /\ DOMAIN active = 1..Len(active)
      /\ Distinct(active) /\ NoUnit \notin Center /\ TypeOK
  BY LenProperties, BaseAssumption
     DEF BaseAssumption, TypeInv, TypeOK, ListsInv, ActiveOnce
<1>2. CASE Commands(active') = Commands(active)
  BY <1>2 DEF FirstAlone
<1>3. ASSUME NEW c \in Center, active' = WithBase(c)
      PROVE  FirstAlone'
  <2>1. CASE NoUnit \notin Commands(active)
    BY <1>1, <1>3, <2>1, WithBaseProperties DEF FirstAlone
  <2>2. CASE NoUnit \in Commands(active)
    <3>1. \A i, j \in 1..Len(active) : i = j /\ active[i].command = NoUnit
      BY <1>1, <2>2 DEF FirstAlone, Commands, Distinct
    <3>2. Len(active) = 1 /\ active[1].command = NoUnit
      <4>1. PICK i \in 1..Len(active) : TRUE
        BY <1>1, <2>2 DEF Commands
      <4>2. 1 \in 1..Len(active) /\ Len(active) \in 1..Len(active)
        BY <1>1, <4>1
      <4>3. QED
        BY <3>1, <4>2
    <3>3. WithBase(c) = <<[active[1] EXCEPT !.command = c]>>
      BY <3>2 DEF WithBase
    <3>4. active[1] \in Base
      BY <1>1, <3>2, ElementOfSeq
    <3>5. Commands(active') = {c}
      BY <1>3, <3>3, <3>4 DEF Commands, Base
    <3>6. QED
      BY <1>1, <3>5 DEF FirstAlone
  <2>3. QED
    BY <2>1, <2>2
<1>4. ASSUME NEW c \in Center, Commands(active') = Commands(active) \ {c}
      PROVE  FirstAlone'
  BY <1>1, <1>4 DEF FirstAlone
<1>5. ASSUME NEW c \in Center, Forget(c)
      PROVE  FirstAlone'
  BY <1>1, <1>4, <1>5, ForgetLists
<1>6. CASE Visit
  <2>1. phase = "active" /\ at <= upTo /\ Here \in Base
    BY <1>6, HereType DEF Visit
  <2>2. ASSUME Here.command \in Center, NEW bases, NEW rest, Turn(bases, rest)
        PROVE  FirstAlone'
    <3>1. PICK v : /\ Marked(Here, v, bases, rest)
                   /\ GivesUp(Here, v, bases, rest) \/ Keeps(Here, v, bases, rest)
      BY <2>2 DEF Turn
    <3>2. Like(active, bases)
      BY <3>1 DEF Marked
    <3>3. CASE Keeps(Here, v, bases, rest)
      BY <1>2, <3>2, <3>3, LikeCommands DEF Keeps
    <3>4. CASE GivesUp(Here, v, bases, rest)
      BY <1>1, <1>4, <2>1, <2>2, <3>2, <3>4, IsolateSets DEF GivesUp
    <3>5. QED
      BY <3>1, <3>3, <3>4
  <2>3. QED
    BY <1>2, <1>6, <2>2, VisitCases
<1>7. CASE active' = active
  BY <1>2, <1>7
<1>8. QED
  BY <1>3, <1>5, <1>6, <1>7
     DEF Next, Game, Events, Deplete, Complete, Uncover, LoseBuilder, Serve,
         Start, Create, Destroy, AddScv, DeleteScv, DeleteScout, StepBegin, ActiveDone,
         StepEnd, vars

\* FirstAlone is invariant.
LEMMA FirstIsAlone == Spec => []FirstAlone
<1>1. Init => FirstAlone
  BY DEF Init, FirstAlone, Commands
<1>2. QED
  BY <1>1, FirstAloneStep, Typing, Listing, PTL DEF Spec

LoopFacts == TypeInv /\ ListsInv /\ FirstAlone

\* A center with nothing left around it.
Depleted(c) == status[c] = "ready" /\ field[c] = "none"

\* Its base is in slot p, with flag transfer f.
InSlot(c, p, f) ==
    /\ p \in DOMAIN active
    /\ active[p].command = c /\ active[p].transfer = f

\* Its base is in an earlier slot, or in this one with the flag set since: one
\* visit of the loop fewer is needed to move it.
Nearer(c, p, f) ==
    \E q \in DOMAIN active :
        /\ active[q].command = c
        /\ q < p \/ (q = p /\ ~f /\ active[q].transfer)

Moved(c) == c \notin Commands(active)

\* Where a base is after another one was erased, in this list or in one that is
\* alike.
LEMMA SlotAfterErase ==
    ASSUME TypeOK, NEW c \in Center, NEW p, NEW f \in BOOLEAN, InSlot(c, p, f),
           NEW bases, Like(active, bases), bases[p] = active[p],
           NEW k \in DOMAIN active, active[k].command # c,
           active' = RemoveAt(bases, k)
    PROVE  /\ p < k => InSlot(c, p, f)'
           /\ k < p => Nearer(c, p, f)'
           /\ p < k \/ k < p
<1>1. /\ bases \in Seq(Base) /\ Len(bases) \in Nat /\ DOMAIN active = 1..Len(bases)
      /\ p \in 1..Len(bases) /\ k \in 1..Len(bases) /\ p # k
  BY LenProperties DEF TypeOK, InSlot, Like
<1>2. /\ DOMAIN active' = 1..Len(bases) - 1
      /\ \A i \in 1..Len(bases) - 1 :
            active'[i] = IF i < k THEN bases[i] ELSE bases[i + 1]
  <2>1. /\ active' \in Seq(Base) /\ Len(active') = Len(bases) - 1
        /\ \A i \in 1..Len(bases) - 1 :
              active'[i] = IF i < k THEN bases[i] ELSE bases[i + 1]
    BY <1>1, RemoveAtProperties
  <2>2. QED
    BY <2>1, LenProperties
<1>3. CASE p < k
  <2>1. p \in 1..Len(bases) - 1
    BY <1>1, <1>3
  <2>2. active'[p] = active[p]
    BY <1>2, <1>3, <2>1
  <2>3. QED
    BY <1>1, <1>2, <1>3, <2>1, <2>2 DEF InSlot
<1>4. CASE k < p
  <2>1. p - 1 \in 1..Len(bases) - 1 /\ ~(p - 1 < k) /\ p - 1 + 1 = p
    BY <1>1, <1>4
  <2>2. active'[p - 1] = active[p]
    BY <1>2, <2>1
  <2>3. p - 1 < p
    BY <1>1
  <2>4. QED
    BY <1>1, <1>2, <1>4, <2>1, <2>2, <2>3 DEF InSlot, Nearer
<1>5. QED
  BY <1>1, <1>3, <1>4

\* Where a base is after one turn of the loop: in its slot unless it was
\* visited there or one before it was moved.
LEMMA SlotVisit ==
    ASSUME LoopFacts, NEW c \in Center, NEW p, NEW f \in BOOLEAN,
           Depleted(c), InSlot(c, p, f), Visit
    PROVE  \/ Moved(c)'
           \/ Nearer(c, p, f)'
           \/ InSlot(c, p, f)' /\ (at <= p => phase' = "active" /\ at' <= p)
<1> USE DEF lists, game, loop, LoopFacts
<1>1. /\ active \in Seq(Base) /\ Len(active) \in Nat
      /\ DOMAIN active = 1..Len(active)
      /\ p \in 1..Len(active) /\ at \in Nat \ {0} /\ c \in Commands(active)
      /\ Distinct(active) /\ TypeOK /\ c # NoUnit
  BY LenProperties, BaseAssumption
     DEF BaseAssumption, TypeInv, TypeOK, ListsInv, ActiveOnce, InSlot, Commands
<1>2. phase = "active" /\ at <= upTo /\ Here \in Base
  BY HereType DEF Visit
<1>3. ASSUME at <= p
      PROVE  /\ at \in 1..Len(active) /\ Here = active[at]
             /\ Observed(Here.command)
  <2>1. at \in 1..Len(active) /\ Here = active[at]
    BY <1>1, <1>3 DEF Here
  <2>2. Here.command \in Commands(active)
    BY <1>1, <2>1 DEF Commands
  <2>3. Here.command # NoUnit
    BY <1>1, <2>2 DEF FirstAlone
  <2>4. Alive(Here.command)
    BY <2>2, <2>3 DEF ListsInv, ActiveOnce
  <2>5. QED
    BY <2>1, <2>3, <2>4 DEF Observed
<1>4. CASE Return /\ UNCHANGED <<lists, requests>> /\ ~Observed(Here.command)
  BY <1>3, <1>4 DEF InSlot
<1>5. at = p => Here.command = c /\ Here.transfer = f
  BY <1>1, <1>3 DEF InSlot
<1>6. CASE /\ Advance /\ UNCHANGED <<lists, requests, stale>>
           /\ status[Here.command] = "building"
  <2>1. InSlot(c, p, f)' /\ phase' = "active" /\ at' = at + 1
    BY <1>2, <1>6 DEF InSlot, Advance
  <2>2. at # p
    BY <1>5, <1>6 DEF Depleted
  <2>3. QED
    BY <1>1, <2>1, <2>2
<1>7. ASSUME Here.command \in Center, Advance, NEW bases, NEW rest,
             Turn(bases, rest)
      PROVE  \/ Moved(c)'
             \/ Nearer(c, p, f)'
             \/ InSlot(c, p, f)' /\ (at <= p => phase' = "active" /\ at' <= p)
  <2>1. PICK v \in Found(Here.command) :
            /\ Marked(Here, v, bases, rest)
            /\ GivesUp(Here, v, bases, rest) \/ Keeps(Here, v, bases, rest)
    BY <1>7 DEF Turn
  <2>2. /\ phase' = "active" /\ at' = at + 1
        /\ Like(active, bases) /\ (at # p => bases[p] = active[p])
    BY <1>1, <1>2, <1>7, <2>1 DEF Advance, Marked
  <2>3. ASSUME at = p
        PROVE  Asks(Here, v) <=> ~f
    <3>1. v = "none" /\ ~Many(Here.command)
      BY <1>5, <2>1, <2>3 DEF Depleted, Found, Many
    <3>2. QED
      BY <1>5, <2>3, <3>1 DEF Asks, RunsOut
  <2>4. CASE Keeps(Here, v, bases, rest)
    <3>1. active' = bases
      BY <2>4 DEF Keeps
    <3>2. CASE at = p
      <4>1. v = "none"
        BY <1>5, <2>1, <3>2 DEF Depleted, Found
      <4>2. Asks(Here, v) /\ ~f
        BY <2>3, <2>4, <3>2, <4>1 DEF Keeps
      <4>3. bases[p].transfer
        BY <1>1, <2>1, <3>2, <4>2 DEF Asks, Marked
      <4>4. p \in DOMAIN active' /\ active'[p].command = c
        BY <1>1, <2>2, <3>1 DEF Like, InSlot
      <4>5. QED
        BY <3>1, <4>2, <4>3, <4>4 DEF Nearer
    <3>3. CASE at # p
      <4>1. p \in DOMAIN active' /\ active'[p] = active[p]
        BY <1>1, <2>2, <3>1, <3>3 DEF Like
      <4>2. InSlot(c, p, f)'
        BY <4>1 DEF InSlot
      <4>3. QED
        BY <1>1, <2>2, <3>3, <4>2
    <3>4. QED
      BY <3>2, <3>3
  <2>5. CASE GivesUp(Here, v, bases, rest) /\ Here.command = c
    <3>1. Commands(active') = Commands(active) \ {c}
      BY <1>1, <1>2, <1>7, <2>2, <2>5, IsolateSets DEF GivesUp
    <3>2. QED
      BY <3>1 DEF Moved
  <2>6. CASE GivesUp(Here, v, bases, rest) /\ Here.command # c
    <3>1. at # p /\ bases[p] = active[p]
      BY <1>5, <2>2, <2>6
    <3>2. CASE ActiveAt(Here.command) = {}
      <4>1. active' = bases
        BY <2>6, <3>2 DEF GivesUp, Isolate
      <4>2. ~(at <= p)
        BY <1>1, <1>3, <3>2 DEF ActiveAt
      <4>3. p \in DOMAIN active' /\ active'[p] = active[p]
        BY <1>1, <2>2, <3>1, <4>1 DEF Like
      <4>4. QED
        BY <4>2, <4>3 DEF InSlot
    <3>3. CASE ActiveAt(Here.command) # {}
      <4>1. PICK k \in Earliest(ActiveAt(Here.command)) : active' = RemoveAt(bases, k)
        BY <2>6, <3>3 DEF GivesUp, Isolate
      <4>2. k \in DOMAIN active /\ active[k].command = Here.command
        BY <4>1 DEF Earliest, ActiveAt
      <4>3. /\ p < k => InSlot(c, p, f)'
            /\ k < p => Nearer(c, p, f)'
            /\ p < k \/ k < p
        BY <1>1, <2>2, <2>6, <3>1, <4>1, <4>2, SlotAfterErase
      <4>4. at <= p => k = at
        BY <1>1, <1>3, <4>2 DEF Distinct
      <4>5. QED
        BY <1>1, <2>2, <3>1, <4>2, <4>3, <4>4
    <3>4. QED
      BY <3>2, <3>3
  <2>7. QED
    BY <2>1, <2>4, <2>5, <2>6
<1>8. QED
  BY <1>4, <1>6, <1>7, VisitCases

\* Where a base is after any step.
LEMMA SlotStep ==
    ASSUME LoopFacts, NEW c \in Center, NEW p, NEW f \in BOOLEAN,
           Depleted(c), InSlot(c, p, f), [Next]_vars
    PROVE  \/ Moved(c)'
           \/ Depleted(c)' /\ (Nearer(c, p, f)' \/ InSlot(c, p, f)')
<1> USE DEF lists, game, loop, LoopFacts
<1>1. /\ active \in Seq(Base) /\ Len(active) \in Nat
      /\ DOMAIN active = 1..Len(active)
      /\ p \in 1..Len(active) /\ c \in Commands(active)
      /\ Distinct(active) /\ TypeOK /\ c # NoUnit
  BY LenProperties, BaseAssumption
     DEF BaseAssumption, TypeInv, TypeOK, ListsInv, ActiveOnce, InSlot, Commands
<1>2. CASE UNCHANGED <<active, status, field>>
  BY <1>2 DEF Depleted, InSlot
<1>3. ASSUME NEW d \in Center, Deplete(d) \/ Complete(d) \/ Uncover(d)
      PROVE  Depleted(c)' /\ InSlot(c, p, f)'
  <2>1. active' = active
    BY <1>3 DEF Deplete, Complete, Uncover
  <2>2. Depleted(c)'
    BY <1>1, <1>3 DEF Deplete, Less, Complete, Uncover, Depleted, TypeOK
  <2>3. QED
    BY <2>1, <2>2 DEF InSlot
<1>4. ASSUME NEW d \in Center, Start(d) \/ Create(d)
      PROVE  Depleted(c)' /\ InSlot(c, p, f)'
  <2>1. /\ status[d] = "none" /\ active' = WithBase(d) /\ field' = field
        /\ \E y \in {"ready", "building"} : status' = [status EXCEPT ![d] = y]
    BY <1>4 DEF Start, Create
  <2>2. d # c /\ Depleted(c)'
    BY <1>1, <2>1 DEF Depleted, TypeOK
  <2>3. ~(Len(active) = 1 /\ active[1].command = NoUnit)
    BY <1>1 DEF InSlot
  <2>4. active' = Append(active, NewBase(d)) /\ NewBase(d) \in Base
    BY <2>1, <2>3 DEF WithBase, NewBase, Base
  <2>5. /\ DOMAIN active' = 1..Len(active) + 1
        /\ active'[p] = active[p]
    BY <1>1, <2>4, AppendProperties, LenProperties
  <2>6. QED
    BY <1>1, <2>2, <2>5 DEF InSlot
<1>5. ASSUME NEW d \in Center, Destroy(d)
      PROVE  \/ Moved(c)'
             \/ Depleted(c)' /\ (Nearer(c, p, f)' \/ InSlot(c, p, f)')
  <2>1. /\ field' = [field EXCEPT ![d] = "rich"]
        /\ status' = [status EXCEPT ![d] = "dead"] /\ Forget(d)
    BY <1>5 DEF Destroy
  <2>2. CASE d = c
    <3>1. Commands(active') \subseteq Commands(active) \ {c}
      BY <1>1, <2>1, <2>2, ForgetLists
    <3>2. QED
      BY <3>1 DEF Moved
  <2>3. CASE d # c
    <3>1. Depleted(c)'
      BY <1>1, <2>1, <2>3 DEF Depleted, TypeOK
    <3>2. CASE active' = active
      BY <3>1, <3>2 DEF InSlot
    <3>3. ASSUME NEW k \in Earliest(ActiveAt(d)), active' = RemoveAt(active, k)
          PROVE  Nearer(c, p, f)' \/ InSlot(c, p, f)'
      <4>1. k \in DOMAIN active /\ active[k].command # c
        BY <2>3, <3>3 DEF Earliest, ActiveAt
      <4>2. QED
        BY <1>1, <3>3, <4>1, SlotAfterErase DEF Like
    <3>4. QED
      BY <2>1, <3>1, <3>2, <3>3 DEF Forget
  <2>4. QED
    BY <2>2, <2>3
<1>6. CASE Visit
  <2>1. Depleted(c)'
    BY <1>6 DEF Visit, Depleted
  <2>2. QED
    BY <1>6, <2>1, SlotVisit
<1>7. QED
  BY <1>2, <1>3, <1>4, <1>5, <1>6
     DEF Next, Game, Events, LoseBuilder, Serve, AddScv, DeleteScv, DeleteScout,
         StepBegin, ActiveDone, StepEnd, Return, vars

\* The loop has not come to the slot of the base yet.
Ahead(c, p, f) ==
    /\ phase = "active" /\ at <= p /\ p <= upTo
    /\ Depleted(c) /\ InSlot(c, p, f)

\* step() comes to it, whatever it erases before.
LEMMA AheadStep ==
    ASSUME LoopFacts, NEW c \in Center, NEW p, NEW f \in BOOLEAN,
           Ahead(c, p, f), [Next]_vars
    PROVE  Ahead(c, p, f)' \/ Moved(c)' \/ (Depleted(c)' /\ Nearer(c, p, f)')
<1> USE DEF lists, game, loop
<1>1. Depleted(c) /\ InSlot(c, p, f) /\ at <= p /\ p <= upTo /\ phase = "active"
  BY DEF Ahead
<1>2. CASE UNCHANGED vars
  BY <1>2 DEF vars, Ahead, Depleted, InSlot
<1>3. CASE Visit
  <2>1. upTo' = upTo \/ phase' # "active"
    BY <1>1, <1>3 DEF Visit, Advance, Return
  <2>2. Depleted(c)'
    BY <1>1, <1>3 DEF Visit, Depleted
  <2>3. \/ Moved(c)'
        \/ Nearer(c, p, f)'
        \/ InSlot(c, p, f)' /\ phase' = "active" /\ at' <= p
    BY <1>1, <1>3, SlotVisit
  <2>4. QED
    BY <1>1, <2>1, <2>2, <2>3 DEF Ahead
<1>4. CASE Next /\ ~Visit
  <2>1. at \in Nat /\ upTo \in Nat /\ p \in Nat
    BY <1>1, LenProperties DEF LoopFacts, TypeInv, TypeOK, InSlot
  <2>2. QED
    BY <1>1, <1>4, <2>1
       DEF Next, Game, Events, Deplete, Complete, Uncover, LoseBuilder, Serve,
           Start, Create, Destroy, AddScv, DeleteScv, DeleteScout, StepBegin,
           ActiveDone, StepEnd
<1>5. QED
  BY <1>2, <1>3, <1>4

\* step() begins with the loop ahead of every slot.
LEMMA AheadAtStart ==
    ASSUME LoopFacts, NEW c \in Center, NEW p, NEW f \in BOOLEAN,
           Depleted(c), InSlot(c, p, f), StepBegin
    PROVE  Ahead(c, p, f)'
<1>1. p \in 1..Len(active) /\ Len(active) \in Nat
  BY LenProperties DEF LoopFacts, TypeInv, TypeOK, InSlot
<1>2. /\ UNCHANGED <<active, status, field>>
      /\ phase' = "active" /\ at' = 1 /\ upTo' = Len(active)
  BY DEF StepBegin, lists, game
<1>3. Depleted(c)' /\ InSlot(c, p, f)'
  BY <1>2 DEF Depleted, InSlot
<1>4. QED
  BY <1>1, <1>2, <1>3 DEF Ahead

\* The facts of the loop hold in every state.
LEMMA Looping == Spec => []LoopFacts
BY Typing, Listing, FirstIsAlone, PTL DEF LoopFacts

\* Each call of step() brings a base with nothing left around it closer to the
\* isolated ones: it is moved, destroyed, or in an earlier slot, or has had the
\* flag set.  A base can be passed over by the loop when one before it is
\* erased, but it then is in an earlier slot.
THEOREM DepletedComesNearer ==
    ASSUME NEW c \in Center, NEW p, NEW f \in BOOLEAN
    PROVE  Spec /\ []<><<StepBegin>>_vars
               => (Depleted(c) /\ InSlot(c, p, f)
                     ~> Moved(c) \/ (Depleted(c) /\ Nearer(c, p, f)))
<1>1. LoopFacts /\ Depleted(c) /\ InSlot(c, p, f) /\ [Next]_vars
          => \/ Moved(c)'
             \/ Depleted(c)' /\ Nearer(c, p, f)'
             \/ Depleted(c)' /\ InSlot(c, p, f)'
  BY SlotStep
<1>2. LoopFacts /\ Depleted(c) /\ InSlot(c, p, f) /\ <<StepBegin>>_vars
          => Ahead(c, p, f)'
  BY AheadAtStart
<1>3. LoopFacts /\ Ahead(c, p, f) /\ [Next]_vars
          => \/ Ahead(c, p, f)'
             \/ Moved(c)'
             \/ Depleted(c)' /\ Nearer(c, p, f)'
  BY AheadStep
<1>4. Ahead(c, p, f) => ~StepBegin
  BY DEF Ahead, StepBegin
<1>5. QED
  BY <1>1, <1>2, <1>3, <1>4, Looping, PTL DEF Spec

\* A base with nothing left, in slot p, or in one of the first n.
Waits(c, p, f) == Depleted(c) /\ InSlot(c, p, f)

Within(c, n) ==
    /\ Depleted(c)
    /\ \E q \in DOMAIN active : active[q].command = c /\ q <= n

\* What two calls of step() do for a base in slot p, n = p - 1: the first may
\* only set its flag, the second moves it, and where the loop passes it over it
\* is in one of the first n slots.
SlotFacts(c, p, n) ==
    /\ LoopFacts /\ Within(c, p)
           => Within(c, n) \/ Waits(c, p, TRUE) \/ Waits(c, p, FALSE)
    /\ LoopFacts /\ Waits(c, p, TRUE) /\ [Next]_vars
           => Moved(c)' \/ Within(c, n)' \/ Waits(c, p, TRUE)'
    /\ LoopFacts /\ Waits(c, p, FALSE) /\ [Next]_vars
           => Moved(c)' \/ Within(c, n)' \/ Waits(c, p, TRUE)' \/ Waits(c, p, FALSE)'
    /\ LoopFacts /\ Waits(c, p, TRUE) /\ <<StepBegin>>_vars => Ahead(c, p, TRUE)'
    /\ LoopFacts /\ Waits(c, p, FALSE) /\ <<StepBegin>>_vars => Ahead(c, p, FALSE)'
    /\ LoopFacts /\ Ahead(c, p, TRUE) /\ [Next]_vars
           => Ahead(c, p, TRUE)' \/ Moved(c)' \/ Within(c, n)'
    /\ LoopFacts /\ Ahead(c, p, FALSE) /\ [Next]_vars
           => \/ Ahead(c, p, FALSE)'
              \/ Moved(c)' \/ Within(c, n)' \/ Waits(c, p, TRUE)'
    /\ Ahead(c, p, TRUE) \/ Ahead(c, p, FALSE) => ~StepBegin

\* Nearer, in numbers, after a step.
LEMMA NearerWithin ==
    ASSUME active' \in Seq(Base), NEW c \in Center, NEW n \in Nat, NEW p, p = n + 1,
           NEW f \in BOOLEAN, Depleted(c)', Nearer(c, p, f)'
    PROVE  Within(c, n)' \/ (~f /\ Waits(c, p, TRUE)')
<1>1. DOMAIN active' = 1..Len(active') /\ Len(active') \in Nat
  BY LenProperties
<1>2. PICK q \in DOMAIN active' :
          /\ active'[q].command = c
          /\ q < p \/ (q = p /\ ~f /\ active'[q].transfer)
  BY DEF Nearer
<1>3. active'[q] \in Base
  BY <1>1, <1>2, ElementOfSeq
<1>4. CASE q < p
  <2>1. q <= n
    BY <1>1, <1>2, <1>4
  <2>2. QED
    BY <1>2, <2>1 DEF Within
<1>5. CASE q = p /\ ~f /\ active'[q].transfer
  BY <1>2, <1>3, <1>5 DEF Waits, InSlot, Base
<1>6. QED
  BY <1>2, <1>4, <1>5

\* Where it is, in numbers.
LEMMA WithinSlot ==
    ASSUME LoopFacts, NEW c \in Center, NEW n \in Nat, NEW p, p = n + 1, Within(c, p)
    PROVE  Within(c, n) \/ Waits(c, p, TRUE) \/ Waits(c, p, FALSE)
<1>1. active \in Seq(Base) /\ DOMAIN active = 1..Len(active) /\ Len(active) \in Nat
  BY LenProperties DEF LoopFacts, TypeInv, TypeOK
<1>2. PICK q \in DOMAIN active : active[q].command = c /\ q <= p
  BY DEF Within
<1>3. active[q] \in Base
  BY <1>1, <1>2, ElementOfSeq
<1>4. CASE q <= n
  BY <1>2, <1>4 DEF Within
<1>5. CASE ~(q <= n)
  <2>1. q = p
    BY <1>1, <1>2, <1>5
  <2>2. QED
    BY <1>2, <1>3, <2>1 DEF Within, Waits, InSlot, Base
<1>6. QED
  BY <1>4, <1>5

\* The facts hold for every slot.
LEMMA SlotProgress ==
    ASSUME NEW c \in Center, NEW n \in Nat, NEW p, p = n + 1
    PROVE  SlotFacts(c, p, n)
<1>0. LoopFacts /\ [Next]_vars => active' \in Seq(Base)
  BY TypeNext DEF LoopFacts, TypeInv, TypeOK
<1>1. ASSUME LoopFacts, NEW f \in BOOLEAN, Waits(c, p, f), [Next]_vars
      PROVE  \/ Moved(c)'
             \/ Within(c, n)' \/ (~f /\ Waits(c, p, TRUE)')
             \/ Waits(c, p, f)'
  <2>1. \/ Moved(c)'
        \/ Depleted(c)' /\ (Nearer(c, p, f)' \/ InSlot(c, p, f)')
    BY <1>1, SlotStep DEF Waits
  <2>2. CASE Depleted(c)' /\ Nearer(c, p, f)'
    BY <1>1, <2>2, <1>0, NearerWithin
  <2>3. QED
    BY <2>1, <2>2 DEF Waits
<1>2. ASSUME LoopFacts, NEW f \in BOOLEAN, Ahead(c, p, f), [Next]_vars
      PROVE  \/ Ahead(c, p, f)' \/ Moved(c)'
             \/ Within(c, n)' \/ (~f /\ Waits(c, p, TRUE)')
  <2>1. Ahead(c, p, f)' \/ Moved(c)' \/ (Depleted(c)' /\ Nearer(c, p, f)')
    BY <1>2, AheadStep
  <2>2. CASE Depleted(c)' /\ Nearer(c, p, f)'
    BY <1>2, <2>2, <1>0, NearerWithin
  <2>3. QED
    BY <2>1, <2>2
<1>3. ASSUME LoopFacts, NEW f \in BOOLEAN, Waits(c, p, f), StepBegin
      PROVE  Ahead(c, p, f)'
  BY <1>3, AheadAtStart DEF Waits
<1>4. ASSUME NEW f \in BOOLEAN, Ahead(c, p, f)
      PROVE  ~StepBegin
  BY <1>4 DEF Ahead, StepBegin
<1>5. QED
  BY <1>1, <1>2, <1>3, <1>4, WithinSlot DEF SlotFacts

\* A base with nothing left around it is moved in the end, where there are not
\* more than four active ones at a time and step() is called again and again.
\* Four is as far as the chain of slots is written out; each further slot needs
\* one more link of the same kind.
THEOREM DepletedMovedWhenCalled ==
    Spec /\ [](Len(active) <= 4) /\ []<><<StepBegin>>_vars => DepletedMoved
<1>1. SUFFICES ASSUME NEW c \in Center
               PROVE  Spec /\ [](Len(active) <= 4) /\ []<><<StepBegin>>_vars
                        => (status[c] = "ready" /\ field[c] = "none"
                              ~> c \notin Commands(active))
  BY DEF DepletedMoved
<1>2. LoopFacts /\ Len(active) <= 4 /\ Depleted(c) => Moved(c) \/ Within(c, 4)
  <2>1. SUFFICES ASSUME LoopFacts, Len(active) <= 4, Depleted(c), ~Moved(c)
                 PROVE  Within(c, 4)
    OBVIOUS
  <2>2. DOMAIN active = 1..Len(active) /\ Len(active) \in Nat
    BY <2>1, LenProperties DEF LoopFacts, TypeInv, TypeOK
  <2>3. QED
    BY <2>1, <2>2 DEF Moved, Commands, Within
<1>3. /\ SlotFacts(c, 4, 3) /\ SlotFacts(c, 3, 2)
      /\ SlotFacts(c, 2, 1) /\ SlotFacts(c, 1, 0)
  BY SlotProgress
<1>4. Spec /\ []<><<StepBegin>>_vars => (Within(c, 4) ~> Moved(c) \/ Within(c, 3))
  <2>1. SlotFacts(c, 4, 3)
    BY <1>3
  <2>2. QED
    BY <2>1, Looping, PTL DEF Spec, SlotFacts
<1>5. Spec /\ []<><<StepBegin>>_vars => (Within(c, 3) ~> Moved(c) \/ Within(c, 2))
  <2>1. SlotFacts(c, 3, 2)
    BY <1>3
  <2>2. QED
    BY <2>1, Looping, PTL DEF Spec, SlotFacts
<1>6. Spec /\ []<><<StepBegin>>_vars => (Within(c, 2) ~> Moved(c) \/ Within(c, 1))
  <2>1. SlotFacts(c, 2, 1)
    BY <1>3
  <2>2. QED
    BY <2>1, Looping, PTL DEF Spec, SlotFacts
<1>7. Spec /\ []<><<StepBegin>>_vars => (Within(c, 1) ~> Moved(c) \/ Within(c, 0))
  <2>1. SlotFacts(c, 1, 0)
    BY <1>3
  <2>2. QED
    BY <2>1, Looping, PTL DEF Spec, SlotFacts
<1>8. LoopFacts => ~Within(c, 0)
  BY LenProperties DEF LoopFacts, TypeInv, TypeOK, Within
<1>9. Spec /\ [](Len(active) <= 4) /\ []<><<StepBegin>>_vars
          => (Depleted(c) ~> Moved(c))
  BY <1>2, <1>4, <1>5, <1>6, <1>7, <1>8, Looping, PTL
<1>10. QED
  BY <1>9 DEF Depleted, Moved

------------------------------------------------------------------------------
(* Two bases at a time                                                       *)

\* No center is twice among the isolated ones, all are alive, and the loop of
\* step() comes only to bases that are active: what erase has left behind the
\* end of a vector of two is the base it has moved to the front.
TwoInv ==
    /\ \A i, j \in DOMAIN isolated : isolated[i] = isolated[j] => i = j
    /\ \A c \in Isolated : Alive(c)
    /\ phase = "active" =>
          /\ upTo <= 2
          /\ at = 1 => Len(active) = upTo
          /\ at = 2 /\ upTo = 2 /\ Len(active) < 2 =>
                Len(active) = 1 /\ Here.command = active[1].command

\* A center that is listed once is not listed any more when it is taken off.
LEMMA RemovedForGood ==
    ASSUME TypeOK, \A i, j \in DOMAIN isolated : isolated[i] = isolated[j] => i = j,
           NEW k \in DOMAIN isolated, isolated' = RemoveAt(isolated, k)
    PROVE  /\ \A i, j \in DOMAIN isolated' : isolated'[i] = isolated'[j] => i = j
           /\ Isolated' \subseteq Isolated \ {isolated[k]}
<1> DEFINE n == Len(isolated)
           From(i) == IF i < k THEN i ELSE i + 1
<1>1. /\ n \in Nat /\ DOMAIN isolated = 1..n /\ DOMAIN isolated' = 1..n - 1
      /\ \A i \in 1..n - 1 : isolated'[i] = isolated[From(i)]
  <2>1. isolated \in Seq(Center) /\ n \in Nat /\ DOMAIN isolated = 1..n
    BY LenProperties DEF TypeOK
  <2>2. /\ isolated' \in Seq(Center) /\ Len(isolated') = n - 1
        /\ \A i \in 1..n - 1 :
              isolated'[i] = IF i < k THEN isolated[i] ELSE isolated[i + 1]
    BY <2>1, RemoveAtProperties
  <2>3. QED
    BY <2>1, <2>2, LenProperties
<1>2. \A i \in 1..n - 1 : From(i) \in 1..n /\ From(i) # k
  BY <1>1
<1>3. \A i, j \in 1..n - 1 : From(i) = From(j) => i = j
  BY <1>1
<1> HIDE DEF n, From
<1>4. QED
  BY <1>1, <1>2, <1>3 DEF Isolated

\* The loop comes to active bases only.
LEMMA HereActive ==
    ASSUME TypeInv, TwoInv, phase = "active", at <= upTo
    PROVE  /\ Here.command \in Commands(active)
           /\ at \in {1, 2} /\ upTo \in {1, 2}
           /\ at = 1 => Len(active) = upTo /\ Here = active[1]
<1>1. /\ Len(active) \in Nat /\ DOMAIN active = 1..Len(active)
      /\ at \in Nat \ {0} /\ upTo \in Nat /\ upTo <= 2
  BY LenProperties DEF TypeInv, TypeOK, TwoInv
<1>2. at \in {1, 2} /\ upTo \in {1, 2}
  BY <1>1
<1>3. CASE at = 1
  <2>1. Len(active) = upTo
    BY <1>3 DEF TwoInv
  <2>2. 1 \in DOMAIN active /\ Here = active[1]
    BY <1>1, <1>2, <1>3, <2>1 DEF Here
  <2>3. QED
    BY <1>2, <2>1, <2>2 DEF Commands
<1>4. CASE at = 2
  <2>1. upTo = 2
    BY <1>1, <1>4
  <2>2. CASE Len(active) < 2
    <3>1. Len(active) = 1 /\ Here.command = active[1].command
      BY <1>4, <2>1, <2>2 DEF TwoInv
    <3>2. 1 \in DOMAIN active
      BY <1>1, <3>1
    <3>3. QED
      BY <1>2, <1>4, <3>1, <3>2 DEF Commands
  <2>3. CASE ~(Len(active) < 2)
    <3>1. 2 \in DOMAIN active /\ Here = active[2]
      BY <1>1, <1>4, <2>3 DEF Here
    <3>2. QED
      BY <1>2, <1>4, <3>1 DEF Commands
  <2>4. QED
    BY <2>2, <2>3
<1>5. QED
  BY <1>2, <1>3, <1>4

\* A turn of the loop keeps TwoInv.
LEMMA TwoVisit ==
    ASSUME TypeInv, ListsInv, TwoInv, Visit
    PROVE  TwoInv'
<1> USE DEF lists, game, loop
<1>1. /\ active \in Seq(Base) /\ Len(active) \in Nat /\ DOMAIN active = 1..Len(active)
      /\ isolated \in Seq(Center) /\ Len(isolated) \in Nat
      /\ DOMAIN isolated = 1..Len(isolated) /\ stale \in Seq(Base)
      /\ Distinct(active) /\ Commands(active) \cap Isolated = {} /\ TypeOK
  BY LenProperties DEF TypeInv, TypeOK, ListsInv, ActiveOnce
<1>2. /\ phase = "active" /\ at <= upTo /\ Here \in Base
      /\ at \in {1, 2} /\ upTo \in {1, 2} /\ Here.command \in Commands(active)
      /\ at = 1 => Len(active) = upTo /\ Here = active[1]
  BY HereType, HereActive DEF Visit
<1>3. status' = status
  BY DEF Visit
<1>4. CASE Return /\ UNCHANGED lists
  BY <1>3, <1>4 DEF Return, TwoInv, Isolated, Alive
<1>5. ASSUME Advance, isolated' = isolated, Len(active') = Len(active)
      PROVE  TwoInv'
  <2>1. at' = at + 1 /\ upTo' = upTo
    BY <1>5 DEF Advance
  <2>2. at' # 1 /\ upTo' <= 2
    BY <1>2, <2>1
  <2>3. at' = 2 /\ upTo' = 2 => Len(active') = 2
    BY <1>2, <1>5, <2>1
  <2>4. QED
    BY <1>3, <1>5, <2>2, <2>3 DEF TwoInv, Isolated, Alive
<1>6. ASSUME Observed(Here.command), Here.command \in Center, Advance,
             NEW bases, NEW rest, Turn(bases, rest)
      PROVE  TwoInv'
  <2> DEFINE d == Here.command
  <2>1. PICK v : /\ Marked(Here, v, bases, rest)
                 /\ GivesUp(Here, v, bases, rest) \/ Keeps(Here, v, bases, rest)
    BY <1>6 DEF Turn
  <2>2. /\ Like(active, bases) /\ Like(stale, rest) /\ d \in Center
        /\ d \notin Isolated /\ Alive(d) /\ at' = at + 1 /\ upTo' = upTo
    BY <1>1, <1>2, <1>6, <2>1 DEF Marked, Observed, Advance
  <2>3. CASE Keeps(Here, v, bases, rest)
    <3>1. isolated' = isolated /\ Len(active') = Len(active)
      BY <2>2, <2>3 DEF Keeps, Like
    <3>2. QED
      BY <1>5, <1>6, <3>1
  <2>4. CASE Isolate(Here, bases, rest)
    <3>1. /\ isolated' = Append(isolated, d)
          /\ DOMAIN isolated' = 1..Len(isolated) + 1
          /\ \A i \in 1..Len(isolated) : isolated'[i] = isolated[i]
          /\ isolated'[Len(isolated) + 1] = d
      <4>1. isolated' = Append(isolated, d)
        BY <2>4 DEF Isolate
      <4>2. QED
        BY <1>1, <2>2, <4>1, AppendProperties, LenProperties
    <3>2. \A i \in 1..Len(isolated) : isolated[i] # d
      BY <1>1, <2>2 DEF Isolated
    <3> HIDE DEF d
    <3>3. \A i, j \in DOMAIN isolated' : isolated'[i] = isolated'[j] => i = j
      BY <1>1, <3>1, <3>2 DEF TwoInv
    <3>4. \A c \in Isolated' : Alive(c)'
      <4>1. Isolated' = Isolated \union {d}
        BY <1>1, <1>2, <2>2, <2>4, IsolateSets DEF d
      <4>2. QED
        BY <1>3, <2>2, <4>1 DEF TwoInv, Alive
    <3>5. ASSUME at' = 2, upTo' = 2
          PROVE  Len(active') = 1 /\ Here'.command = active'[1].command
      <4>1. at = 1 /\ Len(active) = 2 /\ Here = active[1]
        BY <1>2, <2>2, <3>5
      <4>2. 1 \in ActiveAt(d) /\ ActiveAt(d) \subseteq {1}
        BY <1>1, <4>1 DEF ActiveAt, Distinct, d
      <4>3. bases \in Seq(Base) /\ rest \in Seq(Base) /\ Len(bases) = 2
        BY <2>2, <4>1 DEF Like
      <4>4. /\ \E k \in Earliest(ActiveAt(d)) : active' = RemoveAt(bases, k)
            /\ stale' = <<bases[2]>> \o rest
        BY <2>4, <4>2, <4>3 DEF Isolate, d
      <4>5. active' = RemoveAt(bases, 1)
        BY <4>2, <4>4 DEF Earliest
      <4>6. Len(active') = 1 /\ active'[1] = bases[2]
        <5>1. 1 \in 1..Len(bases)
          BY <4>3
        <5>2. /\ Len(RemoveAt(bases, 1)) = Len(bases) - 1
              /\ \A i \in 1..Len(bases) - 1 :
                    RemoveAt(bases, 1)[i] = IF i < 1 THEN bases[i] ELSE bases[i + 1]
          BY <4>3, <5>1, RemoveAtProperties, Zenon
        <5>3. QED
          BY <4>3, <4>5, <5>2
      <4>7. stale'[1] = bases[2]
        <5>1. 2 \in 1..Len(bases)
          BY <4>3
        <5>2. bases[2] \in Base
          BY <4>3, <5>1, ElementOfSeq, Zenon
        <5> DEFINE one == <<bases[2]>>
        <5>3. one \in Seq(Base) /\ Len(one) = 1 /\ one[1] = bases[2]
          BY <5>2
        <5> HIDE DEF one
        <5>4. \A i \in 1..Len(one) + Len(rest) :
                  (one \o rest)[i] = IF i <= Len(one) THEN one[i] ELSE rest[i - Len(one)]
          BY <4>3, <5>3, ConcatProperties, Zenon
        <5>5. Len(rest) \in Nat /\ stale' = one \o rest
          BY <4>3, <4>4, LenProperties DEF one
        <5>6. 1 \in 1..Len(one) + Len(rest) /\ 1 <= Len(one)
          BY <5>3, <5>5
        <5>7. (one \o rest)[1] = one[1]
          BY <5>4, <5>6
        <5>8. QED
          BY <5>3, <5>5, <5>7
      <4>8. Here' = stale'[1]
        BY <3>5, <4>6 DEF Here
      <4>9. QED
        BY <4>6, <4>7, <4>8
    <3>6. at' # 1 /\ upTo' <= 2
      BY <1>2, <2>2
    <3>7. QED
      BY <3>3, <3>4, <3>5, <3>6 DEF TwoInv
  <2>5. QED
    BY <2>1, <2>3, <2>4 DEF GivesUp
<1>7. CASE Advance /\ UNCHANGED lists
  BY <1>5, <1>7
<1>8. QED
  BY <1>4, <1>6, <1>7, VisitCases

\* So does every other step, as long as step() begins with two bases at most.
LEMMA TwoStep ==
    ASSUME TypeInv, ListsInv, TwoInv, Len(active) <= 2, [Next]_vars
    PROVE  TwoInv'
<1> USE DEF lists, game, loop
<1>1. CASE UNCHANGED <<lists, status, loop>>
  BY <1>1 DEF TwoInv, Isolated, Alive, Here
<1>2. ASSUME phase' # "active", isolated' = isolated,
             \A c \in Center : Alive(c) => Alive(c)'
      PROVE  TwoInv'
  BY <1>2, ListsType DEF TwoInv, Isolated, TypeInv
<1>3. ASSUME NEW c \in Center,
             Complete(c) \/ Uncover(c) \/ Start(c) \/ Create(c)
      PROVE  TwoInv'
  <2>1. /\ phase' # "active" /\ isolated' = isolated
        /\ \E y \in {"building", "new", "ready"} : status' = [status EXCEPT ![c] = y]
    BY <1>3 DEF Complete, Uncover, Start, Create
  <2>2. \A d \in Center : Alive(d) => Alive(d)'
    BY <2>1 DEF Alive, TypeInv, TypeOK
  <2>3. QED
    BY <1>2, <2>1, <2>2
<1>4. ASSUME NEW c \in Center, Destroy(c)
      PROVE  TwoInv'
  <2>1. /\ phase' # "active" /\ Forget(c) /\ TypeOK
        /\ \A d \in Center \ {c} : Alive(d) => Alive(d)'
    BY <1>4 DEF Destroy, Alive, TypeInv, TypeOK
  <2>2. DOMAIN isolated = 1..Len(isolated) /\ Isolated \subseteq Center
    BY <2>1, LenProperties, ListsType DEF TypeOK
  <2>3. CASE c \notin Isolated
    <3>1. isolated' = isolated
      BY <2>1, <2>3 DEF Forget, IsolatedAt, Isolated
    <3>2. QED
      BY <2>1, <2>2, <2>3, <3>1 DEF TwoInv, Isolated
  <2>4. CASE c \in Isolated
    <3>1. ActiveAt(c) = {}
      BY <2>4 DEF ListsInv, ActiveOnce, ActiveAt, Commands
    <3>2. PICK k \in Earliest(IsolatedAt(c)) : isolated' = RemoveAt(isolated, k)
      BY <2>1, <2>4, <3>1 DEF Forget, IsolatedAt, Isolated
    <3>3. k \in DOMAIN isolated /\ isolated[k] = c
      BY <3>2 DEF Earliest, IsolatedAt
    <3>4. /\ \A i, j \in DOMAIN isolated' : isolated'[i] = isolated'[j] => i = j
          /\ Isolated' \subseteq Isolated \ {c}
      BY <2>1, <3>2, <3>3, RemovedForGood DEF TwoInv
    <3>5. QED
      BY <2>1, <2>2, <3>4 DEF TwoInv
  <2>5. QED
    BY <2>3, <2>4
<1>5. CASE StepBegin
  <2>1. /\ isolated' = isolated /\ status' = status /\ active' = active
        /\ at' = 1 /\ upTo' = Len(active)
    BY <1>5 DEF StepBegin
  <2>2. QED
    BY <2>1 DEF TwoInv, Isolated, Alive
<1>6. CASE ActiveDone \/ StepEnd
  BY <1>2, <1>6 DEF ActiveDone, StepEnd, Return, Alive
<1>7. CASE Visit
  BY <1>7, TwoVisit
<1>8. QED
  BY <1>1, <1>3, <1>4, <1>5, <1>6, <1>7
     DEF Next, Game, Events, Deplete, LoseBuilder, Serve, AddScv, DeleteScv,
         DeleteScout, vars

\* As long as no more than two bases are active at a time, no list holds a center
\* that is destroyed: it takes three for step() to move one of them twice.
THEOREM DeadForgottenByTwo ==
    Spec /\ [](Len(active) <= 2) => []DeadForgotten
<1>1. Init => TwoInv
  BY DEF Init, TwoInv, Isolated
<1>2. TypeInv /\ ListsInv /\ TwoInv /\ Len(active) <= 2 /\ [Next]_vars => TwoInv'
  BY TwoStep
<1>3. TypeInv /\ ListsInv /\ TwoInv => DeadForgotten
  <2>1. SUFFICES ASSUME TypeInv, ListsInv, TwoInv, NEW c \in Center, status[c] = "dead"
                 PROVE  c \notin Commands(active) \union Isolated
    BY DEF DeadForgotten
  <2>2. ~Alive(c) /\ c # NoUnit
    BY <2>1, BaseAssumption DEF BaseAssumption, Alive
  <2>3. QED
    BY <2>1, <2>2 DEF TwoInv, ListsInv, ActiveOnce
<1>4. QED
  BY <1>1, <1>2, <1>3, Typing, Listing, PTL DEF Spec

==============================================================================
