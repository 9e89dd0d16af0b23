------------------------ MODULE ExchangeRates_proofs ------------------------
(***************************************************************************)
(* For any number of requests, currencies, load slots and clearings: the   *)
(* service loads a table once, and once more for every clearing; what it   *)
(* keeps has its types; and no table is replaced by an older one.          *)
(***************************************************************************)
EXTENDS ExchangeRates, FiniteSetTheorems, WellFoundedInduction, TLAPS

(* The part of the types the count of loads rests on: the loads that run   *)
(* are a finite set, and the clearings are counted.                        *)
CountsTyped ==
  /\ IsFiniteSet(Load)
  /\ clears \in Nat
  /\ DOMAIN load = Load

(* A load that runs is the registered one or one that a clearing forgot:   *)
(* a forgotten load may unregister its successor, and is then gone.        *)
LoadsInv ==
  /\ CountsTyped
  /\ Cardinality(Running) <= clears + (IF inFlight = NoLoad THEN 0 ELSE 1)

\* What a set of loads counts for after a load began or ended.
LEMMA RunningCounts ==
  ASSUME IsFiniteSet(Load)
  PROVE  /\ IsFiniteSet(Running)
         /\ Cardinality(Running) \in Nat
         /\ \A l \in Load \ Running :
              /\ Cardinality(Running \cup {l}) = Cardinality(Running) + 1
         /\ \A l \in Running :
              /\ Cardinality(Running \ {l}) = Cardinality(Running) - 1
<1>1. Running \subseteq Load
  BY DEF Running
<1>2. IsFiniteSet(Running)
  BY <1>1, FS_Subset
<1>3. Cardinality(Running) \in Nat
  BY <1>2, FS_CardinalityType
<1>4. \A l \in Load \ Running : Cardinality(Running \cup {l}) = Cardinality(Running) + 1
  BY <1>2, FS_AddElement
<1>5. \A l \in Running : Cardinality(Running \ {l}) = Cardinality(Running) - 1
  BY <1>2, FS_RemoveElement
<1> QED BY <1>2, <1>3, <1>4, <1>5

\* A step that keeps who runs, who is registered and the count keeps it all.
LEMMA NothingCounts ==
  ASSUME LoadsInv, Running' = Running, DOMAIN load' = Load,
         UNCHANGED <<inFlight, clears>>
  PROVE  LoadsInv'
BY DEF LoadsInv, CountsTyped

LEMMA JoinedCounts ==
  ASSUME LoadsInv, Joined, UNCHANGED clears
  PROVE  LoadsInv'
<1>1. CASE inFlight # NoLoad /\ UNCHANGED <<load, inFlight>>
  BY <1>1 DEF LoadsInv, CountsTyped, Running
<1>2. CASE inFlight = NoLoad /\ StartLoad
  <2>1. PICK l \in Load \ Running :
          /\ load' = [load EXCEPT ![l] = [Idle EXCEPT !.at = "fetch"]]
          /\ inFlight' = l
    BY <1>2 DEF StartLoad
  <2>2. load'[l].at = "fetch" /\ DOMAIN load' = Load
        /\ \A k \in Load \ {l} : load'[k] = load[k]
    BY <2>1 DEF LoadsInv, CountsTyped, Idle
  <2>3. Running' = Running \cup {l}
    BY <2>1, <2>2 DEF Running
  <2>4. Cardinality(Running') = Cardinality(Running) + 1
    BY <2>1, <2>3, RunningCounts DEF LoadsInv, CountsTyped
  <2>5. inFlight' # NoLoad
    BY <2>1, RatesAssumption
  <2>6. Cardinality(Running) \in Nat
    BY RunningCounts DEF LoadsInv, CountsTyped
  <2> QED BY <1>2, <2>2, <2>4, <2>5, <2>6 DEF LoadsInv, CountsTyped
<1> QED BY <1>1, <1>2 DEF Joined

\* The steps within a load leave it running.
LEMMA StepCounts ==
  ASSUME LoadsInv, NEW l \in Load, l \in Running,
         NEW stage, stage # "idle", NEW table, NEW todo,
         Step(l, stage, table, todo), UNCHANGED <<inFlight, clears>>
  PROVE  LoadsInv'
<1>1. DOMAIN load' = Load /\ load'[l].at = stage
      /\ \A k \in Load \ {l} : load'[k] = load[k]
  BY DEF Step, LoadsInv, CountsTyped
<1>2. Running' = Running
  BY <1>1 DEF Running
<1> QED BY <1>1, <1>2, NothingCounts

LEMMA SettleCounts ==
  ASSUME LoadsInv, NEW l \in Load, Settle(l)
  PROVE  LoadsInv'
<1>1. l \in Running
  BY DEF Settle, Running
<1>2. DOMAIN load' = Load /\ load'[l].at = "idle"
      /\ \A k \in Load \ {l} : load'[k] = load[k]
  BY DEF Settle, LoadsInv, CountsTyped, Idle
<1>3. Running' = Running \ {l}
  BY <1>2 DEF Running
<1>4. Cardinality(Running') = Cardinality(Running) - 1 /\ Cardinality(Running) \in Nat
  BY <1>1, <1>3, RunningCounts DEF LoadsInv, CountsTyped
<1>5. inFlight' = NoLoad /\ clears' = clears
  BY DEF Settle
<1> QED BY <1>2, <1>4, <1>5 DEF LoadsInv, CountsTyped

LEMMA ProgressCounts ==
  ASSUME LoadsInv, NEW l \in Load, Progress(l)
  PROVE  LoadsInv'
<1>1. CASE FetchSucceeds(l)
  <2>1. l \in Running
    BY <1>1 DEF FetchSucceeds, Running
  <2> QED BY <1>1, <2>1, StepCounts DEF FetchSucceeds
<1>2. CASE FetchFails(l)
  <2>1. l \in Running
    BY <1>2 DEF FetchFails, Running
  <2> QED BY <1>2, <2>1, StepCounts DEF FetchFails
<1>3. CASE PersistRow(l)
  <2>1. l \in Running
    BY <1>3 DEF PersistRow, Running
  <2>2. PICK stage, table, todo :
          stage # "idle" /\ Step(l, stage, table, todo)
    BY <1>3 DEF PersistRow
  <2> QED BY <1>3, <2>1, <2>2, StepCounts DEF PersistRow
<1>4. CASE PersistFails(l)
  <2>1. l \in Running
    BY <1>4 DEF PersistFails, Running
  <2> QED BY <1>4, <2>1, StepCounts DEF PersistFails
<1>5. CASE ReadDatabase(l)
  <2>1. l \in Running
    BY <1>5 DEF ReadDatabase, Running
  <2>2. PICK table : Step(l, "settle", table, {})
    BY <1>5 DEF ReadDatabase
  <2> QED BY <1>5, <2>1, <2>2, StepCounts DEF ReadDatabase
<1>6. CASE ReadFails(l)
  <2>1. l \in Running
    BY <1>6 DEF ReadFails, Running
  <2> QED BY <1>6, <2>1, StepCounts DEF ReadFails
<1>7. CASE Settle(l)
  BY <1>7, SettleCounts
<1> QED BY <1>1, <1>2, <1>3, <1>4, <1>5, <1>6, <1>7 DEF Progress

LEMMA InitCounts ==
  ASSUME IsFiniteSet(Load), Init
  PROVE  LoadsInv
<1>1. Running = {}
  BY DEF Init, Running, Idle
<1> QED BY <1>1, FS_EmptySet DEF Init, LoadsInv, CountsTyped

LEMMA NextCounts ==
  ASSUME LoadsInv, [Next]_vars
  PROVE  LoadsInv'
<1>1. CASE UNCHANGED vars
  BY <1>1 DEF vars, LoadsInv, CountsTyped, Running
<1>2. ASSUME NEW c \in Client, AskFresh(c) \/ AskStale(c) \/ AskNothing(c)
      PROVE  LoadsInv'
  <2>1. CASE AskFresh(c)
    BY <2>1 DEF AskFresh, vars, LoadsInv, CountsTyped, Running
  <2>2. CASE AskStale(c)
    BY <2>2, JoinedCounts DEF AskStale
  <2>3. CASE AskNothing(c)
    BY <2>3, JoinedCounts DEF AskNothing
  <2> QED BY <1>2, <2>1, <2>2, <2>3
<1>3. ASSUME NEW l \in Load, Progress(l)
      PROVE  LoadsInv'
  BY <1>3, ProgressCounts
<1>4. CASE Refresh
  BY <1>4, JoinedCounts DEF Refresh
<1>5. CASE ClearCache
  <2>1. Running' = Running /\ clears' = clears + 1 /\ inFlight' = NoLoad /\ load' = load
    BY <1>5 DEF ClearCache, Running
  <2>2. Cardinality(Running) \in Nat
    BY RunningCounts DEF LoadsInv, CountsTyped
  <2> QED BY <2>1, <2>2 DEF LoadsInv, CountsTyped
<1>6. CASE Tick \/ Publish
  BY <1>6 DEF Tick, Publish, LoadsInv, CountsTyped, Running
<1> QED BY <1>1, <1>2, <1>3, <1>4, <1>5, <1>6 DEF Next

(* OneLoad for any number of load slots: of the loads that run at a time   *)
(* all but one are owed to a clearing of the cache.                        *)
THEOREM LoadsShared ==
  ASSUME IsFiniteSet(Load)
  PROVE  Spec => []OneLoad
<1>1. Init => LoadsInv
  BY InitCounts
<1>2. LoadsInv /\ [Next]_vars => LoadsInv'
  BY NextCounts
<1>3. LoadsInv => OneLoad
  <2> SUFFICES ASSUME LoadsInv PROVE OneLoad
    OBVIOUS
  <2>1. Cardinality(Running) \in Nat
    BY RunningCounts DEF LoadsInv, CountsTyped
  <2> QED BY <2>1 DEF LoadsInv, CountsTyped, OneLoad
<1> QED BY <1>1, <1>2, <1>3, PTL DEF Spec

(***************************************************************************)
(* The types                                                               *)
(***************************************************************************)

LoadRecord == [at : Stage, table : Table, todo : SUBSET Target]

\* A set of naturals has an earliest one.
LEMMA EarliestIs ==
  ASSUME NEW T \in SUBSET Nat, T # {}
  PROVE  Earliest(T) \in T /\ \A y \in T : Earliest(T) <= y
<1> DEFINE R == OpToRel(<, Nat)
<1>1. IsWellFoundedOn(R, Nat)
  BY NatLessThanWellFounded
<1> HIDE DEF R
<1>2. \E x \in T : \A y \in T : ~(<<y, x>> \in R)
  BY <1>1, WFMin
<1>3. \A x, y \in Nat : y < x => <<y, x>> \in R
  BY DEF R, OpToRel
<1>4. PICK x \in T : \A y \in T : ~(<<y, x>> \in R)
  BY <1>2
<1>5. \A y \in T : x <= y
  <2> TAKE y \in T
  <2>1. x \in Nat /\ y \in Nat
    OBVIOUS
  <2>2. ~(y < x)
    BY <1>3, <1>4, <2>1
  <2> QED BY <2>1, <2>2
<1> QED BY <1>4, <1>5 DEF Earliest

LEMMA IdleTyped == Built \in Table /\ Idle \in LoadRecord /\ Idle.at = "idle" /\ Built.source = "hardcoded"
<1>1. 0 \in Time
  BY RatesAssumption DEF Time
<1> QED BY <1>1 DEF Built, Table, Source, Idle, LoadRecord, Stage

\* A load that takes a step of its own has a stage, a table and a rest to save.
LEMMA StepTyped ==
  ASSUME TypeOK, NEW l \in Load, NEW stage \in Stage, NEW table \in Table,
         NEW todo \in SUBSET Target, Step(l, stage, table, todo)
  PROVE  /\ load' \in [Load -> LoadRecord] /\ \A k \in Load \ {l} : load'[k] = load[k]
         /\ load'[l].at = stage /\ load'[l].table = table
<1> DEFINE r == [at |-> stage, table |-> table, todo |-> todo]
<1>1. r \in LoadRecord /\ r.at = stage /\ r.table = table
  BY DEF LoadRecord
<1>2. load \in [Load -> LoadRecord] /\ load' = [load EXCEPT ![l] = r]
  BY DEF TypeOK, Step, LoadRecord
<1> HIDE DEF r
<1> QED BY <1>1, <1>2

\* The load that is joined is the registered one, or one that begins.
LEMMA JoinedTyped ==
  ASSUME TypeOK, Joined
  PROVE  /\ load' \in [Load -> LoadRecord]
         /\ inFlight' \in Load
         /\ \/ UNCHANGED <<load, inFlight>>
            \/ /\ inFlight = NoLoad /\ inFlight' \notin Running
               /\ load'[inFlight'].at = "fetch"
               /\ \A k \in Load \ {inFlight'} : load'[k] = load[k]
<1>1. load \in [Load -> LoadRecord] /\ inFlight \in Load \cup {NoLoad}
  BY DEF TypeOK, LoadRecord
<1>2. CASE inFlight # NoLoad /\ UNCHANGED <<load, inFlight>>
  BY <1>1, <1>2
<1>3. CASE inFlight = NoLoad /\ StartLoad
  <2>1. PICK l \in Load \ Running :
          /\ load' = [load EXCEPT ![l] = [Idle EXCEPT !.at = "fetch"]]
          /\ inFlight' = l
    BY <1>3 DEF StartLoad
  <2> DEFINE r == [Idle EXCEPT !.at = "fetch"]
  <2>2. r \in LoadRecord /\ r.at = "fetch"
    BY IdleTyped DEF LoadRecord, Stage
  <2> HIDE DEF r
  <2> QED BY <1>1, <1>3, <2>1, <2>2 DEF r
<1> QED BY <1>2, <1>3 DEF Joined

\* The tables a load can put together.
LEMMA FetchedTyped ==
  ASSUME TypeOK
  PROVE  LET f == [at |-> published, source |-> "provider", has |-> Target]
         IN  f \in Table /\ f.at = published /\ f.source = "provider"
<1>1. published \in Time
  BY DEF TypeOK
<1> QED BY <1>1 DEF Table, Source

LEMMA ReadTyped ==
  ASSUME TypeOK, NEW inverse \in SUBSET (Target \ Rows), NEW d \in 0..now
  PROVE  LET t == IF Rows \cup inverse = {} THEN [Built EXCEPT !.at = now]
                  ELSE FromDatabase(inverse, d)
         IN  t \in Table /\ t.source # "provider"
<1>1. now \in Time /\ d \in Time /\ Time \subseteq Nat /\ \A t \in Rows : db[t] \in Time
  BY RatesAssumption DEF TypeOK, Time, Rows
<1>2. CASE Rows \cup inverse = {}
  BY <1>1, <1>2 DEF Built, Table, Source
<1>3. CASE Rows \cup inverse # {}
  <2> DEFINE T == {db[t] : t \in Rows} \cup (IF inverse = {} THEN {} ELSE {d})
  <2>1. T \in SUBSET Time /\ T # {}
    BY <1>1, <1>3
  <2>2. Earliest(T) \in Time
    BY <1>1, <2>1, EarliestIs
  <2> HIDE DEF T
  <2>3. [at |-> Earliest(T), source |-> "database", has |-> inverse] \in Table
    BY <2>2 DEF Table, Source
  <2> QED BY <1>3, <2>3 DEF FromDatabase, T
<1> QED BY <1>2, <1>3

LEMMA ProgressTyped ==
  ASSUME TypeOK, NEW l \in Load, Progress(l)
  PROVE  TypeOK'
<1>0. {"idle", "fetch", "persist", "database", "settle", "fail"} \subseteq Stage /\ {} \in SUBSET Target
  BY DEF Stage
<1>1. load[l] \in LoadRecord /\ load[l].table \in Table /\ load[l].todo \in SUBSET Target
      /\ load \in [Load -> LoadRecord]
  BY DEF TypeOK, LoadRecord
<1>2. CASE FetchSucceeds(l)
  <2>1. load' \in [Load -> LoadRecord]
    BY <1>0, <1>2, FetchedTyped, StepTyped DEF FetchSucceeds
  <2> QED BY <1>2, <2>1 DEF FetchSucceeds, TypeOK, LoadRecord
<1>3. CASE FetchFails(l)
  <2>1. load' \in [Load -> LoadRecord]
    BY <1>0, <1>3, IdleTyped, StepTyped DEF FetchFails
  <2> QED BY <1>3, <2>1 DEF FetchFails, TypeOK, LoadRecord
<1>4. CASE PersistRow(l)
  <2>1. PICK t, todo : /\ todo = load[l].todo \ {t}
                       /\ db' = [db EXCEPT ![t] = load[l].table.at]
                       /\ Step(l, IF todo = {} THEN "settle" ELSE "persist", load[l].table, todo)
    BY <1>4 DEF PersistRow
  <2>2. PICK stage \in {"settle", "persist"} : Step(l, stage, load[l].table, todo)
    BY <2>1
  <2>3. load' \in [Load -> LoadRecord]
    BY <1>0, <1>1, <2>1, <2>2, StepTyped
  <2>4. db' \in [Target -> Time \cup {NoRow}]
    BY <1>1, <2>1 DEF TypeOK, Table
  <2> QED BY <1>4, <2>3, <2>4 DEF PersistRow, TypeOK, LoadRecord
<1>5. CASE PersistFails(l)
  <2>1. load' \in [Load -> LoadRecord]
    BY <1>0, <1>5, IdleTyped, StepTyped DEF PersistFails
  <2> QED BY <1>5, <2>1 DEF PersistFails, TypeOK, LoadRecord
<1>6. CASE ReadDatabase(l)
  <2>1. PICK table \in Table : Step(l, "settle", table, {})
    BY <1>6, ReadTyped DEF ReadDatabase
  <2>2. load' \in [Load -> LoadRecord]
    BY <1>0, <2>1, StepTyped
  <2> QED BY <1>6, <2>2 DEF ReadDatabase, TypeOK, LoadRecord
<1>7. CASE ReadFails(l)
  <2>1. load' \in [Load -> LoadRecord]
    BY <1>0, <1>7, IdleTyped, StepTyped DEF ReadFails
  <2> QED BY <1>7, <2>1 DEF ReadFails, TypeOK, LoadRecord
<1>8. CASE Settle(l)
  <2>1. load' \in [Load -> LoadRecord] /\ cache' \in Table \cup {NoTable}
    BY <1>1, <1>8, IdleTyped DEF Settle, TypeOK
  <2>2. waits' \in [Client -> Load \cup {NoLoad}]
    BY <1>8 DEF Settle, Answered, TypeOK
  <2> QED BY <1>8, <2>1, <2>2 DEF Settle, TypeOK, LoadRecord
<1> QED BY <1>2, <1>3, <1>4, <1>5, <1>6, <1>7, <1>8 DEF Progress

LEMMA InitTyped == Init => TypeOK
<1>1. 0 \in Time /\ 0 \in 0..MaxClears
  BY RatesAssumption DEF Time
<1> QED BY <1>1, IdleTyped DEF Init, TypeOK, LoadRecord

LEMMA NextTyped == TypeOK /\ [Next]_vars => TypeOK'
<1> SUFFICES ASSUME TypeOK, [Next]_vars PROVE TypeOK'
  OBVIOUS
<1>1. CASE UNCHANGED vars
  BY <1>1 DEF vars, TypeOK
<1>2. ASSUME NEW c \in Client, AskFresh(c) \/ AskStale(c) \/ AskNothing(c)
      PROVE  TypeOK'
  <2>1. CASE AskFresh(c)
    BY <1>1, <2>1 DEF AskFresh
  <2>2. CASE AskStale(c)
    BY <2>2, JoinedTyped DEF AskStale, TypeOK, LoadRecord
  <2>3. CASE AskNothing(c)
    BY <2>3, JoinedTyped DEF AskNothing, TypeOK, LoadRecord
  <2> QED BY <1>2, <2>1, <2>2, <2>3
<1>3. ASSUME NEW l \in Load, Progress(l)
      PROVE  TypeOK'
  BY <1>3, ProgressTyped
<1>4. CASE Refresh
  BY <1>4, JoinedTyped DEF Refresh, TypeOK, LoadRecord
<1>5. CASE ClearCache
  BY <1>5, RatesAssumption DEF ClearCache, TypeOK
<1>6. CASE Tick
  BY <1>6, RatesAssumption DEF Tick, TypeOK, Time
<1>7. CASE Publish
  BY <1>7 DEF Publish, TypeOK
<1> QED BY <1>1, <1>2, <1>3, <1>4, <1>5, <1>6, <1>7 DEF Next

(* Whatever fails and whoever asks, the cached table, the rows and the      *)
(* loads keep their types: the time of a table read from the database is    *)
(* that of one of its rows.                                                 *)
THEOREM RatesTyped == Spec => []TypeOK
BY InitTyped, NextTyped, PTL DEF Spec

(***************************************************************************)
(* Time goes forward                                                       *)
(***************************************************************************)

Provided(t) == t \in Table /\ t.source = "provider"

(* As long as the cache has not been cleared, a load that runs is the       *)
(* registered one, so that nobody writes rows or the cache beside it; and   *)
(* what the provider told it is as new as all that is stored.               *)
Forward ==
  /\ \A l \in Running : inFlight = l
  /\ \A t \in Target : db[t] <= published
  /\ Provided(cache) => cache.at <= published
  /\ \A l \in Load : load[l].at = "persist" => load[l].table.source = "provider"
  /\ \A l \in Load : load[l].at \in {"persist", "settle"} /\ load[l].table.source = "provider" =>
       /\ load[l].table.at <= published
       /\ \A t \in Target : db[t] <= load[l].table.at
       /\ Provided(cache) => cache.at <= load[l].table.at
ForwardInv == TypeOK /\ published <= now /\ (clears = 0 => Forward)

\* The step NeverBack speaks of.
Onward ==
  clears = 0 =>
    /\ \A t \in Target : db'[t] >= db[t]
    /\ (cache \in Table /\ cache' \in Table
        /\ cache.source = "provider" /\ cache'.source = "provider")
          => cache'.at >= cache.at

LEMMA TimesTyped ==
  ASSUME TypeOK
  PROVE  /\ now \in Nat /\ published \in Nat /\ clears \in Nat
         /\ \A t \in Target : db[t] \in Int
         /\ \A x \in Table : x.at \in Nat
         /\ \A l \in Load : load[l].table \in Table
         /\ cache \in Table \/ ~Provided(cache)
BY RatesAssumption, NoTableAssumption DEF TypeOK, Time, NoRow, Table, Provided

\* A step of one load, the only one there is.
LEMMA ProgressForward ==
  ASSUME TypeOK, TypeOK', Forward, NEW l \in Load, Progress(l)
  PROVE  Forward' /\ Onward
<1>0. load \in [Load -> LoadRecord] /\ load[l].table \in Table /\ load[l].todo \in SUBSET Target
  BY DEF TypeOK, LoadRecord
<1>1. l \in Running /\ inFlight = l /\ \A k \in Load \ {l} : load[k].at = "idle"
  <2>1. l \in Running
    BY DEF Progress, FetchSucceeds, FetchFails, PersistRow, PersistFails, ReadDatabase,
           ReadFails, Settle, Running
  <2>2. \A k \in Running : inFlight = k
    BY DEF Forward
  <2> QED BY <2>1, <2>2 DEF Running
<1>2. {"idle", "fetch", "persist", "database", "settle", "fail"} \subseteq Stage /\ {} \in SUBSET Target
  BY DEF Stage
<1>3. ASSUME NEW stage \in Stage, NEW table \in Table, NEW todo \in SUBSET Target,
             Step(l, stage, table, todo), UNCHANGED <<published, cache, inFlight, db>>,
             stage # "persist", table.source # "provider"
      PROVE  Forward' /\ Onward
  <2>1. load'[l].at = stage /\ load'[l].table = table /\ \A k \in Load \ {l} : load'[k] = load[k]
    BY <1>3, StepTyped
  <2>2. Running' \subseteq {l}
    BY <1>1, <2>1 DEF Running
  <2>3. Forward'
    BY <1>1, <1>3, <2>1, <2>2 DEF Forward, Provided
  <2> QED BY <1>3, <2>3, TimesTyped DEF Onward
<1>4. CASE FetchSucceeds(l)
  <2> DEFINE f == [at |-> published, source |-> "provider", has |-> Target]
  <2>1. f \in Table /\ f.at = published /\ f.source = "provider"
    BY FetchedTyped
  <2>2. Step(l, "persist", f, Target) /\ UNCHANGED <<published, cache, inFlight, db, clears>>
    BY <1>4 DEF FetchSucceeds
  <2> HIDE DEF f
  <2>3. load'[l].at = "persist" /\ load'[l].table = f /\ \A k \in Load \ {l} : load'[k] = load[k]
    BY <1>2, <2>1, <2>2, StepTyped
  <2>4. Running' \subseteq {l}
    BY <1>1, <2>3 DEF Running
  <2>5. published \in Nat
    BY TimesTyped
  <2>6. Forward'
    BY <1>1, <2>1, <2>2, <2>3, <2>4, <2>5 DEF Forward, Provided
  <2> QED BY <2>2, <2>6, TimesTyped DEF Onward
<1>5. CASE FetchFails(l)
  BY <1>2, <1>3, <1>5, IdleTyped DEF FetchFails
<1>6. CASE PersistRow(l)
  <2> DEFINE x == load[l].table
  <2>1. PICK t, todo : /\ todo = load[l].todo \ {t}
                       /\ db' = [db EXCEPT ![t] = x.at]
                       /\ Step(l, IF todo = {} THEN "settle" ELSE "persist", x, todo)
    BY <1>6 DEF PersistRow
  <2>2. PICK stage \in {"settle", "persist"} : Step(l, stage, x, todo)
    BY <2>1
  <2>3. load'[l].at = stage /\ load'[l].table = x /\ \A k \in Load \ {l} : load'[k] = load[k]
    BY <1>0, <1>2, <2>1, <2>2, StepTyped
  <2>4. /\ x.source = "provider" /\ x.at <= published /\ \A u \in Target : db[u] <= x.at
        /\ Provided(cache) => cache.at <= x.at
    BY <1>6 DEF PersistRow, Forward
  <2>5. UNCHANGED <<published, cache, inFlight, clears>>
    BY <1>6 DEF PersistRow
  <2>6. /\ published \in Nat /\ x.at \in Nat
        /\ \A u \in Target : db[u] \in Int /\ (db'[u] = db[u] \/ db'[u] = x.at)
    BY <1>0, <2>1, TimesTyped DEF TypeOK
  <2>7. \A u \in Target : db'[u] <= x.at /\ db'[u] >= db[u] /\ db'[u] <= published
    BY <2>4, <2>6
  <2>8. Running' \subseteq {l}
    BY <1>1, <2>3 DEF Running
  <2>9. Forward'
    BY <1>1, <2>3, <2>4, <2>5, <2>7, <2>8 DEF Forward, Provided
  <2> QED BY <2>5, <2>7, <2>9, TimesTyped DEF Onward
<1>7. CASE PersistFails(l)
  BY <1>2, <1>3, <1>7, IdleTyped DEF PersistFails
<1>8. CASE ReadDatabase(l)
  <2>1. PICK table \in Table : Step(l, "settle", table, {}) /\ table.source # "provider"
    BY <1>8, ReadTyped DEF ReadDatabase
  <2> QED BY <1>2, <1>3, <1>8, <2>1 DEF ReadDatabase
<1>9. CASE ReadFails(l)
  BY <1>2, <1>3, <1>9, IdleTyped DEF ReadFails
<1>10. CASE Settle(l)
  <2>1. load'[l].at = "idle" /\ \A k \in Load \ {l} : load'[k] = load[k]
    BY <1>0, <1>10, IdleTyped DEF Settle
  <2>2. Running' = {}
    BY <1>1, <2>1 DEF Running
  <2>3. /\ UNCHANGED <<published, db, clears>>
        /\ cache' = cache \/ (load[l].at = "settle" /\ cache' = load[l].table)
    BY <1>10 DEF Settle
  <2>4. Provided(cache') => cache'.at <= published /\ (Provided(cache) => cache'.at >= cache.at)
    <3>1. CASE cache' = cache
      BY <3>1, TimesTyped DEF Forward, Provided
    <3>2. CASE load[l].at = "settle" /\ cache' = load[l].table
      <4>1. Provided(cache') => /\ cache'.at <= published
                                /\ Provided(cache) => cache.at <= cache'.at
        BY <3>2 DEF Forward, Provided
      <4> QED BY <4>1, TimesTyped DEF Provided
    <3> QED BY <2>3, <3>1, <3>2
  <2>5. Forward'
    BY <1>1, <2>1, <2>2, <2>3, <2>4 DEF Forward, Provided
  <2> QED BY <2>3, <2>4, <2>5, TimesTyped DEF Onward, Provided
<1> QED BY <1>4, <1>5, <1>6, <1>7, <1>8, <1>9, <1>10 DEF Progress

\* Nothing is stored: who joins or begins a load, or forgets what is cached.
LEMMA JoinedForward ==
  ASSUME TypeOK, Forward, Joined, UNCHANGED <<published, db>>, cache' \in {cache, NoTable}
  PROVE  Forward' /\ Onward
<1>1. /\ inFlight' \in Load
      /\ \/ UNCHANGED <<load, inFlight>>
         \/ /\ inFlight = NoLoad /\ inFlight' \notin Running
            /\ load'[inFlight'].at = "fetch"
            /\ \A k \in Load \ {inFlight'} : load'[k] = load[k]
  BY JoinedTyped
<1>2. \A l \in Running' : inFlight' = l
  <2>1. inFlight = NoLoad => Running = {}
    BY RatesAssumption DEF Forward, Running
  <2> QED BY <1>1, <2>1 DEF Forward, Running
<1>3. Provided(cache') => cache' = cache
  BY NoTableAssumption DEF Provided
<1>4. \A l \in Load : load'[l].at \in {"persist", "settle"} => load'[l] = load[l]
  BY <1>1
<1>5. Forward'
  BY <1>2, <1>3, <1>4 DEF Forward, Provided
<1>6. Provided(cache) /\ Provided(cache') => cache'.at >= cache.at
  BY <1>3, TimesTyped DEF Provided
<1> QED BY <1>5, <1>6, TimesTyped DEF Onward, Provided

LEMMA InitForward == Init => ForwardInv
<1> SUFFICES ASSUME Init PROVE ForwardInv
  OBVIOUS
<1>1. Running = {} /\ \A l \in Load : load[l].at = "idle"
  BY IdleTyped DEF Init, Running
<1>2. ~Provided(cache) /\ published <= now /\ \A t \in Target : db[t] <= published
  BY NoTableAssumption DEF Init, Provided, NoRow
<1> QED BY <1>1, <1>2, InitTyped DEF ForwardInv, Forward

LEMMA NextForward == ForwardInv /\ [Next]_vars => ForwardInv' /\ [Onward]_vars
<1> SUFFICES ASSUME ForwardInv, [Next]_vars
             PROVE  published' <= now' /\ (clears' = 0 => Forward') /\ [Onward]_vars
  BY NextTyped DEF ForwardInv
<1>0. TypeOK /\ TypeOK' /\ published <= now /\ (clears = 0 => Forward) /\ clears \in Nat
      /\ now \in Nat /\ published \in Nat
  BY NextTyped, TimesTyped DEF ForwardInv
<1>1. CASE UNCHANGED vars
  BY <1>0, <1>1 DEF vars, Forward, Running, Provided
<1>2. ASSUME Joined, UNCHANGED <<now, published, db, clears>>, cache' \in {cache, NoTable}
      PROVE  published' <= now' /\ (clears' = 0 => Forward') /\ [Onward]_vars
  BY <1>0, <1>2, JoinedForward DEF Onward
<1>3. ASSUME NEW c \in Client, AskFresh(c) \/ AskStale(c) \/ AskNothing(c)
      PROVE  published' <= now' /\ (clears' = 0 => Forward') /\ [Onward]_vars
  BY <1>1, <1>2, <1>3 DEF AskFresh, AskStale, AskNothing
<1>4. ASSUME NEW l \in Load, Progress(l)
      PROVE  published' <= now' /\ (clears' = 0 => Forward') /\ [Onward]_vars
  <2>1. UNCHANGED <<now, published, clears>>
    BY <1>4 DEF Progress, FetchSucceeds, FetchFails, PersistRow, PersistFails, ReadDatabase,
                ReadFails, Settle
  <2> QED BY <1>0, <1>4, <2>1, ProgressForward DEF Onward
<1>5. CASE Refresh
  BY <1>2, <1>5 DEF Refresh
<1>6. CASE ClearCache
  <2>1. clears' # 0 /\ UNCHANGED <<now, published, db>> /\ cache' = NoTable
    BY <1>0, <1>6 DEF ClearCache
  <2> QED BY <1>0, <2>1, NoTableAssumption, TimesTyped DEF Onward
<1>7. CASE Tick
  <2>1. UNCHANGED <<published, cache, inFlight, db, load, clears>> /\ now' = now + 1
    BY <1>7 DEF Tick
  <2>2. clears' = 0 => Forward'
    BY <1>0, <2>1 DEF Forward, Running, Provided
  <2> QED BY <1>0, <2>1, <2>2, TimesTyped DEF Onward
<1>8. CASE Publish
  <2>1. UNCHANGED <<now, cache, inFlight, db, load, clears>> /\ published' = now
    BY <1>8 DEF Publish
  <2>2. /\ clears = 0 => \A t \in Target : db[t] <= now
        /\ clears = 0 /\ Provided(cache) => cache.at <= now
        /\ clears = 0 => \A l \in Load :
             load[l].at \in {"persist", "settle"} /\ load[l].table.source = "provider" =>
               load[l].table.at <= now
    BY <1>0, TimesTyped DEF Forward, Provided
  <2>3. clears' = 0 => Forward'
    BY <1>0, <2>1, <2>2 DEF Forward, Running, Provided
  <2> QED BY <1>0, <2>1, <2>3, TimesTyped DEF Onward
<1> QED BY <1>1, <1>3, <1>4, <1>5, <1>6, <1>7, <1>8 DEF Next

(* Unless the cache is cleared, the provider's table in the cache and the   *)
(* rows of the database only move forward in time, for any number of        *)
(* requests, refreshes, currencies and failures.                            *)
THEOREM TimeForward == Spec => NeverBack
<1>1. ForwardInv /\ [Next]_vars => ForwardInv' /\ [Onward]_vars
  BY NextForward
<1>2. Spec => [][Onward]_vars
  BY InitForward, <1>1, PTL DEF Spec
<1> QED BY <1>2 DEF Onward, NeverBack
=============================================================================
