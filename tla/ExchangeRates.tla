--------------------------- MODULE ExchangeRates ----------------------------
(***************************************************************************)
(* The table of exchange rates of one base currency, as                    *)
(* exchange-rate.service.ts serves it: from a cache that is fresh for a    *)
(* while and then served stale while it is loaded again, with one load in  *)
(* flight that requests share, from the provider, the database or the      *)
(* built-in table.  The tables of two bases share nothing.                 *)
(*                                                                         *)
(* Node runs one callback at a time: a step is what runs between two       *)
(* awaits, on the provider or on the database.                             *)
(***************************************************************************)
EXTENDS Integers, FiniteSets

CONSTANTS
  Client,     \* the requests for the table
  Load,       \* the slots of loads in flight
  Targets,    \* how many other currencies are supported
  Fresh,      \* TABLE_FRESH_DURATION
  Stale,      \* TABLE_STALE_DURATION
  LastHour,   \* bound: time ends there
  MaxClears,  \* bound on the uses of cache/clear
  NoTable,    \* nothing cached
  NoLoad      \* no load registered

Time == 0..LastHour
Target == 1..Targets

ASSUME RatesAssumption ==
  /\ Fresh \in Nat /\ Stale \in Nat /\ Fresh < Stale
  /\ LastHour \in Nat /\ MaxClears \in Nat /\ Targets \in Nat
  /\ NoLoad \notin Load

VARIABLES
  now,        \* the clock
  published,  \* when the provider last updated its table
  cache,      \* exchangeRateTableCache
  inFlight,   \* inFlightTableFetches: the load that requests join
  db,         \* lastUpdated of the rows from this base, -1 for no row
  load,       \* the loads that run
  waits,      \* the load whose promise a request awaits
  clears      \* how often the cache was cleared

vars == <<now, published, cache, inFlight, db, load, waits, clears>>

Source == {"provider", "database", "hardcoded"}
Table == [at : Time, source : Source, has : SUBSET Target]

ASSUME NoTableAssumption == NoTable \notin Table

Stage == {"idle", "fetch", "persist", "database", "settle", "fail"}

NoRow == -1
Built == [at |-> 0, source |-> "hardcoded", has |-> Target]
Idle == [at |-> "idle", table |-> Built, todo |-> {}]

TypeOK ==
  /\ now \in Time /\ published \in Time
  /\ cache \in Table \cup {NoTable}
  /\ inFlight \in Load \cup {NoLoad}
  /\ db \in [Target -> Time \cup {NoRow}]
  /\ load \in [Load -> [at : Stage, table : Table, todo : SUBSET Target]]
  /\ waits \in [Client -> Load \cup {NoLoad}]
  /\ clears \in 0..MaxClears

Init ==
  /\ now = 0 /\ published = 0
  /\ cache = NoTable /\ inFlight = NoLoad
  /\ db = [t \in Target |-> NoRow]
  /\ load = [l \in Load |-> Idle]
  /\ waits = [c \in Client |-> NoLoad]
  /\ clears = 0

----------------------------------------------------------------------------
\* The cache and the loads.

Running == {l \in Load : load[l].at # "idle"}
Free == CHOOSE l \in Load : l \notin Running

CacheState ==
  IF cache = NoTable THEN "none"
  ELSE IF now - cache.at <= Fresh THEN "fresh"
  ELSE IF now - cache.at <= Stale THEN "stale"
  ELSE "expired"

\* A load of its own takes a free slot and is registered.
StartLoad ==
  \E l \in Load \ Running :
    /\ l = Free
    /\ load' = [load EXCEPT ![l] = [Idle EXCEPT !.at = "fetch"]]
    /\ inFlight' = l

\* A mutant: a refresh does not look for a load to join.
StartAnew == StartLoad

\* fetchAndCacheExchangeRateTable: the load in flight, or a new one.
Joined ==
  \/ inFlight # NoLoad /\ UNCHANGED <<load, inFlight>>
  \/ inFlight = NoLoad /\ StartLoad

\* getExchangeRateTable: a fresh table is the answer.
AskFresh(c) ==
  /\ waits[c] = NoLoad /\ CacheState = "fresh"
  /\ UNCHANGED vars

\* A stale one too, and the table is loaded in the background.
AskStale(c) ==
  /\ waits[c] = NoLoad /\ CacheState = "stale"
  /\ Joined
  /\ UNCHANGED <<now, published, cache, db, waits, clears>>

\* Without one the request awaits the load.
AskNothing(c) ==
  /\ waits[c] = NoLoad /\ CacheState \in {"none", "expired"}
  /\ cache' = NoTable
  /\ Joined
  /\ waits' = [waits EXCEPT ![c] = inFlight']
  /\ UNCHANGED <<now, published, db, clears>>

\* updateExchangeRates, every six hours.
Refresh ==
  /\ Joined
  /\ UNCHANGED <<now, published, cache, db, waits, clears>>

\* clearCache forgets the load in flight, which goes on.
ClearCache ==
  /\ clears < MaxClears
  /\ clears' = clears + 1
  /\ cache' = NoTable /\ inFlight' = NoLoad
  /\ UNCHANGED <<now, published, db, load, waits>>

----------------------------------------------------------------------------
\* A load: loadExchangeRateTable.

Step(l, stage, table, todo) ==
  load' = [load EXCEPT ![l] = [at |-> stage, table |-> table, todo |-> todo]]

\* A mutant: the load counts as done once the provider has answered.
FetchUnregisters(l) ==
  /\ load[l].at = "fetch"
  /\ Step(l, "persist", [at |-> published, source |-> "provider", has |-> Target],
          Target)
  /\ inFlight' = NoLoad
  /\ UNCHANGED <<now, published, cache, db, waits, clears>>

FetchSucceeds(l) ==
  /\ load[l].at = "fetch"
  /\ Step(l, "persist", [at |-> published, source |-> "provider", has |-> Target],
          Target)
  /\ UNCHANGED <<now, published, cache, inFlight, db, waits, clears>>

\* The provider does not answer within ten seconds, or not with rates.
FetchFails(l) ==
  /\ load[l].at = "fetch"
  /\ Step(l, "database", Built, {})
  /\ UNCHANGED <<now, published, cache, inFlight, db, waits, clears>>

Earliest(times) == CHOOSE x \in times : \A y \in times : x <= y

\* persistExchangeRateTableToDatabase saves one row after the other.
PersistRow(l) ==
  LET t == Earliest(load[l].todo)
      todo == load[l].todo \ {t}
  IN  /\ load[l].at = "persist"
      /\ db' = [db EXCEPT ![t] = load[l].table.at]
      /\ Step(l, IF todo = {} THEN "settle" ELSE "persist", load[l].table, todo)
      /\ UNCHANGED <<now, published, cache, inFlight, waits, clears>>

\* A row that cannot be saved: the provider's rates are dropped.
PersistFails(l) ==
  /\ load[l].at = "persist"
  /\ Step(l, "database", Built, {})
  /\ UNCHANGED <<now, published, cache, inFlight, db, waits, clears>>

Rows == {t \in Target : db[t] # NoRow}

(* The rows of this base are decimals, which the driver returns as strings *)
(* and filterSupportedRates then drops; the inverse of a row from another  *)
(* base is a number.  `inverse` are the currencies that only have such a   *)
(* row, and `d` the oldest of those rows' dates.                           *)
FromDatabase(inverse, d) ==
  [at |-> Earliest({db[t] : t \in Rows} \cup (IF inverse = {} THEN {} ELSE {d})),
   source |-> "database", has |-> inverse]

ReadDatabase(l) ==
  /\ load[l].at = "database"
  /\ \E inverse \in SUBSET (Target \ Rows), d \in 0..now :
       Step(l, "settle",
            IF Rows \cup inverse = {} THEN [Built EXCEPT !.at = now]
            ELSE FromDatabase(inverse, d), {})
  /\ UNCHANGED <<now, published, cache, inFlight, db, waits, clears>>

\* The built-in table is not reached when the database cannot be read.
ReadFails(l) ==
  /\ load[l].at = "database"
  /\ Step(l, "fail", Built, {})
  /\ UNCHANGED <<now, published, cache, inFlight, db, waits, clears>>

\* The requests that await the promise of l have their answer, or its error.
Answered(l) == [c \in Client |-> IF waits[c] = l THEN NoLoad ELSE waits[c]]

\* A mutant: a load that failed stays registered.
SettleWhenLoaded(l) ==
  /\ load[l].at \in {"settle", "fail"}
  /\ cache' = IF load[l].at = "settle" THEN load[l].table ELSE cache
  /\ inFlight' = IF load[l].at = "settle" THEN NoLoad ELSE inFlight
  /\ waits' = Answered(l)
  /\ load' = [load EXCEPT ![l] = Idle]
  /\ UNCHANGED <<now, published, db, clears>>

(* setCachedExchangeRateTable, then the finally block, which removes       *)
(* whatever load is registered by then.                                    *)
Settle(l) ==
  /\ load[l].at \in {"settle", "fail"}
  /\ cache' = IF load[l].at = "settle" THEN load[l].table ELSE cache
  /\ inFlight' = NoLoad
  /\ waits' = Answered(l)
  /\ load' = [load EXCEPT ![l] = Idle]
  /\ UNCHANGED <<now, published, db, clears>>

----------------------------------------------------------------------------
\* The world.

Tick ==
  /\ now < LastHour
  /\ now' = now + 1
  /\ UNCHANGED <<published, cache, inFlight, db, load, waits, clears>>

Publish ==
  /\ published # now
  /\ published' = now
  /\ UNCHANGED <<now, cache, inFlight, db, load, waits, clears>>

Progress(l) ==
  \/ FetchSucceeds(l) \/ FetchFails(l)
  \/ PersistRow(l) \/ PersistFails(l) \/ ReadDatabase(l) \/ ReadFails(l)
  \/ Settle(l)

Next ==
  \/ \E c \in Client : AskFresh(c) \/ AskStale(c) \/ AskNothing(c)
  \/ \E l \in Load : Progress(l)
  \/ Refresh \/ ClearCache \/ Tick \/ Publish

\* The provider answers or times out, and so does the database.
Fairness == \A l \in Load : WF_vars(Progress(l))

Spec == Init /\ [][Next]_vars /\ Fairness

----------------------------------------------------------------------------
(* Requests, refreshes and the cron share one load; only clearing the      *)
(* cache makes the service load a table it is already loading, and each    *)
(* clearing once: a load that was forgotten unregisters the one that took  *)
(* its place, but then it is gone itself.                                  *)
OneLoad == Cardinality(Running) <= 1 + clears

(* Unless the cache was cleared, the provider's table in the cache and the *)
(* rows in the database only move forward in time: an older answer of the  *)
(* provider never overwrites a newer one.                                  *)
NeverBack ==
  [][clears = 0 =>
       /\ \A t \in Target : db'[t] >= db[t]
       /\ (cache \in Table /\ cache' \in Table
           /\ cache.source = "provider" /\ cache'.source = "provider")
             => cache'.at >= cache.at]_vars

(* Every request that awaits a load has its answer in the end, the ones    *)
(* whose load was forgotten by a clearing of the cache too.                *)
RequestsAnswered == \A c \in Client : waits[c] # NoLoad ~> waits[c] = NoLoad
=============================================================================
