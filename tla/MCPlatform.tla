------------------------------ MODULE MCPlatform ------------------------------
(***************************************************************************)
(* Platform, with the symmetry of the calls and of the rows, and the       *)
(* modules that have no state, checked over small inputs.                  *)
(***************************************************************************)
EXTENDS Platform, SequencesExt, TLC

Symmetry == Permutations(Call) \cup Permutations(Item)
-----------------------------------------------------------------------------
M == INSTANCE Metrics
T == INSTANCE ThreeDSecure

Row1 == [amount |-> 2, status |-> "COMPLETED", method |-> "card", sender |-> "none", country |-> "GB",
         device |-> "Unknown", browser |-> "b", reason |-> "unknown", day |-> 60, hour |-> 3,
         created |-> 4, processed |-> 2, original |-> TRUE]
Row2 == [Row1 EXCEPT !.amount = 3, !.status = "PENDING", !.method = "none", !.sender = "u",
                     !.country = "Unknown", !.device = "d", !.browser = "Unknown", !.reason = "r",
                     !.day = 28, !.hour = 23, !.created = 2, !.processed = 4, !.original = FALSE]
Row3 == [Row2 EXCEPT !.amount = -1, !.status = "FAILED", !.method = "card", !.device = "Unknown",
                     !.day = 59, !.hour = 3, !.processed = 2, !.original = TRUE]
Lists == SeqOf({Row1, Row2, Row3}, 3)

\* Today is the first of February, or a day of early March.
ASSUME MetricsAssumption ==
  /\ \A rows \in Lists : M!DistributionsPartition(rows) /\ M!AmountsAddUp(rows)
  /\ \A rows \in Lists, today \in {31, 60, 61, 66} : M!GrowthIsKnown(rows, today)
  /\ M!WeeksKnown(0..40) /\ M!WeeksKnown(350..750)

Prices == {0, 24, 25, 29, 30, 49, 50, 51, 99, 100, 101, 200, 201}
Countries == {"", "FR", "GB", "CN"}
Hours == {0, 5, 6, 22, 23}

ASSUME ThreeDSecureAssumption ==
  /\ \A amount \in Prices, currency \in {"eur", "gbp", "usd", "USD", "EUR"},
        card \in Countries \cup {"US"}, issuing \in Countries, hour \in Hours :
       T!ThresholdDecides(amount, currency, card, issuing, hour)
  /\ \A amount \in Prices, country \in Countries, hour \in Hours,
        currency \in {<<"eur", "EUR">>, <<"gbp", "GBP">>, <<"usd", "USD">>} :
       T!ChallengeAgrees(amount, currency[1], currency[2], country, hour)
=============================================================================
