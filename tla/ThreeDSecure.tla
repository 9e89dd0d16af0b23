----------------------------- MODULE ThreeDSecure -----------------------------
(***************************************************************************)
(* When a payment needs 3-D Secure: is3DSecureRequired of                  *)
(* three-d-secure.service.ts, an OR of three sets of rules.  Amounts are   *)
(* in whole units of the currency; the time of day is an input.            *)
(***************************************************************************)
EXTENDS Integers, FiniteSets, FiniteSetsExt

\* "" is a country that is not given.
isEEACountry(country) ==
  country \in {"AT", "BE", "BG", "HR", "CY", "CZ", "DK", "EE", "FI", "FR", "DE", "GR", "HU", "IS", "IE",
               "IT", "LV", "LI", "LT", "LU", "MT", "NL", "NO", "PL", "PT", "RO", "SK", "SI", "ES", "SE"}

InEEA(currency, countries) == currency = "eur" \/ \E c \in countries : isEEACountry(c)
InUK(currency, countries) == currency = "gbp" \/ "GB" \in countries

\* The first area that applies decides.
checkRegulatoryRequirements(amount, currency, countries) ==
  IF InEEA(currency, countries) THEN amount >= 30
  ELSE InUK(currency, countries) /\ amount >= 25

\* Unlike the rules above, this one knows a currency in capitals, too.
HighRiskCurrency == {"usd", "cad", "aud", "USD", "CAD", "AUD"}
checkBusinessRules(amount, currency) ==
  amount >= 100 \/ (currency \in HighRiskCurrency /\ amount >= 50)

HighRiskCountry == {"CN", "RU", "NG", "PK"}
UnusualHour(hour) == hour < 6 \/ hour > 22
performRiskAssessment(amount, cardCountry, hour) ==
  (IF amount > 200 THEN 30 ELSE IF amount > 100 THEN 20 ELSE IF amount > 50 THEN 10 ELSE 0)
    + (IF cardCountry \in HighRiskCountry THEN 25 ELSE 0)
    + (IF UnusualHour(hour) THEN 15 ELSE 0) >= 40

is3DSecureRequired(amount, currency, cardCountry, issuingCountry, hour) ==
  \/ checkRegulatoryRequirements(amount, currency, {cardCountry, issuingCountry})
  \/ checkBusinessRules(amount, currency)
  \/ performRiskAssessment(amount, cardCountry, hour)

\* createPaymentIntentWith3DS: whether an amount is accepted, and whether Stripe is
\* told to challenge.  The country of the bill stands for both countries.
Accepted(amount, currency) ==
  amount \in 1..10000 /\ currency \in {"gbp", "eur", "usd", "GBP", "EUR", "USD"}
createPaymentIntentWith3DS(amount, currency, country, hour) ==
  [created |-> Accepted(amount, currency),
   challenge |-> is3DSecureRequired(amount, currency, country, country, hour)]

\* get3DSecureStats, of the sessions of the range: shares of a hundred.
get3DSecureStats(statuses) ==
  LET total == MapThenSumSet(LAMBDA s : statuses[s], DOMAIN statuses)
      Rate(s) == IF total > 0 THEN (100 * statuses[s]) \div total ELSE 0
  IN [total |-> total, success |-> Rate("completed"),
      challenge |-> Rate("challenge_required"), frictionless |-> Rate("frictionless_completed")]
-----------------------------------------------------------------------------
(* The rules of is3DSecureRequired come down to one threshold: a payment    *)
(* that is exempt stays so for any smaller amount, and the score adds      *)
(* nothing to the rules but for a card of a high-risk country at night,    *)
(* which always needs it.                                                  *)
ThresholdDecides(amount, currency, cardCountry, issuingCountry, hour) ==
  LET countries == {cardCountry, issuingCountry}
      thresholds ==
        {100} \cup (IF currency \in HighRiskCurrency THEN {50} ELSE {})
              \cup (IF InEEA(currency, countries) THEN {30} ELSE IF InUK(currency, countries) THEN {25} ELSE {})
              \cup (IF cardCountry \in HighRiskCountry /\ UnusualHour(hour) THEN {0} ELSE {})
  IN is3DSecureRequired(amount, currency, cardCountry, issuingCountry, hour) <=> amount >= Min(thresholds)

(* Capitals hide a currency from the rules of its area.  A payment asked    *)
(* for in capitals is challenged only if it is in small letters, but for   *)
(* euros of a British bill, which the British threshold then decides; and  *)
(* whoever pays a hundred is challenged. (payment.service.ts)              *)
ChallengeAgrees(amount, small, capital, country, hour) ==
  LET asked == createPaymentIntentWith3DS(amount, small, country, hour)
      shouted == createPaymentIntentWith3DS(amount, capital, country, hour)
  IN /\ asked.created = shouted.created
     /\ shouted.challenge => asked.challenge \/ (small = "eur" /\ country = "GB" /\ amount >= 25)
     /\ asked.created /\ amount >= 100 => shouted.challenge
=============================================================================
