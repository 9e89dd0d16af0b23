------------------------------ MODULE Payments ------------------------------
(***************************************************************************)
(* Stripe payment intents and the PAYMENT transaction the API keeps beside *)
(* one: payments/payment.service.ts, its controller, and the handlers of   *)
(* payment_intent.* events at the two Stripe endpoints                     *)
(* (webhooks/enhanced-stripe-webhook.service.ts and                        *)
(* webhooks/stripe-webhook.service.ts).                                    *)
(*                                                                         *)
(* Stripe moves an intent and posts an event per move; it retries and      *)
(* reorders them, and neither endpoint looks at the intent again or at the *)
(* status the transaction already has.  A call, and the handling of an     *)
(* event, reads the transaction and saves it in two steps.  What the       *)
(* handlers go on to do to the booking an intent names, and to its owner's *)
(* wallet, are the calls "credit" and "notice" of BookingSettlement.       *)
(***************************************************************************)
EXTENDS Naturals, FiniteSets

CONSTANTS
    Payment,    \* payment intents
    Call,       \* requests and event handlers under way
    NoCall,     \* nobody
    MaxEvents   \* bound on the events Stripe posts per intent

ASSUME PaymentAssumption == NoCall \notin Call /\ MaxEvents \in Nat

VARIABLES
    intent,     \* Payment -> status of the intent at Stripe
    posted,     \* Payment -> number of events posted so far
    events,     \* events not yet acknowledged: [of, kind]
    row,        \* Payment -> status of its transaction, "none" before it exists
    calls       \* Call -> what the call is doing

paymentVars == <<intent, posted, events, row>>

Kind == {"requires_action", "processing", "payment_failed", "succeeded", "canceled"}
Endpoint == {"enhanced", "older"}
Status == {"PENDING", "PROCESSING", "COMPLETED", "FAILED", "CANCELLED"}

\* payment.controller.ts stores the strings 'completed' and 'cancelled', which
\* are not members of TransactionStatus; only the second can be reached.
Stored == Status \cup {"none", "cancelled"}

Idle == [op |-> "idle"]

PaymentsInit ==
    /\ intent = [p \in Payment |-> "none"]
    /\ posted = [p \in Payment |-> 0]
    /\ events = {}
    /\ row = [p \in Payment |-> "none"]
    /\ calls = [c \in Call |-> Idle]

\* All idle calls are alike; the next request takes the first free one.
FreeCall(c) == c = CHOOSE d \in Call : calls[d] = Idle
SomeFree == \E c \in Call : calls[c] = Idle
Do(c, work) == calls' = [calls EXCEPT ![c] = work]
Return(c) == Do(c, Idle)

-----------------------------------------------------------------------------
(* Stripe                                                                  *)

Post(p, kind) ==
    /\ posted[p] < MaxEvents
    /\ posted' = [posted EXCEPT ![p] = @ + 1]
    /\ events' = events \cup {[of |-> p, kind |-> kind]}

\* The customer confirms with the client secret or answers a challenge, and
\* the bank decides; the secret leaves the API with the answer of the call that
\* created the intent.  The intents are created with capture_method automatic:
\* none waits for a capture.
CustomerPays(p) ==
    \E kind \in Kind \ {"canceled"} :
        /\ intent[p] \in {"open", "processing"}
        /\ \A c \in Call : calls[c] # [op |-> "hold", of |-> p]
        /\ intent[p] = "processing" => kind \in {"payment_failed", "succeeded"}
        /\ Post(p, kind)
        /\ intent' = [intent EXCEPT ![p] =
                CASE kind = "succeeded"  -> "succeeded"
                  [] kind = "processing" -> "processing"
                  [] OTHER               -> "open"]
        /\ UNCHANGED <<row, calls>>

-----------------------------------------------------------------------------
(* Requests                                                                *)

\* createPaymentIntent and createPaymentIntentWith3DS: an intent and no
\* transaction.
CreateIntent(p) ==
    /\ intent[p] = "none"
    /\ intent' = [intent EXCEPT ![p] = "open"]
    /\ UNCHANGED <<posted, events, row, calls>>

\* holdFundsForBooking creates the intent first and its transaction second.
HoldFunds(c, p) ==
    /\ FreeCall(c) /\ intent[p] = "none"
    /\ intent' = [intent EXCEPT ![p] = "open"]
    /\ Do(c, [op |-> "hold", of |-> p])
    /\ UNCHANGED <<posted, events, row>>

\* createTransactionForPaymentIntent; when the insert fails the intent stays.
HoldSaves(c) ==
    /\ calls[c].op = "hold"
    /\ \/ row' = [row EXCEPT ![calls[c].of] = "PENDING"]
       \/ UNCHANGED row
    /\ Return(c)
    /\ UNCHANGED <<intent, posted, events>>

\* POST intent/:id/cancel and POST booking/release/:id cancel at Stripe and
\* then update the transaction; Stripe refuses once the money has moved.
CancelIntent(c, p, status) ==
    /\ FreeCall(c) /\ status \in {"CANCELLED", "cancelled"}
    /\ intent[p] = "open"
    /\ Post(p, "canceled")
    /\ intent' = [intent EXCEPT ![p] = "canceled"]
    /\ Do(c, [op |-> "write", of |-> p, status |-> status, event |-> "none"])
    /\ UNCHANGED row

-----------------------------------------------------------------------------
(* Events                                                                  *)

\* The status an endpoint's handler stores, "none" where it stores nothing.
Meaning(endpoint, kind) ==
    CASE kind = "succeeded"      -> "COMPLETED"
      [] kind = "payment_failed" -> "FAILED"
      [] kind = "canceled"       -> "CANCELLED"
      [] kind = "processing"     -> IF endpoint = "older" THEN "PROCESSING" ELSE "none"
      [] OTHER                   -> IF endpoint = "enhanced" THEN "PENDING" ELSE "none"

\* updateTransactionFromPaymentIntent looks the transaction up by its external
\* reference; without one the handler only warns.
TakeEvent(c, e, endpoint) ==
    /\ FreeCall(c) /\ e \in events
    /\ Meaning(endpoint, e.kind) # "none" /\ row[e.of] # "none"
    /\ Do(c, [op |-> "write", of |-> e.of, status |-> Meaning(endpoint, e.kind),
              event |-> e.kind])
    /\ UNCHANGED paymentVars

\* Nothing to store: the event is acknowledged.
SkipEvent(e, endpoint) ==
    /\ e \in events
    /\ Meaning(endpoint, e.kind) = "none" \/ row[e.of] = "none"
    /\ events' = events \ {e}
    /\ UNCHANGED <<intent, posted, row, calls>>

\* The save, for a handler and for updateTransactionStatus.  A transaction that
\* does not exist is a NotFoundException for a request.  Stripe may post an
\* acknowledged event again, and does when the save fails.
WriteStatus(c) ==
    LET w == calls[c]
        e == [of |-> w.of, kind |-> w.event] IN
    /\ w.op = "write"
    /\ \/ row[w.of] # "none" /\ row' = [row EXCEPT ![w.of] = w.status]
       \/ UNCHANGED row
    /\ events' \in {events, events \ {e}}
    /\ Return(c)
    /\ UNCHANGED <<intent, posted>>

PaymentStep ==
    \/ \E p \in Payment : CustomerPays(p) \/ CreateIntent(p)
    \/ \E e \in events, endpoint \in Endpoint : SkipEvent(e, endpoint)
    \/ /\ SomeFree
       /\ \E c \in Call :
            \/ \E p \in Payment : HoldFunds(c, p)
            \/ \E p \in Payment, s \in {"CANCELLED", "cancelled"} : CancelIntent(c, p, s)
            \/ \E e \in events, endpoint \in Endpoint : TakeEvent(c, e, endpoint)

PaymentProgress(c) == HoldSaves(c) \/ WriteStatus(c)

-----------------------------------------------------------------------------
\* A transaction that reads COMPLETED belongs to an intent Stripe has been paid
\* for: whatever the order in which events, cancellations and releases are
\* applied, no unpaid intent is taken for a paid one.
CompletedIsPaid ==
    \A p \in Payment : row[p] = "COMPLETED" => intent[p] = "succeeded"
=============================================================================
