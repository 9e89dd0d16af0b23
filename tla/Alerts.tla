-------------------------------- MODULE Alerts --------------------------------
(***************************************************************************)
(* The alert rules of payment-alerting.service.ts: objects in memory that  *)
(* checkAlerts goes through every five minutes and that an administrator   *)
(* changes.  A check awaits the metrics and then the notification of each  *)
(* alert; the next check may begin before it ends, and a change replaces   *)
(* the rule's object while a check still holds the old one.                *)
(***************************************************************************)
EXTENDS Integers, Sequences

CONSTANTS Rules,        \* the ids of the rules, in the order of alertRules
          Cooldown,     \* the cooldown the rules start with, in ticks, and its bound
          Check,        \* the slots of checks in flight
          LastTime,     \* bound: time ends there
          MaxUpdates    \* bound: the changes end when a rule was changed so often

VARIABLES time,     \* the clock
          rules,    \* alertRules: [enabled, cooldown, last, version], an object per version
          check,    \* the checks in flight
          sent,     \* history: when a check last sent an alert of a rule
          excused   \* history: the rules that two checks were alerting on at once,
                    \* or that were replaced while a check did

vars == <<time, rules, check, sent, excused>>

Rule == {Rules[i] : i \in DOMAIN Rules}
Moment == -Cooldown .. LastTime
Never == -Cooldown
Label == {"idle", "metrics", "rule", "alert", "note"}
NoCheck == [at |-> "idle", index |-> 1, version |-> 0]

TypeOK ==
  /\ time \in 0 .. LastTime
  /\ rules \in [Rule -> [enabled : BOOLEAN, cooldown : 1 .. Cooldown, last : Moment,
                      version : 0 .. MaxUpdates]]
  /\ check \in [Check -> [at : Label, index : 1 .. Len(Rules) + 1,
                          version : 0 .. MaxUpdates]]
  /\ sent \in [Rule -> Moment]
  /\ excused \subseteq Rule

Init ==
  /\ time = 0
  /\ rules = [r \in Rule |-> [enabled |-> TRUE, cooldown |-> Cooldown, last |-> Never,
                           version |-> 0]]
  /\ check = [c \in Check |-> NoCheck]
  /\ sent = [r \in Rule |-> Never]
  /\ excused = {}
-----------------------------------------------------------------------------
At(c) == Rules[check[c].index]
AlertingOn(r) == {c \in Check : check[c].at \in {"alert", "note"} /\ At(c) = r}

\* A mutant: the cooldown is taken for seconds.
InCooldownShort(r) == rules[r].last # Never /\ time < rules[r].last + 1

InCooldown(r) == rules[r].last # Never /\ time < rules[r].last + rules[r].cooldown

CheckAlerts(c) ==
  /\ check[c].at = "idle"
  /\ check' = [check EXCEPT ![c].at = "metrics"]
  /\ UNCHANGED <<time, rules, sent, excused>>

\* They are counted once; what they come to is chosen when a rule looks.
GetCurrentMetrics(c) ==
  /\ check[c].at = "metrics"
  /\ check' = [check EXCEPT ![c].at = "rule"]
  /\ UNCHANGED <<time, rules, sent, excused>>

\* The rule's turn: it alerts when its metric is beyond its threshold.
CheckAlertRule(c, beyond) ==
  LET r == At(c) IN
  /\ check[c].at = "rule" /\ check[c].index <= Len(Rules)
  /\ IF rules[r].enabled /\ ~InCooldown(r) /\ beyond
     THEN /\ check' = [check EXCEPT ![c] = [@ EXCEPT !.at = "alert",
                                              !.version = rules[r].version]]
          /\ excused' = IF AlertingOn(r) # {} THEN excused \cup {r} ELSE excused
     ELSE /\ check' = [check EXCEPT ![c].index = @ + 1]
          /\ UNCHANGED excused
  /\ UNCHANGED <<time, rules, sent>>

CheckEnds(c) ==
  /\ check[c].at = "rule" /\ check[c].index > Len(Rules)
  /\ check' = [check EXCEPT ![c] = NoCheck]
  /\ UNCHANGED <<time, rules, sent, excused>>

\* triggerAlert: a notification that cannot be created is only logged.
TriggerAlert(c) ==
  /\ check[c].at = "alert"
  /\ \/ sent' = [sent EXCEPT ![At(c)] = time]
     \/ UNCHANGED sent
  /\ check' = [check EXCEPT ![c].at = "note"]
  /\ UNCHANGED <<time, rules, excused>>

\* lastTriggered is set on the object the check holds.
NoteAlert(c) ==
  LET r == At(c) IN
  /\ check[c].at = "note"
  /\ IF rules[r].version = check[c].version
     THEN /\ rules' = [rules EXCEPT ![r].last = time]
          /\ excused' = IF AlertingOn(r) = {c} THEN excused \ {r} ELSE excused
     ELSE /\ excused' = excused \cup {r}
          /\ UNCHANGED rules
  /\ check' = [check EXCEPT ![c] = [@ EXCEPT !.at = "rule", !.index = check[c].index + 1,
                                      !.version = 0]]
  /\ UNCHANGED <<time, sent>>

\* PUT rules/:id makes a new object of the old one and of what the body names.
UpdateAlertRule(r) ==
  /\ \A s \in Rule : rules[s].version < MaxUpdates
  /\ \E enabled \in BOOLEAN, cooldown \in 1 .. Cooldown :
       rules' = [rules EXCEPT ![r] = [@ EXCEPT !.enabled = enabled, !.cooldown = cooldown,
                                        !.version = rules[r].version + 1]]
  /\ excused' = IF AlertingOn(r) # {} THEN excused \cup {r} ELSE excused
  /\ UNCHANGED <<time, check, sent>>

\* POST rules/:id/toggle changes the object.
ToggleAlertRule(r, enabled) ==
  /\ rules' = [rules EXCEPT ![r].enabled = enabled]
  /\ UNCHANGED <<time, check, sent, excused>>

\* POST rules/:id/test sends an alert at once, in the cooldown or not, and leaves
\* lastTriggered as it is; it is no alert of a check.
TestAlertRule(r) == UNCHANGED vars

Advance ==
  /\ time < LastTime
  /\ time' = time + 1
  /\ UNCHANGED <<rules, check, sent, excused>>

Next ==
  \/ \E c \in Check :
       \/ CheckAlerts(c) \/ GetCurrentMetrics(c) \/ CheckEnds(c)
       \/ \E beyond \in BOOLEAN : CheckAlertRule(c, beyond)
       \/ TriggerAlert(c) \/ NoteAlert(c)
  \/ \E r \in Rule :
       \/ UpdateAlertRule(r) \/ TestAlertRule(r)
       \/ \E enabled \in BOOLEAN : ToggleAlertRule(r, enabled)
  \/ Advance
-----------------------------------------------------------------------------
(* Two alerts that the checks send of a rule are the cooldown apart that   *)
(* the rule has when the second is sent, however long the checks wait for  *)
(* the metrics, the notifications and each other, and whatever an          *)
(* administrator changes or tests; unless two checks were alerting on the  *)
(* rule at once, or the rule was replaced while a check was, whose note of *)
(* the alert is then lost with the old object.                             *)
SpacedStep ==
  \A r \in Rule :
    sent'[r] # sent[r] /\ r \notin excused => time >= sent[r] + rules[r].cooldown

AlertsSpaced == [][SpacedStep]_vars
=============================================================================
