-------------------------------- MODULE Accounts --------------------------------
(***************************************************************************)
(* A user's account between its user, the administrators and the identity  *)
(* provider: users.service.ts and auth.service.ts.  Every change loads the *)
(* whole user, assigns some columns after other awaits (bcrypt, the store  *)
(* of pictures), and saves: save selects the row again and updates every   *)
(* column in which the loaded user differs from it.                        *)
(*                                                                         *)
(* A user is the set of the flags that its row has set.  The other columns *)
(* - names, password, picture, identity, codes - are not told apart; that  *)
(* a password, a code or a picture is the right one is an input.           *)
(***************************************************************************)
EXTENDS FiniteSets

CONSTANTS Visit       \* calls in flight

VARIABLES account,    \* the row of an e-mail address: whether it is there, and its flags
          owned,      \* the rows that registration adds
          visit,      \* the calls
          held,       \* history: a suspension was saved, and neither an activation nor a
                      \* call that had loaded the user before it has been saved since
          blended     \* history: two saves had both selected the row before either updated it

vars == <<account, owned, visit, held, blended>>

\* isActive, isSuspended (a reason), verifiedEmail, resetPasswordToken
Flag == {"active", "suspended", "verified", "token"}
Belonging == {"wallet", "preferences"}
Kind == {"register", "suspend", "activate", "other"}
NoVisit == [at |-> "idle", kind |-> "other", user |-> {}, diff |-> {}, stale |-> FALSE, mixed |-> FALSE]

TypeOK ==
  /\ account \in [here : {"unknown", "live", "deleted"}, flags : SUBSET Flag]
  /\ owned \subseteq Belonging
  /\ visit \in [Visit -> [at : {"idle", "create", "wallet", "preferences", "select", "update", "insert"},
                          kind : Kind, user : SUBSET Flag, diff : SUBSET Flag,
                          stale : BOOLEAN, mixed : BOOLEAN]]
  /\ held \in BOOLEAN /\ blended \in BOOLEAN

Init ==
  /\ account = [here |-> "unknown", flags |-> {}] /\ owned = {}
  /\ visit = [v \in Visit |-> NoVisit]
  /\ held = FALSE /\ blended = FALSE
-----------------------------------------------------------------------------
Step(v, label) == visit' = [visit EXCEPT ![v].at = label]
End(v) == visit' = [visit EXCEPT ![v] = NoVisit]

\* The row is written by v: what other calls have loaded or selected is old.
Overtaken(v) ==
  visit' = [w \in Visit |-> IF w = v THEN NoVisit
                            ELSE IF visit[w].at = "idle" THEN visit[w]
                            ELSE [visit[w] EXCEPT !.stale = TRUE, !.mixed = @ \/ visit[w].at = "update"]]

\* create: the address and the currency have been looked up.
Register(v) ==
  /\ visit[v].at = "idle" /\ account.here = "unknown"
  /\ \E verified \in BOOLEAN :
       visit' = [visit EXCEPT ![v] = [NoVisit EXCEPT !.at = "create", !.kind = "register",
                   !.user = {"active"} \cup (IF verified THEN {"verified"} ELSE {})]]
  /\ UNCHANGED <<account, owned, held, blended>>

\* The address is unique: of two registrations one fails.
CreateRow(v) ==
  /\ visit[v].at = "create"
  /\ IF account.here = "unknown"
     THEN account' = [here |-> "live", flags |-> visit[v].user] /\ Step(v, "wallet")
     ELSE UNCHANGED account /\ End(v)
  /\ UNCHANGED <<owned, held, blended>>

\* Neither a wallet nor preferences can be added to a user who is gone; an error is
\* logged, and the registration goes on.
AddBelonging(v, belonging) ==
  /\ visit[v].at = belonging
  /\ \E added \in BOOLEAN :
       owned' = IF added /\ account.here = "live" THEN owned \cup {belonging} ELSE owned
  /\ IF belonging = "wallet" THEN Step(v, "preferences") ELSE End(v)
  /\ UNCHANGED <<account, held, blended>>
-----------------------------------------------------------------------------
Load(v, kind, user) ==
  /\ visit[v].at = "idle" /\ account.here = "live"
  /\ visit' = [visit EXCEPT ![v] = [NoVisit EXCEPT !.at = "select", !.kind = kind, !.user = user]]
  /\ UNCHANGED <<account, owned, held, blended>>

\* A mutant: the reason of the suspension stays.
ActivatedOnly(flags) == flags \cup {"active"}

Activated(flags) == (flags \cup {"active"}) \ {"suspended"}
Suspended(flags) == (flags \ {"active"}) \cup {"suspended"}

\* update, which an administrator may send verifiedEmail to
Update(v) == \E verified \in SUBSET {"verified"} : Load(v, "other", (account.flags \ {"verified"}) \cup verified)
UpdateProfile(v) == Load(v, "other", account.flags)
\* uploadProfilePicture loads the user before the store is asked, uploadProfilePhoto after.
UploadProfilePicture(v) == Load(v, "other", account.flags)
\* resetPassword: the clearing of codes and tokens that follows the save gives update
\* undefined values, which it leaves out.
ResetPassword(v) == Load(v, "other", account.flags)
\* changePassword, forcePasswordReset
ChangePassword(v) == Load(v, "other", account.flags)
\* verifyEmail, verifyEmailCode, verifyUserEmail
VerifyEmail(v) == Load(v, "other", account.flags \cup {"verified"})
VerifyIdentity(v) == Load(v, "other", account.flags)
VerifyResetCode(v) == Load(v, "other", account.flags \cup {"token"})
ActivateUser(v) == Load(v, "activate", Activated(account.flags))
DeactivateUser(v) == Load(v, "other", account.flags \ {"active"})
\* suspendUser, suspendUserWithEmail: the letter follows the save and cannot fail it.
SuspendUser(v) == Load(v, "suspend", Suspended(account.flags))

\* Requests for one user, or one of a bulkAction.
Change(v) ==
  \/ Update(v) \/ UpdateProfile(v) \/ UploadProfilePicture(v) \/ ResetPassword(v)
  \/ ChangePassword(v) \/ VerifyEmail(v) \/ VerifyIdentity(v)
  \/ VerifyResetCode(v) \/ ActivateUser(v) \/ DeactivateUser(v) \/ SuspendUser(v)
-----------------------------------------------------------------------------
Differing(v) == (visit[v].user \ account.flags) \cup (account.flags \ visit[v].user)

\* The columns that differ are going to be written.
Select(v) ==
  /\ visit[v].at = "select"
  /\ visit' = IF account.here = "live"
              THEN [visit EXCEPT ![v].at = "update", ![v].diff = Differing(v), ![v].user = @ \cap Differing(v)]
              ELSE [visit EXCEPT ![v].at = "insert"]
  /\ UNCHANGED <<account, owned, held, blended>>

\* The suspension that stands after a save.
Holds(v) ==
  CASE visit[v].kind = "suspend"  -> ~visit[v].mixed
    [] visit[v].kind = "activate" -> FALSE
    [] OTHER                      -> held /\ ~visit[v].stale

Write(v) ==
  /\ visit[v].at = "update"
  /\ IF account.here = "live"
     THEN /\ account' = [account EXCEPT !.flags = (@ \ visit[v].diff) \cup visit[v].user]
          /\ held' = Holds(v)
          /\ blended' = (blended \/ visit[v].mixed)
          /\ Overtaken(v)
     ELSE UNCHANGED <<account, held, blended>> /\ End(v)
  /\ UNCHANGED owned

\* save inserts a user that is gone, without what belonged to it.
Insert(v) ==
  /\ visit[v].at = "insert"
  /\ IF account.here = "deleted"
     THEN account' = [here |-> "live", flags |-> visit[v].user] /\ Overtaken(v)
     ELSE UNCHANGED account /\ End(v)
  /\ UNCHANGED <<owned, held, blended>>

\* remove: preferences, unlike a wallet, keep their user (foreign key).
Remove(v) ==
  /\ visit[v].at = "idle" /\ account.here = "live" /\ "preferences" \notin owned
  /\ account' = [here |-> "deleted", flags |-> {}] /\ owned' = {} /\ held' = FALSE
  /\ Overtaken(v)
  /\ UNCHANGED blended

\* An error: a password cannot be hashed, a picture not stored, a row not written.
Abandon(v) ==
  /\ visit[v].at # "idle" /\ End(v)
  /\ UNCHANGED <<account, owned, held, blended>>

Next ==
  \E v \in Visit :
    \/ Register(v) \/ CreateRow(v) \/ \E belonging \in Belonging : AddBelonging(v, belonging)
    \/ Change(v) \/ Select(v) \/ Write(v) \/ Insert(v) \/ Remove(v) \/ Abandon(v)
-----------------------------------------------------------------------------
\* What lets a user in: loginWithCredentials, refreshToken, and the token of a
\* request (JwtStrategy).  None of them changes the row.
Login(flags) == "suspended" \notin flags /\ ("verified" \in flags \/ "token" \in flags)
Refresh(flags) == "active" \in flags
Validate(flags) == "suspended" \notin flags
Admitted(flags) == Login(flags) \/ Refresh(flags) \/ Validate(flags)

(* A suspended user is let in by none of the three checks, which look at   *)
(* different columns, until an activation, or a save by a call that had    *)
(* loaded the user before; and no user is both suspended and active, which *)
(* would let a token be refreshed, unless two saves had both selected the  *)
(* row before either wrote it.  (users.service.ts, auth.service.ts)        *)
SuspensionHolds ==
  /\ held => ~Admitted(account.flags)
  /\ {"suspended", "active"} \subseteq account.flags => blended
=============================================================================
