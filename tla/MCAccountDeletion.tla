------------------------- MODULE MCAccountDeletion -------------------------
(* One leaver u with a tool t that v rents (bo) and a tool tv of v that u  *)
(* rents (br); the payment xo of bo with its provider row po and a refund  *)
(* f, the payment xr of br; a dispute d and a review rv on the bookings; a *)
(* bookmark k of v on t, a notification n, and rows every account has.     *)
EXTENDS AccountDeletion, TLC

MCTable ==
  [u |-> "users", v |-> "users", w |-> "wallets", t |-> "tools",
   tv |-> "tools", ph |-> "photos", bo |-> "bookings", br |-> "bookings",
   xo |-> "transactions", xr |-> "transactions", po |-> "payments",
   f |-> "refunds", d |-> "disputes", rv |-> "toolReviews",
   k |-> "bookmarks", n |-> "notifications", p |-> "preferences",
   l |-> "requests", e |-> "emails", g |-> "logs", s |-> "sessions"]

MCRow == DOMAIN MCTable

MCAt ==
  [u |-> <<>>, v |-> <<>>, w |-> [user |-> "u"], t |-> [owner |-> "u"],
   tv |-> [owner |-> "v"], ph |-> [tool |-> "t"],
   bo |-> [tool |-> "t", renter |-> "v", owner |-> "u"],
   br |-> [tool |-> "tv", renter |-> "u", owner |-> "v"],
   xo |-> [sender |-> "v", booking |-> "bo"],
   xr |-> [sender |-> "u", booking |-> "br"],
   po |-> [transaction |-> "xo"],
   f |-> [transaction |-> "xo", booking |-> "bo"],
   d |-> [initiator |-> "v", respondent |-> "u", tool |-> "tv",
          booking |-> "br"],
   rv |-> [reviewer |-> "v", reviewee |-> "u", tool |-> "t",
           booking |-> "bo"],
   k |-> [user |-> "v", tool |-> "t"], n |-> [user |-> "u"],
   p |-> [user |-> "u"], l |-> [user |-> "u"], e |-> [user |-> "u"],
   g |-> [user |-> "u"], s |-> [user |-> "u"]]

MCCore == {"u", "v", "w", "t", "tv", "ph", "p", "l", "e", "g", "s"}
MCOptional == {"bo", "xo", "po", "br"}
MCEditable == {"n"}
=============================================================================
