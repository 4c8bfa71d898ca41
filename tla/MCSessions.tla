----------------------------- MODULE MCSessions -----------------------------
(* What TLC is given for Sessions.                                         *)
CONSTANTS u1, Token, None

\* What a request does not use is filled in with u1, None, "web" and TRUE.
Of(op, u, t, c, correct) ==
  [ op |-> op, user |-> u, token |-> t, client |-> c, correct |-> correct ]

DaysValid == [ web |-> 0, mobile |-> 1 ]

SignUps == { Of("sign_up", u1, None, c, TRUE) : c \in DOMAIN DaysValid }
SignIns == { Of("sign_in", u1, None, "web", correct) : correct \in BOOLEAN }
Refreshes == { Of("refresh", u1, t, "web", TRUE) : t \in Token }
SignOuts == { Of("sign_out", u1, t, "web", TRUE) : t \in Token }
Everywhere == { Of("everywhere", u1, None, "web", TRUE) }

AllAsks == SignUps \cup SignIns \cup Refreshes \cup SignOuts \cup Everywhere
=============================================================================
