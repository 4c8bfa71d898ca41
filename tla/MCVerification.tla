--------------------------- MODULE MCVerification ---------------------------
(* What TLC is given for Verification.                                     *)
CONSTANT Address

Of(op, a, s) == [ op |-> op, address |-> a, secret |-> s ]

\* What is not submitted has no secret to choose: one stands for all.
Issues == { Of("issue", a, "s1") : a \in Address }
Resends == { Of("resend", a, "s1") : a \in Address }
Submissions == { Of("verify", a, s) : a \in Address, s \in {"s1", "s2"} }

AllAsks == Issues \cup Resends \cup Submissions
=============================================================================
