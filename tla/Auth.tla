-------------------------------- MODULE Auth --------------------------------
(***************************************************************************)
(* auth.Service as a whole: the requests about sessions and, beside them,  *)
(* those about the codes that verify an address.  The two write different  *)
(* tables, and their statements interleave as they like.                   *)
(***************************************************************************)
EXTENDS Sessions

CONSTANTS Address, Secret,
          Mail,        \* the rows of verification_codes
          Visitor,     \* the requests about codes
          Wishes,      \* what they may ask for
          MaxAttempts, CodeTTL,
          MaxHour      \* bound on the clock of the codes

VARIABLES hour, failures, verified, code, visit, tries, overlap

Codes == INSTANCE Verification WITH
  Row <- Mail, Request <- Visitor, Asks <- Wishes, TTL <- CodeTTL, MaxTime <- MaxHour,
  now <- hour, faults <- failures, request <- visit

ASSUME AuthAssumption == Codes!VerificationAssumption

mails == <<hour, failures, verified, code, visit, tries, overlap>>

AuthInit == Init /\ Codes!Init

AuthNext ==
  \/ Next /\ UNCHANGED mails
  \/ Codes!Next /\ UNCHANGED vars

AuthSpec == AuthInit /\ [][AuthNext]_<<vars, mails>>

-----------------------------------------------------------------------------
\* However many submissions run at once, a code is compared with at most
\* maxVerificationAttempts of them.
GuessesBounded == Codes!GuessesBounded

\* Two simultaneous submissions of one code are not both accepted.
AcceptedOnce == Codes!AcceptedOnce

\* After a resend one code works, unless two issuings for the address overlapped.
OneLiveUnlessRaced == Codes!OneLiveUnlessRaced

\* An address becomes verified only by its own code, which that spends.
VerifiedByItsCode == Codes!VerifiedByItsCode
=============================================================================
