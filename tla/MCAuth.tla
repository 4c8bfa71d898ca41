------------------------------- MODULE MCAuth -------------------------------
(* Auth for TLC.  Sessions and codes share no variable, so that             *)
(* interleaving them shows no more than each does: in a behaviour only one  *)
(* `part' moves.                                                            *)
EXTENDS Auth, TLC

CONSTANTS Parts, \* the parts to be checked
          u1

VARIABLE part

Tokens == INSTANCE MCSessions
Proofs == INSTANCE MCVerification

TokenAsks == Tokens!AllAsks
DaysValid == Tokens!DaysValid
CodeAsks == Proofs!AllAsks

MCInit == part \in Parts /\ AuthInit

SessionsNext == part = "sessions" /\ Next /\ UNCHANGED <<part, mails>>
CodesNext == part = "codes" /\ Codes!Next /\ UNCHANGED <<part, vars>>

MCNext == SessionsNext \/ CodesNext

MCSpec == MCInit /\ [][MCNext]_<<vars, mails, part>>

\* The sets of one part share the model values of the other, and rows of codes those of
\* addresses: on each state TLC tries every permutation that these generate.
Symmetry == Permutations(Request) \cup Permutations(Mail)
=============================================================================
