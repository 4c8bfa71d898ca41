------------------------------ MODULE Calendar ------------------------------
(***************************************************************************)
(* What the reservation engine promises, without requests, transactions or *)
(* retries: a table of appointments in which a slot is taken in one step   *)
(* or not at all, and an appointment then moves along the lifecycle.       *)
(***************************************************************************)
EXTENDS Integers, Lifecycle

CONSTANTS Appointment, Resource, None

VARIABLE table

Entry == [ resource : Resource, start : Nat, end : Nat, status : Status ]

Taken(a) == table[a] # None

Clash(x, y) ==
  /\ x.resource = y.resource
  /\ IsActive(x.status) /\ IsActive(y.status)
  /\ x.start < y.end /\ y.start < x.end

Init == table = [a \in Appointment |-> None]

\* An appointment is entered, active, where it clashes with no other.
Reserve(a) ==
  LET entry == table'[a] IN
  /\ ~Taken(a)
  /\ entry \in Entry
  /\ IsActive(entry.status)
  /\ \A x \in Appointment : Taken(x) => ~Clash(table[x], entry)
  /\ table' = [table EXCEPT ![a] = entry]

\* An event of the lifecycle happens to an appointment.
Move(a) ==
  /\ Taken(a)
  /\ \E event \in Event : \E to \in NextStatus(table[a].status, event) :
       table' = [table EXCEPT ![a].status = to]

Next == \E a \in Appointment : Reserve(a) \/ Move(a)

Spec == Init /\ [][Next]_table
=============================================================================
