----------------------------- MODULE Scheduling -----------------------------
(***************************************************************************)
(* scheduling.Scheduler and its cache of availability: the requests that   *)
(* read lists of slots and, beside them, those that edit resources and     *)
(* hours.  To the cache an edit is a new version, whatever was edited; to  *)
(* the tables a list is one that has been read or put, before or after an  *)
(* edit.  Hence neither writes what the other reads.                       *)
(***************************************************************************)
EXTENDS AvailabilityCache

CONSTANTS Resource, Service, Row, Exception, Request,
          Owner, Existing, Booked, Initially, Weeks, Day, Date, Midnight,
          Asks,     \* what the requests that edit may ask for
          MaxFaults \* bound on their statements that fail

VARIABLES resource, performs, hours, exception, used, lists, request, faults

Hours == INSTANCE Hours

ASSUME SchedulingAssumption == Hours!HoursAssumption

tables == <<resource, performs, hours, exception, used, lists, request, faults>>

SchedulingInit == Init /\ Hours!Init

SchedulingNext ==
  \/ Next /\ UNCHANGED tables
  \/ Hours!Next /\ UNCHANGED vars

SchedulingSpec == SchedulingInit /\ [][SchedulingNext]_<<vars, tables>>

-----------------------------------------------------------------------------
\* Hours and exceptions speak of resources that exist and are the provider's own, with
\* one exception for a date and a scope; and a cached list is older than they are only
\* while an edit is on its way, after one that ended in an error, or when an
\* invalidation came between the list's read and its put.
HoursStayConsistent == Hours!HoursStayConsistent

\* An edit of several statements is made as a whole.  A resource reported as created
\* performs every service that was asked for; a week is replaced in one step, after
\* which it is what the scope has, and the hours of the other scopes are what they were.
EditsAreWhole == [][Hours!EditsAreWhole]_tables
=============================================================================
