------------------------------ MODULE Services ------------------------------
(***************************************************************************)
(* The services of a provider, as the three components that keep them see   *)
(* them: the category and the attributes (Catalog), the prices, groups and *)
(* options that a reservation quotes (Quote), and the pictures (Media).     *)
(* Each reads and writes columns and tables of its own; all they share is   *)
(* the row of the service, which is created once and deleted once, and     *)
(* each of the three has that deletion among its steps.                     *)
(***************************************************************************)
EXTENDS Catalog

CONSTANTS
  Provider, Service, Group, Option, Editor, Customer,
  Owner, Trees, Selections, Width,
  TreeAsks,   \* what the editors of options may ask for
  Image, Sender, Galleries, MaxPerService,
  MediaAsks,  \* what the requests about pictures may ask for
  MaxFaults, MaxLost \* bounds on their calls that fail

VARIABLES
  tree, used, edit, visit,
  offered, \* the services that Media finds
  row, logo, file, clock, faults, lost,
  keys,    \* the keys that storage has generated
  upload   \* the requests about pictures

Quote == INSTANCE Quote WITH Asks <- TreeAsks
Media == INSTANCE Media WITH Request <- Sender, Asks <- MediaAsks,
                             service <- offered, used <- keys, request <- upload

ASSUME ServicesAssumption ==
  CatalogAssumption /\ Quote!QuoteAssumption /\ Media!MediaAssumption

trees == <<tree, used, edit, visit>>
pictures == <<offered, row, logo, file, keys, clock, upload, faults, lost>>
servicesVars == <<vars, trees, pictures>>

ServicesInit == Init /\ Quote!Init /\ Media!Init

ServicesNext ==
  \/ Next /\ UNCHANGED <<trees, pictures>>
  \/ Quote!Next /\ UNCHANGED <<vars, pictures>>
  \/ Media!Next /\ UNCHANGED <<vars, trees>>

ServicesSpec == ServicesInit /\ [][ServicesNext]_servicesVars

-----------------------------------------------------------------------------
(* Properties: those of the three, where their comments are.               *)

\* What a service holds is of one form and was asked for: by some category whatever
\* writers overlap, by its own until they do.
AttributesFit == OneForm /\ FitsAsAsked

\* Whatever edits overlap, a definition that chooses has options to choose from, rows
\* refer to rows that exist, and the constraints of the tables are met before an INSERT
\* finds them broken; until two requests overlap, none loses what another stored.
DefinitionsHold ==
  TypeOK /\ OptionsToChooseFrom /\ NothingDangles /\ NoSurprise /\ PatchKeeps

\* However edits of the trees overlap, no option loses its group nor a group its
\* service, and updates of different fields of a service both stay in effect; and a
\* booking is as long as the slot that was found free, unless they were edited between.
TreesHold ==
  Quote!NoOrphans /\ Quote!PatchesSurvive /\ Quote!BookedAsCheckedUnlessEdited

\* What a row or the logo's column names is stored, and in the order of the uploads;
\* where no call fails, nothing is stored in a gallery that nothing names.
RowsAndBytesAgree ==
  Media!TypeOK /\ Media!UploadOrderPreserved /\ Media!NoDangling /\ Media!NoLitter

\* Whatever requests overlap, a provider changes rows of its own only, and a gallery
\* outgrows its limit only by an upload whose count was overtaken.
WithinOwnBounds ==
  [][OwnServicesOnly /\ Quote!OwnTreeOnly /\ Media!WithinLimitUnlessRaced]_servicesVars
=============================================================================
