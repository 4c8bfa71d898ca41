----------------------------- MODULE MCServices -----------------------------
(* Services for TLC.  Components that write different variables show no     *)
(* more when they interleave: in a behaviour only one `part' moves, and its *)
(* guards say which requests arrive and how many.                          *)
EXTENDS Services, TLC

CONSTANT Parts \* the parts to be checked

VARIABLE part

Attributes == INSTANCE MCCatalog
Options == INSTANCE MCQuote
Pictures == INSTANCE MCMedia

-----------------------------------------------------------------------------
(* What is asked for, and what there is at first.                          *)

Categories == Attributes!Three
ServiceRows == Attributes!SeedRows
AlphabetOf == Attributes!Alpha
TrimmedOf == Attributes!Trims

CatalogAsks == Attributes!AllAsks \cup Attributes!ServiceAsks

GroupIds == Options!Groups
OptionIds == Options!Options
OwnerOf == Options!WhoOwns
EditAsks == Options!AllAsks

SomeTrees == Options!AllTrees \cup Options!WideTrees \cup Options!SmallTree
SomeSelections == Options!AllSelections \cup Options!FewSelections

ImageIds == { "i1", "i2", "i3", "i4", "i5" }
SomeGalleries == Pictures!SomeGalleries(ImageIds)

Wishes == Pictures!AllAsks

-----------------------------------------------------------------------------

allVars == <<servicesVars, part>>

MCInit ==
  /\ part \in Parts
  /\ ServicesInit
  /\ part # "quote" => tree \in Options!SmallTree
  /\ part \notin { "media", "gallery" } => row = Pictures!NoGallery(ImageIds)

\* Two requests of the part, of the writers three.
Begun == { q \in Request : request[q].pc # "idle" }
FirstTwo(asks) == IF Cardinality(Begun) < 2 THEN asks ELSE {}

CatalogNext ==
  /\ \/ part = "catalog" /\ Serve(FirstTwo(Attributes!AllAsks))
     \/ part = "one_writer" /\ Serve(FirstTwo(Attributes!ServiceAsks)) /\ alone'
     \/ part = "writers" /\ Serve(Attributes!SomeServiceAsks)
     \/ part = "one_admin" /\ Serve(FirstTwo(Attributes!Edits)) /\ alone'
  /\ UNCHANGED <<part, trees, pictures>>

QuoteNext ==
  /\ \/ part \in { "quote", "one_edit" } /\ \E c \in Customer : Quote!Reserve(c)
     \/ part = "one_edit" /\ Quote!Edit("e1")
     \/ part = "trees" /\ \E e \in Editor : Quote!Edit(e)
  /\ part = "one_edit" => visit'["c1"].chosen \in Options!FewSelections
  /\ UNCHANGED <<part, vars, pictures>>

\* Keys are all alike: the next to be drawn is the first that was not.
InTurn(drawn) == /\ "i4" \in drawn => "i3" \in drawn
                /\ "i5" \in drawn => "i4" \in drawn

MediaNext ==
  /\ part \in { "media", "gallery" } /\ Media!Next
  /\ InTurn(keys')
  /\ IF part = "media" THEN "i5" \notin keys' ELSE Media!GalleriesOnly'
  /\ UNCHANGED <<part, vars, trees>>

MCNext == CatalogNext \/ QuoteNext \/ MediaNext

MCSpec == MCInit /\ [][MCNext]_allVars

Symmetry == Permutations(Request)

-----------------------------------------------------------------------------
(* Properties, beside those of Services.                                   *)

\* A quote is that of the rule, its sums those of 32-bit integers, from the rows of one
\* moment, also when they are edited between its statements; and what the rule allows is
\* not refused.
QuotedAtOneMoment ==
  part \in { "quote", "one_edit" } =>
    Quote!TypeOK /\ Quote!QuotedAtOneMoment /\ Quote!NothingElseRefused
=============================================================================
