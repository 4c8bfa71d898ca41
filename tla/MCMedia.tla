------------------------------- MODULE MCMedia -------------------------------
(* What TLC is given for Media.                                            *)

CONSTANT None

s1 == "s1"
i1 == "i1"
i2 == "i2"

Of(op, m, sort, legible) ==
  [ op |-> op, service |-> s1, image |-> m, sort |-> sort, legible |-> legible ]

Uploads == { Of("upload", None, 0, legible) : legible \in BOOLEAN }
Updates == { Of("update", m, sort, TRUE) : m \in {i1, i2}, sort \in {0, 5} }
Deletions == { Of("delete", m, 0, TRUE) : m \in {i1, i2} }
Logos == { Of("set_logo", None, 0, TRUE), Of("clear_logo", None, 0, TRUE) }
Services == { Of("delete_service", None, 0, TRUE) }

AllAsks == Uploads \cup Updates \cup Deletions \cup Logos \cup Services
           \cup { Of("set_logo", None, 0, FALSE) }
GalleryAsks == Uploads \cup Updates \cup Deletions

Photo(sort, created, after) ==
  [ service |-> s1, sort |-> sort, created |-> created, after |-> after, moved |-> FALSE ]

\* No photo; one that stayed when earlier ones were deleted; two.
NoGallery(Image) == [m \in Image |-> None]
SomeGalleries(Image) ==
  { NoGallery(Image),
    [m \in Image |-> IF m = i1 THEN Photo(2, 0, {}) ELSE None],
    [m \in Image |-> CASE m = i1 -> Photo(0, 0, {}) [] m = i2 -> Photo(1, 1, {i1})
                       [] OTHER -> None] }
=============================================================================
