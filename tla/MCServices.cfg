SPECIFICATION MCSpec
CONSTANTS
  Parts = {"catalog", "one_writer", "writers", "one_admin", "quote", "one_edit",
           "trees", "media", "gallery"}
  Request = {q1, q2, q3}
  Sender = {q1, q2, q3}
  Category <- Categories
  Definition = {"size", "extras", "note", "heated", "d5"}
  ServiceId = {"s1", "s2"}
  Asks <- CatalogAsks
  AtOnce = 3
  Seed <- ServiceRows
  Alphabet <- AlphabetOf
  Trimmed <- TrimmedOf
  Provider = {"p1", "p2"}
  Service = {"s1", "s2"}
  Group <- GroupIds
  Option <- OptionIds
  Editor = {"e1", "e2"}
  Customer = {"c1"}
  Owner <- OwnerOf
  Trees <- SomeTrees
  TreeAsks <- EditAsks
  Selections <- SomeSelections
  Width = 6
  Image <- ImageIds
  Galleries <- SomeGalleries
  MediaAsks <- Wishes
  MaxPerService = 2
  MaxFaults = 1
  MaxLost = 0
  None = None
  Gone = Gone
SYMMETRY Symmetry
CHECK_DEADLOCK FALSE
INVARIANTS
  AttributesFit
  DefinitionsHold
  QuotedAtOneMoment
  TreesHold
  RowsAndBytesAgree
PROPERTIES
  WithinOwnBounds
