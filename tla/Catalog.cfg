\* Every part of the catalog on its own: one product with three requests at a
\* time; two images and two tasks; two names and two editors; three requests
\* on one translation; one page with a form of two fields; one material with
\* two clerks; quotes of two lines under a ceiling of 30 with amounts next to
\* it, quarters as quantities, and percentages that round both ways.  The
\* parts use the same model values, so that one symmetry serves all.
CONSTANTS
  Product = {p}
  Request = {r1, r2, r3}
  Price = {0, 1, 2}
  MaxTrail = 3
  MaxVariants = 3
  Asset = {0, 1}
  Task = {t1, t2}
  Entry = {t1, t2}
  Editor = {t1, t2}
  Title = {"Oak", "OAK", "Oak 2"}
  SlugOf <- MCSlugOf
  MaxAttempts = 2
  Limit = 10
  Translator = {r1, r2, r3}
  Text = {1, 2}
  MaxRows = 3
  Page = {p}
  Field = {t1, t2}
  Value = {0, 1, 2}
  Trim <- MCTrim
  MaxCommits = 2
  Material = {m}
  Clerk = {t1, t2}
  Cost = {1, 2}
  LastDay = 2
  MaxPrices = 3
  MaxAmount = 30
  Scale = 4
  Amount = {0, 1, 3, 13, 30}
  Quantity = {1, 2, 4, 9}
  Percent = {0, 1, 33, 40, 50, 99, 100, 200}
  MaxLines = 2
SYMMETRY Symmetry
SPECIFICATION CatalogSpec
INVARIANTS
  TrailExplainsPrice
  VariantsAreNumbered
  FilesMatchRows
  OrderPersists
  NamesWhole
  PricesAreTraced
  PricesAddUp
PROPERTY SavesUndoOnlyUnseen
