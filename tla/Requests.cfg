\* Two handlers at a time, one email, one phone.
CONSTANTS
  Tx = {t1, t2}
  Email = {e}
  Phone = {p}
  Nothing = Nothing
  Blank = Blank
  MaxAttempts = 2
  MaxCustomer = 2
  MaxNumber = 2
  MaxDecided = 1
  Target = {"under_review", "cancelled"}
  MaxEdited = 1
  Few = TRUE
  Limit = 10
SYMMETRY Symmetry
SPECIFICATION Spec
INVARIANTS Gapless
PROPERTIES RefusedOnlyByRivals FiledUnderMatch ImplementsRegistry
