\* Three sessions of one user, two tokens and requests; two processes with
\* two attempts at a time, one arrival in each short window.  The two parts
\* use the same model values, so that one symmetry serves both.
CONSTANTS
  Nothing = Nothing
  Session = {s1, s2, s3}
  Token = {t1, t2}
  Request = {r1, r2}
  Limit = 2
  Process = {r1, r2}
  Attempt = {t1, t2}
  LoginEmailLimit = 1
  LoginFailureLimit = 1
  FailSpan = 2
  Horizon = 4
  MaxArrivals = 1
  MaxRestarts = 1
SYMMETRY Interchangeable
SPECIFICATION AuthSpec
INVARIANTS
  TokenUsedOnce
  KeptOneAtATime
  AdmittedWithinLimit
  GuessesBounded
PROPERTIES ImplementsFamilies
