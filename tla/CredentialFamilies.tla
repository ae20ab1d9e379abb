------------------------- MODULE CredentialFamilies -------------------------
(***************************************************************************)
(* What the server promises about refresh credentials, in one step per     *)
(* change:                                                                 *)
(*   - signing in issues one that begins a family;                         *)
(*   - refreshing issues one, of the family of a credential that was live  *)
(*     when it was presented, and by the same step that one is over;       *)
(*   - whatever else happens, credentials only end, and what is over never *)
(*     lives again.                                                        *)
(* Two refreshes of one credential at once may both succeed: this is not   *)
(* promised otherwise.  AuthSessions implements this module with requests  *)
(* that overlap, AdminAuth with a server that answers one at a time.       *)
(***************************************************************************)
CONSTANTS Credential, Nothing

VARIABLES fate,      \* [Credential -> {"none", "live", "over"}]
          family,    \* [Credential -> the credential its family began with]
          presented  \* credentials that were live when somebody began to refresh them

familyVars == <<fate, family, presented>>

Fresh == {c \in Credential : fate[c] = "none"}
Living == {c \in Credential : fate[c] = "live"}

FamiliesInit ==
  /\ fate = [c \in Credential |-> "none"]
  /\ family = [c \in Credential |-> Nothing]
  /\ presented = {}

Over(gone) == [c \in Credential |-> IF c \in gone THEN "over" ELSE fate[c]]

(* The presentation is over; others may have presented the same. *)
Settled(of) == presented' \in {presented, presented \ {of}}

(* Credential c is issued, and it alone. *)
Issue(c, root, gone) ==
  /\ family' = [family EXCEPT ![c] = root]
  /\ fate' = [Over(gone) EXCEPT ![c] = "live"]

SignIn(c, gone) == UNCHANGED presented /\ Issue(c, c, gone)

Present(c) ==
  /\ presented' = presented \cup {c}
  /\ UNCHANGED <<fate, family>>

Succeed(c, of) == Settled(of) /\ Issue(c, family[of], {of})

Withdraw(of) == Settled(of) /\ UNCHANGED <<fate, family>>

End(gone) == UNCHANGED <<family, presented>> /\ fate' = Over(gone)

FamiliesNext ==
  \/ \E gone \in SUBSET Living : End(gone)
  \/ \E c \in Living : Present(c)
  \/ \E of \in presented : Withdraw(of)
  \/ \E c \in Fresh :
       \/ \E gone \in SUBSET Living : SignIn(c, gone)
       \/ \E of \in presented \cup Living : Succeed(c, of)

Spec == FamiliesInit /\ [][FamiliesNext]_familyVars
=============================================================================
