------------------------------- MODULE Welcome -------------------------------
(***************************************************************************)
(* The welcome e-mail to one address that signed up.  A row of             *)
(* welcome_sends is claimed before the send and deleted again when Resend  *)
(* refuses it.  A request whose answer is lost, and a template that cannot *)
(* be read, throw: the call ends where it stands.                          *)
(***************************************************************************)
EXTENDS Naturals, FiniteSets

CONSTANT Signups   \* the calls of signup-confirmation for the address

\* What the constants have to be: the modules that use this one assume it.
WelcomeAssumption == IsFiniteSet(Signups)

VARIABLES claimed,   \* the address has a row in welcome_sends
          welcomes,  \* how many welcomes Resend accepted
          signups    \* where each call stands

welcomeVars == <<claimed, welcomes, signups>>

InFlight == {"claimed", "refused"}

WelcomeTypeOK ==
  /\ claimed \in BOOLEAN /\ welcomes \in Nat
  /\ signups \in [Signups -> InFlight \cup {"start", "done"}]

WelcomeInit ==
  claimed = FALSE /\ welcomes = 0 /\ signups = [r \in Signups |-> "start"]

Moves(r, label) == signups' = [signups EXCEPT ![r] = label]

\* The insert conflicts with the row of whoever claimed the address first; the
\* rate limit, a disabled welcome and a failing insert end the call, too.
ClaimWelcome(r) ==
  /\ signups[r] = "start"
  /\ \/ ~claimed /\ claimed' = TRUE /\ Moves(r, "claimed")
     \/ Moves(r, "done") /\ UNCHANGED claimed
  /\ UNCHANGED welcomes

\* Wrong: a lost answer is taken for a refusal.
SendWelcomeRollsBack(r) ==
  /\ signups[r] = "claimed"
  /\ \/ welcomes' = welcomes + 1 /\ \E label \in {"done", "refused"} : Moves(r, label)
     \/ UNCHANGED welcomes /\ Moves(r, "refused")
  /\ UNCHANGED claimed

\* Resend accepts, whether or not its answer arrives; or it refuses; or the
\* request never reaches it and the call throws.
SendWelcome(r) ==
  /\ signups[r] = "claimed"
  /\ \/ welcomes' = welcomes + 1 /\ Moves(r, "done")
     \/ UNCHANGED welcomes /\ \E label \in {"refused", "done"} : Moves(r, label)
  /\ UNCHANGED claimed

RollBackClaim(r) ==
  /\ signups[r] = "refused"
  /\ claimed' = FALSE /\ Moves(r, "done")
  /\ UNCHANGED welcomes

WelcomeNext == \E r \in Signups : ClaimWelcome(r) \/ SendWelcome(r) \/ RollBackClaim(r)

WelcomeSpec == WelcomeInit /\ [][WelcomeNext]_welcomeVars

\* However often and concurrently the confirmation is asked for, and whatever
\* is refused, rolled back or lost, an address is welcomed at most once.
WelcomedOnce == welcomes <= 1

\* A welcome that was not sent leaves no claim behind once no call is in flight
\* ("Send failures must not be sticky").  The code breaks it.
FailureNotSticky ==
  claimed /\ (\A r \in Signups : signups[r] \notin InFlight) => welcomes = 1
=============================================================================
