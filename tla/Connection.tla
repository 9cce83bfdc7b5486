------------------------------ MODULE Connection ------------------------------
(***************************************************************************)
(* One QuickBooks connection: the external_connections row, the grant that *)
(* stands behind it at Intuit, and the edge functions that work on both,   *)
(* the OAuth callback, the import and the disconnect.  No function holds a *)
(* lock: each statement and each request to Intuit is a step of its own.   *)
(***************************************************************************)
EXTENDS Naturals, FiniteSets

CONSTANTS Callbacks, Imports, Disconnects,  \* the calls of each function
          MaxRetries,                       \* qbo_max_retries
          MaxGets,                          \* requests of one pull
          MaxPairs                          \* token pairs Intuit ever issues

\* What the constants have to be: the modules that use this one assume it.
ConnectionAssumption ==
  /\ MaxRetries \in Nat /\ MaxGets \in Nat \ {0} /\ MaxPairs \in Nat \ {0}
  /\ IsFiniteSet(Callbacks \cup Imports \cup Disconnects)
  /\ Callbacks \cap Imports = {} /\ Callbacks \cap Disconnects = {}
  /\ Imports \cap Disconnects = {}

VARIABLES conn,    \* the external_connections row; pair 0 is no tokens
          intuit,  \* the grant at Intuit and the newest pair it issued
          calls    \* the functions in flight

connectionVars == <<conn, intuit, calls>>

Functions == Callbacks \cup Imports \cup Disconnects
Pairs     == 0..MaxPairs
Labels    == {"start", "expired", "found", "granted", "stored", "refused", "reads",
              "stale", "get", "renew", "renewed", "gave up", "flip", "done"}

ConnectionTypeOK ==
  /\ conn \in [status : {"pending", "active", "error", "revoked"}, pair : Pairs,
               error : {"none", "failed", "oauth_state_expired", "intuit_revoke_unconfirmed"}]
  /\ intuit \in [grant : {"none", "live", "revoked"}, pair : Pairs]
  /\ calls \in [Functions -> [at : Labels, pair : Pairs, confirmed : BOOLEAN, gets : 0..MaxGets,
                              attempt : 0..MaxRetries + 1, waits : 0..MaxRetries + 1,
                              refreshed : BOOLEAN]]

ConnectionInit ==
  /\ conn = [status |-> "pending", pair |-> 0, error |-> "none"]
  /\ intuit = [grant |-> "none", pair |-> 0]
  /\ calls = [f \in Functions |->
       [at |-> "start", pair |-> 0, confirmed |-> FALSE, gets |-> 0,
        attempt |-> 0, waits |-> 0, refreshed |-> FALSE]]

-----------------------------------------------------------------------------
(* Intuit *)

At(f, label) == calls[f].at = label
Goto(f, label) == calls' = [calls EXCEPT ![f].at = label]

\* A pair that was rotated out may be honoured for a while.
Honoured(p) == intuit.grant = "live" /\ p # 0 /\ p <= intuit.pair

Issue(f, label) ==
  /\ intuit.pair < MaxPairs
  /\ intuit' = [grant |-> "live", pair |-> intuit.pair + 1]
  /\ \/ calls' = [calls EXCEPT ![f].at = label, ![f].pair = intuit.pair + 1]
     \/ Goto(f, "refused")     \* the answer was lost

Refuse(f) == Goto(f, "refused") /\ UNCHANGED intuit

-----------------------------------------------------------------------------
(* qbo-callback *)

CallbackFinds(f) ==
  /\ f \in Callbacks /\ At(f, "start")
  /\ IF conn.status = "pending" THEN \E label \in {"found", "expired"} : Goto(f, label)
                                ELSE Goto(f, "done")
  /\ UNCHANGED <<conn, intuit>>

\* Here and below, whether the row took the error is not checked.
CallbackExpires(f) ==
  /\ f \in Callbacks /\ At(f, "expired")
  /\ conn' \in {conn, [conn EXCEPT !.status = "error", !.error = "oauth_state_expired"]}
  /\ Goto(f, "done") /\ UNCHANGED intuit

\* The authorization code is good for one exchange.
ExchangeCode(f) ==
  /\ f \in Callbacks /\ At(f, "found")
  /\ \/ intuit.grant = "none" /\ Issue(f, "granted")
     \/ Refuse(f)
  /\ UNCHANGED conn

\* set_qbo_tokens does not look at the status of the row.
SetTokens(f) == conn' = [conn EXCEPT !.pair = calls[f].pair]

CallbackStores(f) ==
  /\ f \in Callbacks /\ At(f, "granted")
  /\ \/ SetTokens(f) /\ Goto(f, "stored")
     \/ Goto(f, "refused") /\ UNCHANGED conn
  /\ UNCHANGED intuit

CallbackActivates(f) ==
  /\ f \in Callbacks /\ At(f, "stored")
  /\ \/ conn' = [conn EXCEPT !.status = "active", !.error = "none"] /\ Goto(f, "done")
     \/ Goto(f, "refused") /\ UNCHANGED conn
  /\ UNCHANGED intuit

CallbackFails(f) ==
  /\ f \in Callbacks /\ At(f, "refused")
  /\ conn' \in {conn, [conn EXCEPT !.status = "error", !.error = "failed"]}
  /\ Goto(f, "done") /\ UNCHANGED intuit

-----------------------------------------------------------------------------
(* qbo-import *)

ImportFinds(f) ==
  /\ f \in Imports /\ At(f, "start")
  /\ Goto(f, IF conn.status = "active" THEN "reads" ELSE "done")
  /\ UNCHANGED <<conn, intuit>>

\* The tokens are read after the status; near their expiry they are renewed.
ImportReads(f) ==
  /\ f \in Imports /\ At(f, "reads")
  /\ IF conn.pair = 0 THEN Goto(f, "done")
     ELSE \E label \in {"stale", "get"} :
            calls' = [calls EXCEPT ![f].at = label, ![f].pair = conn.pair]
  /\ UNCHANGED <<conn, intuit>>

\* doRefresh, ahead of the pull ("stale") or after a 401 inside it ("renew").
RefreshToken(f) ==
  /\ f \in Imports /\ (At(f, "stale") \/ At(f, "renew"))
  /\ \/ Honoured(calls[f].pair) /\ Issue(f, "renewed")
     \/ Refuse(f)
  /\ UNCHANGED conn

\* Whether the new pair was stored is not checked.
ImportStores(f) ==
  /\ f \in Imports /\ At(f, "renewed")
  /\ SetTokens(f) \/ UNCHANGED conn
  /\ Goto(f, "get") /\ UNCHANGED intuit

\* A refresh that fails ahead of the pull marks the row; one that fails inside
\* it ends the import and leaves the row alone.
ImportFails(f) ==
  /\ f \in Imports /\ At(f, "refused")
  /\ \/ UNCHANGED conn
     \/ /\ ~calls[f].refreshed
        /\ conn' = [conn EXCEPT !.status = "error", !.error = "failed"]
  /\ Goto(f, "done") /\ UNCHANGED intuit

-----------------------------------------------------------------------------
(* qboGet *)

GetSucceeds(f) ==
  /\ f \in Imports /\ At(f, "get") /\ Honoured(calls[f].pair)
  /\ calls' = [calls EXCEPT ![f].at = IF calls[f].gets + 1 = MaxGets THEN "done" ELSE "get",
                            ![f].gets = @ + 1, ![f].attempt = 0, ![f].waits = 0,
                            ![f].refreshed = FALSE]
  /\ UNCHANGED <<conn, intuit>>

\* Wrong: every 401 refreshes the token again.
GetUnauthorizedAgain(f) ==
  /\ f \in Imports /\ At(f, "get")
  /\ calls' = [calls EXCEPT ![f].at = "renew", ![f].refreshed = TRUE, ![f].attempt = @ + 1]
  /\ UNCHANGED <<conn, intuit>>

\* The continue of the loop counts the refresh as an attempt, too.
GetUnauthorized(f) ==
  /\ f \in Imports /\ At(f, "get") /\ ~calls[f].refreshed
  /\ calls' = [calls EXCEPT ![f].at = "renew", ![f].refreshed = TRUE, ![f].attempt = @ + 1]
  /\ UNCHANGED <<conn, intuit>>

\* Wrong: a wait is not counted as an attempt.
GetBacksOffUncounted(f) ==
  /\ f \in Imports /\ At(f, "get") /\ calls[f].attempt < MaxRetries
  /\ calls' = [calls EXCEPT ![f].waits = (@ + 1) % 2]
  /\ UNCHANGED <<conn, intuit>>

GetBacksOff(f) ==
  /\ f \in Imports /\ At(f, "get") /\ calls[f].attempt < MaxRetries
  /\ calls' = [calls EXCEPT ![f].attempt = @ + 1, ![f].waits = @ + 1]
  /\ UNCHANGED <<conn, intuit>>

\* 429 or 5xx with the attempts used up, or any other status.
GetGivesUp(f) ==
  /\ f \in Imports /\ At(f, "get")
  /\ \/ calls[f].attempt >= MaxRetries /\ Goto(f, "gave up")
     \/ Goto(f, "done")
  /\ UNCHANGED <<conn, intuit>>

-----------------------------------------------------------------------------
(* qbo-disconnect *)

DisconnectFinds(f) ==
  /\ f \in Disconnects /\ At(f, "start")
  /\ Goto(f, IF conn.status = "revoked" THEN "done" ELSE "found")
  /\ UNCHANGED <<conn, intuit>>

DisconnectReads(f) ==
  /\ f \in Disconnects /\ At(f, "found")
  /\ calls' = [calls EXCEPT ![f].at = IF conn.pair = 0 THEN "flip" ELSE "reads",
                            ![f].pair = conn.pair]
  /\ UNCHANGED <<conn, intuit>>

\* Wrong: a revocation that failed is taken for one that Intuit confirmed.
RevokeTokenOptimist(f) ==
  /\ f \in Disconnects /\ At(f, "reads")
  /\ calls' = [calls EXCEPT ![f].at = "flip", ![f].confirmed = TRUE]
  /\ IF Honoured(calls[f].pair) THEN intuit' \in {intuit, [intuit EXCEPT !.grant = "revoked"]}
                                ELSE UNCHANGED intuit
  /\ UNCHANGED conn

\* The refresh token revokes the whole grant; the answer may be lost.
RevokeToken(f) ==
  /\ f \in Disconnects /\ At(f, "reads")
  /\ \/ /\ Honoured(calls[f].pair)
        /\ intuit' = [intuit EXCEPT !.grant = "revoked"]
        /\ \E ok \in BOOLEAN :
             calls' = [calls EXCEPT ![f].at = "flip", ![f].confirmed = ok]
     \/ Goto(f, "flip") /\ UNCHANGED intuit
  /\ UNCHANGED conn

\* An update that fails is answered "disconnect_failed" and leaves the row.
DisconnectFlips(f) ==
  /\ f \in Disconnects /\ At(f, "flip")
  /\ \/ UNCHANGED conn
     \/ conn' = [status |-> "revoked", pair |-> 0,
                 error |-> IF calls[f].confirmed THEN "none" ELSE "intuit_revoke_unconfirmed"]
  /\ Goto(f, "done") /\ UNCHANGED intuit

-----------------------------------------------------------------------------

ConnectionStep(f) ==
  \/ CallbackFinds(f) \/ CallbackExpires(f) \/ ExchangeCode(f) \/ CallbackStores(f)
  \/ CallbackActivates(f) \/ CallbackFails(f)
  \/ ImportFinds(f) \/ ImportReads(f) \/ RefreshToken(f) \/ ImportStores(f) \/ ImportFails(f)
  \/ GetSucceeds(f) \/ GetUnauthorized(f) \/ GetBacksOff(f) \/ GetGivesUp(f)
  \/ DisconnectFinds(f) \/ DisconnectReads(f) \/ RevokeToken(f) \/ DisconnectFlips(f)

ConnectionNext == \E f \in Functions : ConnectionStep(f)

ConnectionSpec ==
  ConnectionInit /\ [][ConnectionNext]_connectionVars
    /\ \A f \in Functions : WF_connectionVars(ConnectionStep(f))

-----------------------------------------------------------------------------
(* Properties *)

\* A row that says it was disconnected, and does not say that Intuit left the
\* revocation unconfirmed, has nothing live behind it: not even the pair that
\* an import in flight stored after the row was cleared still works.
ConfirmedMeansDead ==
  conn.status = "revoked" /\ conn.error = "none" => ~Honoured(conn.pair)

\* A disconnected row holds no credential, whatever Intuit answered
\* (qbo-disconnect: "so no live credential remains, regardless of the Intuit
\* outcome").  The code breaks it.
DisconnectedHoldsNothing ==
  conn.status = "revoked" => ~Honoured(conn.pair)

\* A request given up on 429 or 5xx has waited MaxRetries times first
\* (qboGet: a refresh "does NOT count as a backoff attempt").  The code
\* breaks it.
GivesUpAfterRetries ==
  \A f \in Functions : At(f, "gave up") => calls[f].waits = MaxRetries

\* Every call of the three functions ends: the loop of qboGet neither waits
\* nor refreshes for ever, whatever Intuit answers.
ConnectionCallsEnd ==
  <>(\A f \in Functions : At(f, "done") \/ At(f, "gave up"))
=============================================================================
