--------------------------- MODULE ServicesProofs ---------------------------
(***************************************************************************)
(* The protocols with services, each by itself.  Resend, TaxBandits and    *)
(* Intuit keep what they were once told: our records of them are right     *)
(* because a call writes down what it is about to do first, the claim of a *)
(* welcome with one holder, or the match of a vendor on a log that only    *)
(* grows.  Chat, the scheduled e-mails and Discord's memory depend on what *)
(* one call leaves to the next: the rules an isolate has loaded, the hour  *)
(* that is gone by, the exchanges a fold was computed from.                *)
(***************************************************************************)
EXTENDS MCServices, TLAPS

-----------------------------------------------------------------------------
(* The welcome e-mail *)

Flying(r) == signups[r] \in InFlight

\* A claim has one holder: a call in flight ...
OneFlies   == \A q, r \in Signups : Flying(q) /\ Flying(r) => q = r
FliesClaim == \A r \in Signups : Flying(r) => claimed
FliesFirst == \A r \in Signups : Flying(r) => welcomes = 0

\* ... or the welcome that was sent.
SentClaims == ~claimed => welcomes = 0

WelcomeInv == WelcomeTypeOK /\ WelcomedOnce /\ OneFlies /\ FliesClaim /\ FliesFirst /\ SentClaims

LEMMA WelcomeInitially == WelcomeInit => WelcomeInv
<1> SUFFICES ASSUME WelcomeInit PROVE WelcomeInv
  OBVIOUS
<1>1. \A r \in Signups : ~Flying(r)
  BY DEF WelcomeInit, Flying, InFlight
<1>2. signups \in [Signups -> InFlight \cup {"start", "done"}]
  BY DEF WelcomeInit
<1>3. claimed \in BOOLEAN
  BY DEF WelcomeInit
<1>4. welcomes = 0
  BY DEF WelcomeInit
<1> QED
  BY <1>1, <1>2, <1>3, <1>4
  DEF WelcomeInv, WelcomeTypeOK, WelcomedOnce, OneFlies, FliesClaim, FliesFirst, SentClaims

\* What a step to a label outside of flight leaves as it was.
LEMMA LandingKeeps ==
  ASSUME WelcomeInv, NEW r \in Signups, NEW label \in {"done", "refused"}, Moves(r, label),
         label = "refused" => Flying(r)
  PROVE  /\ signups' \in [Signups -> InFlight \cup {"start", "done"}]
         /\ \A q \in Signups : Flying(q)' => Flying(q)
         /\ label = "done" => ~Flying(r)'
  BY DEF WelcomeInv, WelcomeTypeOK, Flying, InFlight, Moves

\* The claim is taken only while nobody holds it.
LEMMA ClaimKeeps ==
  ASSUME WelcomeInv, NEW r \in Signups, ClaimWelcome(r)
  PROVE  WelcomeInv'
<1>1. welcomes' = welcomes /\ welcomes \in Nat /\ welcomes <= 1 /\ claimed \in BOOLEAN
  BY DEF ClaimWelcome, WelcomeInv, WelcomeTypeOK, WelcomedOnce
<1>2. CASE ~claimed /\ claimed' = TRUE /\ Moves(r, "claimed")
  <2>1. \A q \in Signups : ~Flying(q)
    BY <1>2 DEF WelcomeInv, FliesClaim
  <2>2. welcomes = 0
    BY <1>2 DEF WelcomeInv, SentClaims
  <2>3. Moves(r, "claimed") /\ signups \in [Signups -> InFlight \cup {"start", "done"}]
    BY <1>2 DEF WelcomeInv, WelcomeTypeOK
  <2>4. /\ signups' \in [Signups -> InFlight \cup {"start", "done"}]
        /\ \A q \in Signups : Flying(q)' => q = r
    BY <2>1, <2>3 DEF Moves, Flying, InFlight
  <2>5. claimed'
    BY <1>2
  <2> QED
    BY <1>1, <2>2, <2>4, <2>5
    DEF WelcomeInv, WelcomeTypeOK, WelcomedOnce, OneFlies, FliesClaim, FliesFirst, SentClaims
<1>3. CASE Moves(r, "done") /\ UNCHANGED claimed
  <2>1. claimed' = claimed
    BY <1>3
  <2>2. /\ signups' \in [Signups -> InFlight \cup {"start", "done"}]
        /\ \A q \in Signups : Flying(q)' => Flying(q)
    BY <1>3, LandingKeeps
  <2> QED
    BY <1>1, <2>1, <2>2
    DEF WelcomeInv, WelcomeTypeOK, WelcomedOnce, OneFlies, FliesClaim, FliesFirst, SentClaims
<1> QED
  BY ZenonT(40), <1>2, <1>3 DEF ClaimWelcome

\* A send is made by the one call that holds the claim.
LEMMA SendKeeps ==
  ASSUME WelcomeInv, NEW r \in Signups, SendWelcome(r)
  PROVE  WelcomeInv'
<1>1. Flying(r) /\ claimed' = claimed /\ claimed \in BOOLEAN
  BY DEF SendWelcome, Flying, InFlight, WelcomeInv, WelcomeTypeOK
<1>2. claimed /\ \A q \in Signups : Flying(q) => q = r
  BY <1>1 DEF WelcomeInv, OneFlies, FliesClaim
<1>3. welcomes = 0
  BY <1>1 DEF WelcomeInv, FliesFirst
<1>4. PICK label \in {"done", "refused"} :
        Moves(r, label) /\ ((welcomes' = welcomes + 1 /\ label = "done") \/ welcomes' = welcomes)
  BY DEF SendWelcome
<1>5. /\ signups' \in [Signups -> InFlight \cup {"start", "done"}]
      /\ \A q \in Signups : Flying(q)' => Flying(q)
      /\ label = "done" => ~Flying(r)'
  BY <1>1, <1>4, LandingKeeps
<1>6. welcomes' \in Nat /\ welcomes' <= 1 /\ \A q \in Signups : Flying(q)' => welcomes' = 0
  BY <1>2, <1>3, <1>4, <1>5
<1> QED
  BY <1>1, <1>2, <1>5, <1>6
  DEF WelcomeInv, WelcomeTypeOK, WelcomedOnce, OneFlies, FliesClaim, FliesFirst, SentClaims

\* The claim is given back by the call that holds it, before anything was sent.
LEMMA RollBackKeeps ==
  ASSUME WelcomeInv, NEW r \in Signups, RollBackClaim(r)
  PROVE  WelcomeInv'
<1>1. Flying(r) /\ Moves(r, "done") /\ welcomes' = welcomes
  BY DEF RollBackClaim, Flying, InFlight
<1>2. claimed' \in BOOLEAN
  BY DEF RollBackClaim
<1>3. welcomes = 0 /\ \A q \in Signups : Flying(q) => q = r
  BY <1>1 DEF WelcomeInv, OneFlies, FliesFirst
<1>4. /\ signups' \in [Signups -> InFlight \cup {"start", "done"}]
      /\ \A q \in Signups : ~Flying(q)'
  BY <1>1, <1>3, LandingKeeps
<1> QED
  BY <1>1, <1>2, <1>3, <1>4
  DEF WelcomeInv, WelcomeTypeOK, WelcomedOnce, OneFlies, FliesClaim, FliesFirst, SentClaims

LEMMA WelcomeStep == WelcomeInv /\ [WelcomeNext]_welcomeVars => WelcomeInv'
<1> SUFFICES ASSUME WelcomeInv, [WelcomeNext]_welcomeVars PROVE WelcomeInv'
  OBVIOUS
<1>1. CASE WelcomeNext
  BY <1>1, ClaimKeeps, SendKeeps, RollBackKeeps DEF WelcomeNext
<1>2. CASE UNCHANGED welcomeVars
  BY <1>2 DEF welcomeVars, WelcomeInv, WelcomeTypeOK, WelcomedOnce, OneFlies, FliesClaim,
              FliesFirst, SentClaims, Flying
<1> QED
  BY <1>1, <1>2

\* For any number of calls of signup-confirmation, the claim on welcome_sends
\* keeps the address from being welcomed twice.
THEOREM WelcomedAtMostOnce == WelcomeSpec => []WelcomedOnce
<1>1. WelcomeInv => WelcomedOnce
  BY DEF WelcomeInv
<1> QED
  BY WelcomeInitially, WelcomeStep, <1>1, PTL DEF WelcomeSpec

-----------------------------------------------------------------------------
(* The e-filing *)

Payloads == Supplied \cup {<< >>}

EfileShape ==
  /\ log \in Seq(Event)
  /\ requests \in [EfileCalls ->
       [at : {"start", "built", "ask", "create", "transmit", "record", "done"},
        tins : Payloads, matched : SUBSET Vendors, status : Statuses]]

OnRecord(vendors) == \E i \in DOMAIN log :
  log[i].phase = "tin_match" /\ log[i].status = "tin_matched" /\ vendors \subseteq log[i].matched
Held(c) == \E r \in returns : r.call = c /\ r.verdict # "rejected"

Checked   == \A c \in EfileCalls :
  requests[c].at \in {"create", "transmit"} => OnRecord(Included(requests[c].tins))
Undenied  == \A c \in EfileCalls :
  requests[c].at = "record" /\ requests[c].status = "accepted" => Held(c)
Covered   == \A r \in returns : OnRecord(Included(r.tins))
Confirmed == \A i \in DOMAIN log : log[i].status = "accepted" => Held(log[i].call)

EfileInv == EfileShape /\ Checked /\ Undenied /\ Covered /\ Confirmed

LEMMA EfileInitially == EfileInit => EfileInv
  BY DEF EfileInit, EfileInv, EfileShape, Checked, Undenied, Covered, Confirmed, Blank, Payloads,
         Statuses

LEMMA InvIsHonest == EfileInv => LogIsHonest
  BY DEF EfileInv, Covered, Confirmed, OnRecord, Held, LogIsHonest, FiledVendorsMatched,
         AcceptedIsHonest

\* An answer to a rejected return is never taken for an acceptance.
LEMMA RejectionsShow ==
  ASSUME NEW a \in Answers("rejected") PROVE classifyAck(a) # "accepted"
<1>1. a.errors \/ a.text = "reject"
  BY DEF Answers
<1>2. CASE a.errors
  BY <1>2 DEF classifyAck
<1>3. CASE ~a.errors /\ a.text = "reject"
  BY <1>3 DEF classifyAck, Favourable
<1> QED
  BY <1>1, <1>2, <1>3

LEMMA BlankIsDone == Blank("done").at = "done"
  BY DEF Blank

LEMMA AcksAreStatuses == ASSUME NEW a PROVE classifyAck(a) \in Statuses
  BY DEF classifyAck, Statuses

LEMMA BlankIsTyped == ASSUME NEW label \in {"done"}
  PROVE Blank(label) \in
       [at : {"start", "built", "ask", "create", "transmit", "record", "done"},
        tins : Payloads, matched : SUBSET Vendors, status : Statuses]
  BY DEF Blank, Payloads, Statuses

\* The log and the returns of a step only grow.
Grows ==
  /\ \A i \in DOMAIN log : i \in DOMAIN log' /\ log'[i] = log[i]
  /\ returns \subseteq returns'

LEMMA GrowthKeeps ==
  ASSUME Grows
  PROVE  (\A S : OnRecord(S) => OnRecord(S)') /\ (\A b : Held(b) => Held(b)')
  BY DEF Grows, OnRecord, Held

\* What a step keeps that moves one call.
LEMMA OneCallMoves ==
  ASSUME EfileInv, NEW c \in EfileCalls, Grows,
         \A b \in EfileCalls \ {c} : requests'[b] = requests[b],
         requests'[c].at \in {"create", "transmit"} => OnRecord(Included(requests'[c].tins)),
         requests'[c].at = "record" /\ requests'[c].status = "accepted" => Held(c)'
  PROVE  Checked' /\ Undenied'
<1>1. Checked'
  <2> SUFFICES ASSUME NEW b \in EfileCalls, requests'[b].at \in {"create", "transmit"}
               PROVE  OnRecord(Included(requests[b].tins))'
    BY DEF Checked
  <2>1. OnRecord(Included(requests'[b].tins))
    BY DEF EfileInv, Checked
  <2> QED
    BY <2>1 DEF OnRecord, Grows, Included
<1>2. Undenied'
  BY GrowthKeeps DEF EfileInv, Undenied
<1> QED
  BY <1>1, <1>2

\* A call that ends, or goes on without logging or filing anything.
LEMMA CallMovesOn ==
  ASSUME EfileInv, NEW c \in EfileCalls, UNCHANGED <<log, returns>>, EfileShape',
         \A b \in EfileCalls \ {c} : requests'[b] = requests[b],
         requests'[c].at \in {"create", "transmit"} => OnRecord(Included(requests'[c].tins)),
         requests'[c].at = "record" => requests'[c].status # "accepted"
  PROVE  EfileInv'
<1>1. Grows
  BY DEF Grows
<1>2. Checked' /\ Undenied'
  BY <1>1, OneCallMoves
<1>3. Covered' /\ Confirmed'
  BY DEF EfileInv, Covered, Confirmed, OnRecord, Held
<1> QED
  BY <1>2, <1>3 DEF EfileInv

LEMMA EndsIsTyped ==
  ASSUME EfileInv, NEW c \in EfileCalls, Ends(c)
  PROVE  /\ requests' \in [EfileCalls ->
              [at : {"start", "built", "ask", "create", "transmit", "record", "done"},
               tins : Payloads, matched : SUBSET Vendors, status : Statuses]]
         /\ requests'[c].at = "done"
         /\ \A b \in EfileCalls \ {c} : requests'[b] = requests[b]
<1>1. requests' = [requests EXCEPT ![c] = Blank("done")]
  BY DEF Ends
<1>2. Blank("done").at = "done"
  BY DEF Blank
<1> QED
  BY <1>1, <1>2, BlankIsTyped DEF EfileInv, EfileShape

LEMMA BuildsKeeps ==
  ASSUME EfileInv, NEW c \in EfileCalls, Builds(c) PROVE EfileInv'
<1>1. PICK tins \in Supplied : requests' = [requests EXCEPT ![c].at = "built", ![c].tins = tins]
  BY DEF Builds
<1>2. UNCHANGED <<log, returns>>
  BY DEF Builds
<1>3. EfileShape'
  BY <1>1, <1>2 DEF EfileInv, EfileShape, Payloads
<1>4. requests'[c].at = "built" /\ \A b \in EfileCalls \ {c} : requests'[b] = requests[b]
  BY <1>1 DEF EfileInv, EfileShape
<1> QED
  BY <1>2, <1>3, <1>4, CallMovesOn

\* A matching never logs an acceptance, and asks about vendors only.
LEMMA MatchAsksKeeps ==
  ASSUME EfileInv, NEW c \in EfileCalls, MatchAsks(c) PROVE EfileInv'
<1>1. UNCHANGED <<log, returns>>
  BY DEF MatchAsks
<1>2. CASE Ends(c)
  BY <1>1, <1>2, EndsIsTyped, CallMovesOn DEF EfileInv, EfileShape
<1>3. CASE \E matched \in SUBSET Vendors, status \in {"tin_matched", "tin_mismatch"} :
             requests' = [requests EXCEPT ![c].at = "record", ![c].matched = matched, ![c].status = status]
  <2>1. PICK matched \in SUBSET Vendors, status \in {"tin_matched", "tin_mismatch"} :
          requests' = [requests EXCEPT ![c].at = "record", ![c].matched = matched, ![c].status = status]
    BY <1>3
  <2> DEFINE R == [at : {"start", "built", "ask", "create", "transmit", "record", "done"},
                   tins : Payloads, matched : SUBSET Vendors, status : Statuses]
             new == [requests[c] EXCEPT !.at = "record", !.matched = matched, !.status = status]
  <2>2. EfileShape'
    <3>1. requests \in [EfileCalls -> R] /\ requests[c] \in R
      BY DEF EfileInv, EfileShape
    <3>2. status \in Statuses
      BY DEF Statuses
    <3>3. new \in R
      BY <3>1, <3>2
    <3>4. requests' = [requests EXCEPT ![c] = new]
      BY <2>1
    <3> HIDE DEF new, R
    <3>5. requests' \in [EfileCalls -> R]
      BY <3>1, <3>3, <3>4
    <3> QED
      BY <1>1, <3>5 DEF R, EfileInv, EfileShape
  <2>3. /\ requests'[c].at = "record" /\ requests'[c].status = status
        /\ \A b \in EfileCalls \ {c} : requests'[b] = requests[b]
    BY <2>1 DEF EfileInv, EfileShape
  <2> QED
    BY <1>1, <2>2, <2>3, CallMovesOn
<1>4. CASE requests' = [requests EXCEPT ![c].at = "record", ![c].status = "tin_matched"]
  <2>1. EfileShape'
    BY ZenonT(40), <1>1, <1>4 DEF EfileInv, EfileShape, Statuses
  <2>2. /\ requests'[c].at = "record" /\ requests'[c].status = "tin_matched"
        /\ \A b \in EfileCalls \ {c} : requests'[b] = requests[b]
    BY <1>4 DEF EfileInv, EfileShape
  <2> QED
    BY <1>1, <2>1, <2>2, CallMovesOn
<1>5. requests[c].tins \in Payloads
  BY DEF EfileInv, EfileShape
<1>6. Included(requests[c].tins) \subseteq Vendors
  <2>1. CASE requests[c].tins \in Supplied
    BY <2>1 DEF Supplied, Included
  <2>2. CASE requests[c].tins = << >>
    BY <2>2 DEF Included
  <2> QED
    BY <1>5, <2>1, <2>2 DEF Payloads
<1> QED
  BY <1>2, <1>3, <1>4, <1>6 DEF MatchAsks

\* A filing goes on only when the match on record covers its vendors.
LEMMA TransmitChecksKeeps ==
  ASSUME EfileInv, NEW c \in EfileCalls, TransmitChecks(c) PROVE EfileInv'
<1>1. UNCHANGED <<log, returns>>
  BY DEF TransmitChecks
<1>2. CASE Ends(c)
  BY <1>1, <1>2, EndsIsTyped, CallMovesOn DEF EfileInv, EfileShape
<1>3. CASE Reaches(c, "create") /\ OnRecord(Included(requests[c].tins))
  <2>1. EfileShape'
    BY <1>1, <1>3 DEF Reaches, EfileInv, EfileShape
  <2>2. /\ requests'[c].at = "create" /\ requests'[c].tins = requests[c].tins
        /\ \A b \in EfileCalls \ {c} : requests'[b] = requests[b]
    BY <1>3 DEF Reaches, EfileInv, EfileShape
  <2> QED
    BY <1>1, <1>3, <2>1, <2>2, CallMovesOn
<1> QED
  BY <1>2, <1>3 DEF TransmitChecks, Matches, OnRecord

LEMMA CreatesKeeps ==
  ASSUME EfileInv, NEW c \in EfileCalls, Creates(c) PROVE EfileInv'
<1>1. UNCHANGED <<log, returns>>
  BY DEF Creates
<1>2. CASE Ends(c)
  BY <1>1, <1>2, EndsIsTyped, CallMovesOn DEF EfileInv, EfileShape
<1>3. CASE Reaches(c, "transmit")
  <2>1. EfileShape'
    BY <1>1, <1>3 DEF Reaches, EfileInv, EfileShape
  <2>2. /\ requests'[c].at = "transmit" /\ requests'[c].tins = requests[c].tins
        /\ \A b \in EfileCalls \ {c} : requests'[b] = requests[b]
    BY <1>3 DEF Reaches, EfileInv, EfileShape
  <2>3. OnRecord(Included(requests[c].tins))
    BY DEF Creates, Stands, EfileInv, Checked
  <2> QED
    BY <1>1, <2>1, <2>2, <2>3, CallMovesOn
<1>4. CASE requests' = [requests EXCEPT ![c].at = "record", ![c].status = "rejected"]
  <2>1. EfileShape'
    BY ZenonT(40), <1>1, <1>4 DEF EfileInv, EfileShape, Statuses
  <2>2. /\ requests'[c].at = "record" /\ requests'[c].status = "rejected"
        /\ \A b \in EfileCalls \ {c} : requests'[b] = requests[b]
    BY <1>4 DEF EfileInv, EfileShape
  <2> QED
    BY <1>1, <2>1, <2>2, CallMovesOn
<1> QED
  BY <1>2, <1>3, <1>4 DEF Creates

\* The answer to a filing is logged as accepted only when a return stands behind it.
LEMMA TransmitsKeeps ==
  ASSUME EfileInv, NEW c \in EfileCalls, Transmits(c) PROVE EfileInv'
<1>1. log' = log /\ requests[c].at = "transmit"
  BY DEF Transmits, Stands
<1>2. OnRecord(Included(requests[c].tins))
  BY <1>1 DEF EfileInv, Checked
<1>3. CASE Ends(c) /\ UNCHANGED returns
  BY <1>1, <1>3, EndsIsTyped, CallMovesOn DEF EfileInv, EfileShape
<1>4. CASE \E verdict \in {"accepted", "rejected", "pending"} :
             /\ returns' = returns \cup {[call |-> c, tins |-> requests[c].tins, verdict |-> verdict]}
             /\ \/ \E a \in Answers(verdict) :
                     requests' = [requests EXCEPT ![c].at = "record", ![c].status = classifyAck(a)]
                \/ Ends(c)
  <2>1. PICK verdict \in {"accepted", "rejected", "pending"} :
             /\ returns' = returns \cup {[call |-> c, tins |-> requests[c].tins, verdict |-> verdict]}
             /\ \/ \E a \in Answers(verdict) :
                     requests' = [requests EXCEPT ![c].at = "record", ![c].status = classifyAck(a)]
                \/ Ends(c)
    BY <1>4
  <2>2. Grows
    BY <1>1, <2>1 DEF Grows
  <2>3. Covered'
    <3> SUFFICES ASSUME NEW r \in returns' PROVE OnRecord(Included(r.tins))
      BY <1>1 DEF Covered, OnRecord
    <3> QED
      BY <1>2, <2>1 DEF EfileInv, Covered
  <2>4. Confirmed'
    BY <1>1, <2>2, GrowthKeeps DEF EfileInv, Confirmed
  <2>5. CASE Ends(c)
    <3>1. EfileShape'
      BY <1>1, <2>5, EndsIsTyped DEF EfileInv, EfileShape
    <3>2. Checked' /\ Undenied'
      BY <2>2, <2>5, EndsIsTyped, OneCallMoves
    <3> QED
      BY <2>3, <2>4, <3>1, <3>2 DEF EfileInv
  <2>6. ASSUME NEW a \in Answers(verdict),
               requests' = [requests EXCEPT ![c].at = "record", ![c].status = classifyAck(a)]
        PROVE  EfileInv'
    <3>1. EfileShape'
      <4>1. PICK status \in Statuses : status = classifyAck(a)
        BY AcksAreStatuses
      <4>2. PICK x : x = requests[c]
        OBVIOUS
      <4>3. PICK n : n = [x EXCEPT !.at = "record", !.status = status]
        OBVIOUS
      <4>4. /\ DOMAIN requests' = EfileCalls /\ requests'[c] = n
            /\ \A b \in EfileCalls : b # c => requests'[b] = requests[b]
            /\ requests' = [b \in EfileCalls |-> requests'[b]]
        BY <2>6, <4>1, <4>2, <4>3, ZenonT(40) DEF EfileInv, EfileShape
      <4>5. n \in [at : {"start", "built", "ask", "create", "transmit", "record", "done"},
                   tins : Payloads, matched : SUBSET Vendors, status : Statuses]
        BY <4>2, <4>3 DEF EfileInv, EfileShape
      <4> QED
        BY <1>1, <4>4, <4>5 DEF EfileInv, EfileShape
    <3>2. /\ requests'[c].at = "record" /\ requests'[c].status = classifyAck(a)
          /\ \A b \in EfileCalls \ {c} : requests'[b] = requests[b]
      BY <2>6 DEF EfileInv, EfileShape
    <3>3. classifyAck(a) = "accepted" => Held(c)'
      <4>1. classifyAck(a) = "accepted" => verdict # "rejected"
        BY RejectionsShow
      <4> DEFINE r == [call |-> c, tins |-> requests[c].tins, verdict |-> verdict]
      <4>2. r \in returns' /\ r.call = c /\ r.verdict = verdict
        BY <2>1
      <4> HIDE DEF r
      <4> QED
        BY <4>1, <4>2 DEF Held
    <3>4. Checked' /\ Undenied'
      BY <2>2, <3>2, <3>3, OneCallMoves
    <3> QED
      BY <2>3, <2>4, <3>1, <3>4 DEF EfileInv
  <2> QED
    BY <2>1, <2>5, <2>6
<1> QED
  BY <1>3, <1>4 DEF Transmits

\* What is appended to the log, whoever appends it.
LEMMA AppendKeeps ==
  ASSUME EfileInv, NEW c \in EfileCalls, NEW e \in Event, Append1(e), Ends(c), UNCHANGED returns,
         e.status = "accepted" => Held(e.call)
  PROVE  EfileInv'
<1>1. /\ log' \in Seq(Event) /\ Len(log') = Len(log) + 1 /\ log'[Len(log) + 1] = e
      /\ \A i \in DOMAIN log : i \in DOMAIN log' /\ log'[i] = log[i]
      /\ DOMAIN log' = DOMAIN log \cup {Len(log) + 1}
  BY DEF Append1, EfileInv, EfileShape
<1>2. Grows
  BY <1>1 DEF Grows
<1>3. EfileShape'
  BY <1>1, EndsIsTyped DEF EfileShape
<1>4. Checked' /\ Undenied'
  BY <1>2, EndsIsTyped, OneCallMoves
<1>5. Covered'
  BY <1>2, GrowthKeeps DEF EfileInv, Covered
<1>6. Confirmed'
  BY <1>1, <1>2, GrowthKeeps DEF EfileInv, Confirmed
<1> QED
  BY <1>3, <1>4, <1>5, <1>6 DEF EfileInv

LEMMA LoggingKeeps ==
  ASSUME EfileInv, NEW c \in EfileCalls, DryRuns(c) \/ Records(c) PROVE EfileInv'
<1>1. Ends(c) /\ UNCHANGED returns
  BY DEF DryRuns, Records
<1>2. CASE UNCHANGED log
  BY <1>1, <1>2, EndsIsTyped, CallMovesOn DEF EfileInv, EfileShape
<1>3. CASE DryRuns(c) /\ ~UNCHANGED log
  <2> DEFINE e == [phase |-> "dry_run", status |-> "dry_run", matched |-> {}, call |-> c]
  <2>1. e \in Event /\ e.status # "accepted" /\ Append1(e)
    BY <1>3 DEF DryRuns, Event, Statuses
  <2> HIDE DEF e
  <2> QED
    BY <1>1, <2>1, AppendKeeps
<1>4. CASE Records(c) /\ ~UNCHANGED log
  <2> DEFINE e == [phase |-> IF c \in Matchings THEN "tin_match" ELSE "transmit",
                   status |-> requests[c].status, matched |-> requests[c].matched, call |-> c]
  <2>1. e.status = requests[c].status /\ e.call = c /\ Append1(e)
    BY <1>4 DEF Records
  <2>2. e \in Event
    BY DEF Event, EfileInv, EfileShape
  <2>3. requests[c].at = "record"
    BY <1>4 DEF Records, Stands
  <2>4. e.status = "accepted" => Held(e.call)
    BY <2>1, <2>3 DEF EfileInv, Undenied
  <2> HIDE DEF e
  <2> QED
    BY <1>1, <2>1, <2>2, <2>4, AppendKeeps
<1> QED
  BY <1>2, <1>3, <1>4

LEMMA EfileStep == EfileInv /\ [EfileNext]_efileVars => EfileInv'
<1> SUFFICES ASSUME EfileInv, [EfileNext]_efileVars PROVE EfileInv'
  OBVIOUS
<1>1. CASE EfileNext
  BY <1>1, BuildsKeeps, LoggingKeeps, MatchAsksKeeps, TransmitChecksKeeps, CreatesKeeps,
     TransmitsKeeps DEF EfileNext
<1>2. CASE UNCHANGED efileVars
  BY <1>2 DEF efileVars, EfileInv, EfileShape, Checked, Undenied, Covered, Confirmed, OnRecord, Held
<1> QED
  BY <1>1, <1>2

\* Only a filing gets as far as to TaxBandits.
FilingsFile == \A c \in EfileCalls : requests[c].at \in {"create", "transmit"} => c \in Filings
EfileTyped  == creds \in BOOLEAN /\ returns \subseteq Return /\ FilingsFile

LEMMA NothingSupplied == << >> \in Supplied
<1>1. << >> \in [{} -> Tins \cup {Unsupplied}]
  OBVIOUS
<1> QED
  BY <1>1 DEF Supplied

LEMMA EfileTypesByInv == ASSUME EfileInv, EfileTyped PROVE EfileTypeOK
<1>1. Payloads = Supplied
  BY NothingSupplied DEF Payloads
<1> QED
  BY <1>1 DEF EfileInv, EfileShape, EfileTyped, EfileTypeOK

LEMMA EfileTypesInitially == EfileInit => EfileTyped
  BY DEF EfileInit, EfileTyped, FilingsFile, Blank

LEMMA EfileTypesStep ==
  ASSUME EfileInv, EfileTyped, [EfileNext]_efileVars PROVE EfileTyped'
<1>1. CASE UNCHANGED efileVars
  BY <1>1 DEF efileVars, EfileTyped, FilingsFile
<1>2. ASSUME NEW c \in EfileCalls,
             \/ Builds(c) \/ DryRuns(c) \/ MatchAsks(c) \/ TransmitChecks(c)
             \/ Creates(c) \/ Transmits(c) \/ Records(c)
      PROVE  EfileTyped'
  <2>1. DOMAIN requests = EfileCalls /\ requests[c].tins \in Supplied
    BY NothingSupplied DEF EfileInv, EfileShape, Payloads
  <2>2. UNCHANGED creds
    BY <1>2 DEF Builds, DryRuns, MatchAsks, TransmitChecks, Creates, Transmits, Records
  <2>3. \/ requests'[c].at \notin {"create", "transmit"}
        \/ TransmitChecks(c)
        \/ requests[c].at = "create"
    <3>1. requests[c] \in [at : {"start", "built", "ask", "create", "transmit", "record", "done"},
                           tins : Payloads, matched : SUBSET Vendors, status : Statuses]
      BY DEF EfileInv, EfileShape
    <3>2. Ends(c) => requests'[c].at = "done"
      BY <2>1, BlankIsDone DEF Ends
    <3>3. CASE Builds(c)
      BY <2>1, <3>1, <3>3 DEF Builds
    <3>4. CASE DryRuns(c) \/ Records(c)
      BY <3>2, <3>4 DEF DryRuns, Records
    <3>5. CASE MatchAsks(c)
      <4>1. ASSUME NEW m, NEW t, requests' = [requests EXCEPT ![c].at = "record", ![c].matched = m,
                                                              ![c].status = t]
            PROVE  requests'[c].at = "record"
        BY <2>1, <3>1, <4>1
      <4>2. ASSUME requests' = [requests EXCEPT ![c].at = "record", ![c].status = "tin_matched"]
            PROVE  requests'[c].at = "record"
        BY <2>1, <3>1, <4>2
      <4>3. \/ \E m : \E t \in {"tin_matched", "tin_mismatch"} :
                 requests' = [requests EXCEPT ![c].at = "record", ![c].matched = m, ![c].status = t]
            \/ requests' = [requests EXCEPT ![c].at = "record", ![c].status = "tin_matched"]
            \/ Ends(c)
        BY <3>5 DEF MatchAsks
      <4> QED
        BY <3>2, <4>1, <4>2, <4>3
    <3>6. CASE Transmits(c)
      <4>1. ASSUME NEW t, requests' = [requests EXCEPT ![c].at = "record", ![c].status = t]
            PROVE  requests'[c].at = "record"
        BY <2>1, <3>1, <4>1
      <4>2. \/ \E t : requests' = [requests EXCEPT ![c].at = "record", ![c].status = t]
            \/ Ends(c)
        BY <3>6 DEF Transmits
      <4> QED
        BY <3>2, <4>1, <4>2
    <3> QED
      BY <1>2, <3>3, <3>4, <3>5, <3>6 DEF Creates, Stands
  <2>4. \A b \in EfileCalls \ {c} : requests'[b] = requests[b]
    BY <1>2, <2>1 DEF Builds, DryRuns, MatchAsks, TransmitChecks, Creates, Transmits, Records,
       Ends, Reaches
  <2>5. FilingsFile'
    BY <2>3, <2>4 DEF TransmitChecks, EfileTyped, FilingsFile
  <2>6. returns' \subseteq Return
    <3>1. CASE Transmits(c)
      <4>1. c \in Filings
        BY <3>1 DEF Transmits, Stands, EfileTyped, FilingsFile
      <4>2. \A verdict \in {"accepted", "rejected", "pending"} :
              [call |-> c, tins |-> requests[c].tins, verdict |-> verdict] \in Return
        BY <2>1, <4>1 DEF Return
      <4> QED
        BY <3>1, <4>2 DEF Transmits, EfileTyped
    <3>2. CASE ~Transmits(c)
      BY <1>2, <3>2 DEF Builds, DryRuns, MatchAsks, TransmitChecks, Creates, Records, EfileTyped
    <3> QED
      BY <3>1, <3>2
  <2> QED
    BY <2>2, <2>5, <2>6 DEF EfileTyped
<1> QED
  BY <1>1, <1>2 DEF EfileNext

\* For any vendors, TINs and calls of the two operations: nothing is filed for a
\* vendor without a match on record, and nothing is logged as accepted that the
\* provider rejected or never got.
THEOREM TheLogIsHonest == EfileSpec => []LogIsHonest
  BY EfileInitially, EfileStep, InvIsHonest, PTL DEF EfileSpec

-----------------------------------------------------------------------------
(* One QuickBooks connection: a revocation that Intuit confirmed is final.   *)
(* The grant is never live again, so that whatever tokens a callback or an   *)
(* import in flight stores afterwards are dead, for any number of calls.     *)

ConnectionShape ==
  /\ conn \in [status : {"pending", "active", "error", "revoked"}, pair : Nat,
               error : {"none", "failed", "oauth_state_expired", "intuit_revoke_unconfirmed"}]
  /\ intuit \in [grant : {"none", "live", "revoked"}, pair : Nat]
  /\ calls \in [Functions -> [at : Labels, pair : Nat, confirmed : BOOLEAN, gets : Nat,
                              attempt : Nat, waits : Nat, refreshed : BOOLEAN]]

\* What a call has been told, and what the row says it was told.
Told    == \A f \in Functions : calls[f].confirmed = TRUE => intuit.grant = "revoked"
Written == conn.status = "revoked" /\ conn.error = "none" => intuit.grant = "revoked"

ConnectionInv == ConnectionShape /\ Told /\ Written

LEMMA ConnectionInitially == ConnectionInit => ConnectionInv
  BY DEF ConnectionInit, ConnectionInv, ConnectionShape, Told, Written, Labels

LEMMA InvMeansDead == ConnectionInv => ConfirmedMeansDead
  BY DEF ConnectionInv, Written, ConfirmedMeansDead, Honoured

\* A step that leaves Intuit alone and tells no call anything.
LEMMA QuietKeeps ==
  ASSUME ConnectionInv, ConnectionShape', intuit.grant = "revoked" => intuit'.grant = "revoked",
         \A f \in Functions : calls'[f].confirmed = calls[f].confirmed,
         conn'.status = "revoked" /\ conn'.error = "none" => conn.status = "revoked" /\ conn.error = "none"
  PROVE  ConnectionInv'
  BY DEF ConnectionInv, Told, Written

\* A call that goes to another label.
LEMMA GotoKeeps ==
  ASSUME ConnectionInv, NEW f \in Functions, NEW label \in Labels, Goto(f, label)
  PROVE  /\ calls' \in [Functions -> [at : Labels, pair : Nat, confirmed : BOOLEAN, gets : Nat,
                                      attempt : Nat, waits : Nat, refreshed : BOOLEAN]]
         /\ \A g \in Functions : calls'[g].confirmed = calls[g].confirmed
  BY DEF Goto, ConnectionInv, ConnectionShape

\* A call that takes note of a pair, too.
LEMMA NotesKeep ==
  ASSUME ConnectionInv, NEW f \in Functions, NEW label \in Labels, NEW p \in Nat,
         calls' = [calls EXCEPT ![f].at = label, ![f].pair = p]
  PROVE  /\ calls' \in [Functions -> [at : Labels, pair : Nat, confirmed : BOOLEAN, gets : Nat,
                                      attempt : Nat, waits : Nat, refreshed : BOOLEAN]]
         /\ \A g \in Functions : calls'[g].confirmed = calls[g].confirmed
<1> DEFINE Call == [at : Labels, pair : Nat, confirmed : BOOLEAN, gets : Nat,
                    attempt : Nat, waits : Nat, refreshed : BOOLEAN]
           new  == [calls[f] EXCEPT !.at = label, !.pair = p]
<1>1. calls \in [Functions -> Call]
  BY DEF ConnectionInv, ConnectionShape
<1>2. calls[f] \in Call
  BY <1>1
<1>3. new \in Call /\ new.confirmed = calls[f].confirmed
  BY <1>2
<1>4. calls' = [calls EXCEPT ![f] = new]
  BY <1>1
<1> HIDE DEF new, Call
<1>5. calls' \in [Functions -> Call] /\ \A g \in Functions : calls'[g].confirmed = calls[g].confirmed
  BY <1>1, <1>3, <1>4
<1> QED
  BY <1>5 DEF Call

LEMMA SetTokensKeeps ==
  ASSUME ConnectionInv, NEW f \in Functions, SetTokens(f)
  PROVE  /\ conn' \in [status : {"pending", "active", "error", "revoked"}, pair : Nat,
                error : {"none", "failed", "oauth_state_expired", "intuit_revoke_unconfirmed"}]
         /\ conn'.status = conn.status /\ conn'.error = conn.error
  BY DEF SetTokens, ConnectionInv, ConnectionShape

\* Intuit issues a pair only for a grant that is not revoked.
LEMMA IssueKeeps ==
  ASSUME ConnectionInv, NEW f \in Functions, NEW label \in Labels,
         (Issue(f, label) /\ intuit.grant # "revoked") \/ Refuse(f), UNCHANGED conn
  PROVE  ConnectionInv'
<1>1. intuit' \in [grant : {"none", "live", "revoked"}, pair : Nat]
  BY DEF Issue, Refuse, ConnectionInv, ConnectionShape
<1>2. intuit.grant = "revoked" => intuit'.grant = "revoked"
  BY DEF Refuse
<1>3. /\ calls' \in [Functions -> [at : Labels, pair : Nat, confirmed : BOOLEAN, gets : Nat,
                                   attempt : Nat, waits : Nat, refreshed : BOOLEAN]]
      /\ \A g \in Functions : calls'[g].confirmed = calls[g].confirmed
  <2>1. "refused" \in Labels
    BY DEF Labels
  <2>2. intuit.pair \in Nat
    BY DEF ConnectionInv, ConnectionShape
  <2>3. intuit.pair + 1 \in Nat
    BY <2>2
  <2> QED
    BY <2>1, <2>3, GotoKeeps, NotesKeep DEF Issue, Refuse
<1>4. ConnectionShape'
  BY <1>1, <1>3 DEF ConnectionInv, ConnectionShape
<1> QED
  BY <1>2, <1>3, <1>4, QuietKeeps

\* What a quiet step of a call has to show.
QuietCalls == 
  /\ calls' \in [Functions -> [at : Labels, pair : Nat, confirmed : BOOLEAN, gets : Nat,
                               attempt : Nat, waits : Nat, refreshed : BOOLEAN]]
  /\ \A g \in Functions : calls'[g].confirmed = calls[g].confirmed
QuietRow ==
  /\ conn' \in [status : {"pending", "active", "error", "revoked"}, pair : Nat,
                error : {"none", "failed", "oauth_state_expired", "intuit_revoke_unconfirmed"}]
  /\ conn'.status = "revoked" /\ conn'.error = "none" => conn.status = "revoked" /\ conn.error = "none"

LEMMA QuietStep ==
  ASSUME ConnectionInv, QuietCalls, QuietRow, UNCHANGED intuit
  PROVE  ConnectionInv'
<1>1. ConnectionShape'
  BY DEF QuietCalls, QuietRow, ConnectionInv, ConnectionShape
<1> QED
  BY <1>1, QuietKeeps DEF QuietCalls, QuietRow

LEMMA SameRow == ASSUME ConnectionInv, UNCHANGED conn PROVE QuietRow
  BY DEF ConnectionInv, ConnectionShape, QuietRow

LEMMA Going ==
  ASSUME ConnectionInv, NEW f \in Functions, NEW label \in Labels, Goto(f, label)
  PROVE  QuietCalls
  BY GotoKeeps DEF QuietCalls

\* The callback: it may store tokens and activate the row, never disconnect it.
LEMMA CallbackKeeps ==
  ASSUME ConnectionInv, NEW f \in Functions,
         \/ CallbackFinds(f) \/ CallbackExpires(f) \/ ExchangeCode(f) \/ CallbackStores(f)
         \/ CallbackActivates(f) \/ CallbackFails(f)
  PROVE  ConnectionInv'
<1>1. {"found", "expired", "done", "granted", "stored", "refused"} \subseteq Labels
  BY DEF Labels
<1>2. CASE CallbackFinds(f)
  <2>1. QuietCalls
    BY <1>1, <1>2, Going DEF CallbackFinds
  <2> QED
    BY <1>2, <2>1, SameRow, QuietStep DEF CallbackFinds
<1>3. CASE CallbackExpires(f) \/ CallbackActivates(f) \/ CallbackFails(f)
  <2>1. QuietCalls /\ UNCHANGED intuit
    BY <1>1, <1>3, Going DEF CallbackExpires, CallbackActivates, CallbackFails
  <2>2. QuietRow
    BY <1>3 DEF CallbackExpires, CallbackActivates, CallbackFails, QuietRow, ConnectionInv, ConnectionShape
  <2> QED
    BY <2>1, <2>2, QuietStep
<1>4. CASE ExchangeCode(f)
  BY <1>1, <1>4, IssueKeeps DEF ExchangeCode
<1>5. CASE CallbackStores(f)
  <2>1. QuietCalls /\ UNCHANGED intuit
    BY <1>1, <1>5, Going DEF CallbackStores
  <2>2. QuietRow
    BY <1>5, SetTokensKeeps, SameRow DEF CallbackStores, QuietRow
  <2> QED
    BY <2>1, <2>2, QuietStep
<1> QED
  BY <1>2, <1>3, <1>4, <1>5

\* The import: it renews tokens only while Intuit still honours them.
LEMMA ImportKeeps ==
  ASSUME ConnectionInv, NEW f \in Functions,
         ImportFinds(f) \/ ImportReads(f) \/ RefreshToken(f) \/ ImportStores(f) \/ ImportFails(f)
  PROVE  ConnectionInv'
<1>1. {"reads", "done", "stale", "get", "renewed", "refused"} \subseteq Labels
  BY DEF Labels
<1>2. CASE ImportFinds(f)
  <2>1. QuietCalls
    BY <1>1, <1>2, Going DEF ImportFinds
  <2> QED
    BY <1>2, <2>1, SameRow, QuietStep DEF ImportFinds
<1>3. CASE ImportReads(f)
  <2>1. conn.pair \in Nat
    BY DEF ConnectionInv, ConnectionShape
  <2>2. CASE Goto(f, "done")
    BY <1>1, <1>3, <2>2, Going, SameRow, QuietStep DEF ImportReads
  <2>3. CASE \E label \in {"stale", "get"} :
               calls' = [calls EXCEPT ![f].at = label, ![f].pair = conn.pair]
    <3>1. QuietCalls
      BY <1>1, <2>1, <2>3, NotesKeep DEF QuietCalls
    <3> QED
      BY <1>3, <3>1, SameRow, QuietStep DEF ImportReads
  <2> QED
    BY <1>3, <2>2, <2>3 DEF ImportReads
<1>4. CASE RefreshToken(f)
  BY <1>1, <1>4, IssueKeeps DEF RefreshToken, Honoured
<1>5. CASE ImportStores(f)
  <2>1. QuietCalls /\ UNCHANGED intuit
    BY <1>1, <1>5, Going DEF ImportStores
  <2>2. QuietRow
    BY <1>5, SetTokensKeeps, SameRow DEF ImportStores, QuietRow
  <2> QED
    BY <2>1, <2>2, QuietStep
<1>6. CASE ImportFails(f)
  <2>1. QuietCalls /\ UNCHANGED intuit
    BY <1>1, <1>6, Going DEF ImportFails
  <2>2. UNCHANGED conn \/ conn' = [conn EXCEPT !.status = "error", !.error = "failed"]
    BY <1>6 DEF ImportFails
  <2>3. QuietRow
    BY <2>2 DEF QuietRow, ConnectionInv, ConnectionShape
  <2> QED
    BY <2>1, <2>3, QuietStep
<1> QED
  BY <1>2, <1>3, <1>4, <1>5, <1>6

\* The loop of the pull touches nothing but its own counters.
LEMMA GetKeeps ==
  ASSUME ConnectionInv, NEW f \in Functions,
         GetSucceeds(f) \/ GetUnauthorized(f) \/ GetBacksOff(f) \/ GetGivesUp(f)
  PROVE  ConnectionInv'
<1>1. UNCHANGED <<conn, intuit>>
  BY DEF GetSucceeds, GetUnauthorized, GetBacksOff, GetGivesUp
<1>2. calls \in [Functions -> [at : Labels, pair : Nat, confirmed : BOOLEAN, gets : Nat,
                              attempt : Nat, waits : Nat, refreshed : BOOLEAN]]
  BY DEF ConnectionInv, ConnectionShape
<1>3. {"done", "get", "renew", "gave up"} \subseteq Labels
  BY DEF Labels
<1>4. calls[f].gets + 1 \in Nat /\ calls[f].attempt + 1 \in Nat /\ calls[f].waits + 1 \in Nat
  <2>1. calls[f].gets \in Nat /\ calls[f].attempt \in Nat /\ calls[f].waits \in Nat
    BY <1>2
  <2> QED
    BY <2>1
<1>5. CASE GetSucceeds(f)
  <2>1. PICK label \in Labels, n \in Nat :
          calls' = [calls EXCEPT ![f].at = label, ![f].gets = n, ![f].attempt = 0, ![f].waits = 0,
                                 ![f].refreshed = FALSE]
    BY <1>3, <1>4, <1>5 DEF GetSucceeds
  <2>2. 0 \in Nat
    OBVIOUS
  <2>3. calls' \in [Functions -> [at : Labels, pair : Nat, confirmed : BOOLEAN, gets : Nat,
                                 attempt : Nat, waits : Nat, refreshed : BOOLEAN]]
    <3> DEFINE one == [calls EXCEPT ![f].at = label, ![f].gets = n]
               two == [one EXCEPT ![f].attempt = 0, ![f].waits = 0]
    <3>1. one \in [Functions -> [at : Labels, pair : Nat, confirmed : BOOLEAN, gets : Nat,
                                attempt : Nat, waits : Nat, refreshed : BOOLEAN]]
      BY <1>2
    <3>2. calls' = [two EXCEPT ![f].refreshed = FALSE]
      BY <2>1
    <3> HIDE DEF one
    <3>3. two \in [Functions -> [at : Labels, pair : Nat, confirmed : BOOLEAN, gets : Nat,
                                attempt : Nat, waits : Nat, refreshed : BOOLEAN]]
      BY <2>2, <3>1
    <3> HIDE DEF two
    <3> QED
      BY <3>2, <3>3
  <2>4. \A g \in Functions : calls'[g].confirmed = calls[g].confirmed
    BY <1>2, <2>1
  <2>5. QuietCalls
    BY <2>3, <2>4 DEF QuietCalls
  <2> QED
    BY <1>1, <2>5, SameRow, QuietStep
<1>6. CASE GetUnauthorized(f)
  <2>1. QuietCalls
    BY ZenonT(40), <1>2, <1>3, <1>4, <1>6 DEF GetUnauthorized, QuietCalls
  <2> QED
    BY <1>1, <2>1, SameRow, QuietStep
<1>7. CASE GetBacksOff(f)
  <2>1. QuietCalls
    BY <1>2, <1>4, <1>7 DEF GetBacksOff, QuietCalls
  <2> QED
    BY <1>1, <2>1, SameRow, QuietStep
<1>8. CASE GetGivesUp(f)
  BY <1>1, <1>3, <1>8, Going, SameRow, QuietStep DEF GetGivesUp
<1> QED
  BY <1>5, <1>6, <1>7, <1>8

\* The disconnect: it takes note of a confirmation only of what Intuit has revoked.
LEMMA DisconnectKeeps ==
  ASSUME ConnectionInv, NEW f \in Functions,
         DisconnectFinds(f) \/ DisconnectReads(f) \/ RevokeToken(f) \/ DisconnectFlips(f)
  PROVE  ConnectionInv'
<1>1. {"done", "found", "reads", "flip"} \subseteq Labels
  BY DEF Labels
<1>2. CASE DisconnectFinds(f)
  <2>1. QuietCalls
    BY <1>1, <1>2, Going DEF DisconnectFinds
  <2> QED
    BY <1>2, <2>1, SameRow, QuietStep DEF DisconnectFinds
<1>3. CASE DisconnectReads(f)
  <2>1. conn.pair \in Nat
    BY DEF ConnectionInv, ConnectionShape
  <2>2. PICK label \in Labels : calls' = [calls EXCEPT ![f].at = label, ![f].pair = conn.pair]
    BY <1>1, <1>3 DEF DisconnectReads
  <2>3. QuietCalls
    BY <2>1, <2>2, NotesKeep DEF QuietCalls
  <2> QED
    BY <1>3, <2>3, SameRow, QuietStep DEF DisconnectReads
<1>4. CASE RevokeToken(f)
  <2>1. CASE Goto(f, "flip") /\ UNCHANGED intuit
    BY <1>1, <1>4, <2>1, Going, SameRow, QuietStep DEF RevokeToken
  <2>2. CASE /\ intuit' = [intuit EXCEPT !.grant = "revoked"]
             /\ \E ok \in BOOLEAN : calls' = [calls EXCEPT ![f].at = "flip", ![f].confirmed = ok]
    <3>1. intuit' \in [grant : {"none", "live", "revoked"}, pair : Nat] /\ intuit'.grant = "revoked"
      BY <2>2 DEF ConnectionInv, ConnectionShape
    <3>2. calls' \in [Functions -> [at : Labels, pair : Nat, confirmed : BOOLEAN, gets : Nat,
                                   attempt : Nat, waits : Nat, refreshed : BOOLEAN]]
      <4>1. PICK ok \in BOOLEAN : calls' = [calls EXCEPT ![f].at = "flip", ![f].confirmed = ok]
        BY <2>2
      <4>2. CASE ok = TRUE
        BY ZenonT(40), <1>1, <4>1, <4>2 DEF ConnectionInv, ConnectionShape
      <4>3. CASE ok = FALSE
        BY ZenonT(40), <1>1, <4>1, <4>3 DEF ConnectionInv, ConnectionShape
      <4> QED
        BY <4>2, <4>3
    <3>3. UNCHANGED conn
      BY <1>4 DEF RevokeToken
    <3>4. ConnectionShape'
      BY <3>1, <3>2, <3>3 DEF ConnectionInv, ConnectionShape
    <3> QED
      BY <3>1, <3>4 DEF ConnectionInv, Told, Written
  <2> QED
    BY <1>4, <2>1, <2>2 DEF RevokeToken
<1>5. CASE DisconnectFlips(f)
  <2>1. QuietCalls /\ UNCHANGED intuit
    BY <1>1, <1>5, Going DEF DisconnectFlips
  <2>2. CASE UNCHANGED conn
    BY <2>1, <2>2, SameRow, QuietStep
  <2>3. CASE conn' # conn /\ calls[f].confirmed = TRUE
    <3>1. intuit'.grant = "revoked"
      BY <2>1, <2>3 DEF ConnectionInv, Told
    <3>2. conn' = [status |-> "revoked", pair |-> 0, error |-> "none"]
      BY <1>5, <2>3 DEF DisconnectFlips
    <3>3. ConnectionShape'
      BY <2>1, <3>2 DEF QuietCalls, ConnectionInv, ConnectionShape
    <3> QED
      BY <3>1, <3>3 DEF ConnectionInv, Told, Written
  <2>4. CASE conn' # conn /\ calls[f].confirmed # TRUE
    <3>1. conn' = [status |-> "revoked", pair |-> 0, error |-> "intuit_revoke_unconfirmed"]
      <4>1. calls[f].confirmed = FALSE
        BY <2>4 DEF ConnectionInv, ConnectionShape
      <4> QED
        BY <1>5, <2>4, <4>1 DEF DisconnectFlips
    <3>2. QuietRow
      BY <3>1 DEF QuietRow
    <3> QED
      BY <2>1, <3>2, QuietStep
  <2> QED
    BY <2>2, <2>3, <2>4
<1> QED
  BY <1>2, <1>3, <1>4, <1>5

LEMMA ConnectionInvStep == ConnectionInv /\ [ConnectionNext]_connectionVars => ConnectionInv'
<1> SUFFICES ASSUME ConnectionInv, [ConnectionNext]_connectionVars PROVE ConnectionInv'
  OBVIOUS
<1>1. CASE ConnectionNext
  BY <1>1, CallbackKeeps, ImportKeeps, GetKeeps, DisconnectKeeps DEF ConnectionNext, ConnectionStep
<1>2. CASE UNCHANGED connectionVars
  BY <1>2 DEF connectionVars, ConnectionInv, ConnectionShape, Told, Written
<1> QED
  BY <1>1, <1>2

\* For any number of callbacks, imports and disconnects in any order: what a row
\* still holds of a connection whose revocation Intuit confirmed is dead.
THEOREM ConfirmedStaysDead == ConnectionSpec => []ConfirmedMeansDead
  BY ConnectionInitially, ConnectionInvStep, InvMeansDead, PTL DEF ConnectionSpec

\* The counters of a pull stay within their bounds: a refresh is an attempt more,
\* and there is one for each request.
Bounded(x) ==
  /\ x.pair <= MaxPairs /\ x.gets <= MaxGets /\ (x.at # "done" => x.gets < MaxGets)
  /\ x.waits <= x.attempt /\ x.attempt <= MaxRetries + 1
  /\ x.refreshed = FALSE => x.attempt <= MaxRetries

ConnectionBounded ==
  /\ conn.pair <= MaxPairs /\ intuit.pair <= MaxPairs
  /\ \A f \in Functions : Bounded(calls[f])

LEMMA ConnectionTypesByInv ==
  ASSUME ConnectionAssumption, ConnectionInv, ConnectionBounded PROVE ConnectionTypeOK
<1>1. MaxPairs \in Nat /\ MaxGets \in Nat /\ MaxRetries \in Nat
  BY DEF ConnectionAssumption
<1>2. conn.pair \in Pairs /\ intuit.pair \in Pairs
  BY <1>1 DEF ConnectionInv, ConnectionShape, ConnectionBounded, Pairs
<1>3. ASSUME NEW f \in Functions
      PROVE  calls[f] \in [at : Labels, pair : Pairs, confirmed : BOOLEAN, gets : 0..MaxGets,
                           attempt : 0..MaxRetries + 1, waits : 0..MaxRetries + 1, refreshed : BOOLEAN]
  <2>1. calls[f] \in [at : Labels, pair : Nat, confirmed : BOOLEAN, gets : Nat,
                      attempt : Nat, waits : Nat, refreshed : BOOLEAN]
    BY DEF ConnectionInv, ConnectionShape
  <2>2. /\ calls[f].pair \in Pairs /\ calls[f].gets \in 0..MaxGets
        /\ calls[f].attempt \in 0..MaxRetries + 1 /\ calls[f].waits \in 0..MaxRetries + 1
    BY <1>1, <2>1 DEF ConnectionBounded, Bounded, Pairs
  <2> QED
    BY <2>1, <2>2
<1> QED
  BY <1>2, <1>3 DEF ConnectionInv, ConnectionShape, ConnectionTypeOK

LEMMA ConnectionBoundedInitially ==
  ASSUME ConnectionAssumption, ConnectionInit PROVE ConnectionBounded
  BY DEF ConnectionAssumption, ConnectionInit, ConnectionBounded, Bounded

\* What one call does to its own fields is all there is to show.
LEMMA OneCallStaysBounded ==
  ASSUME ConnectionInv, ConnectionBounded, NEW f \in Functions, NEW x, Bounded(x),
         calls' = [calls EXCEPT ![f] = x]
  PROVE  \A g \in Functions : Bounded(calls'[g])
  BY DEF ConnectionInv, ConnectionShape, ConnectionBounded

LEMMA GoingStaysBounded ==
  ASSUME ConnectionInv, ConnectionBounded, NEW f \in Functions, NEW label,
         calls[f].at # "done", Goto(f, label)
  PROVE  \A g \in Functions : Bounded(calls'[g])
<1> DEFINE x == [calls[f] EXCEPT !.at = label]
<1>1. calls[f] \in [at : Labels, pair : Nat, confirmed : BOOLEAN, gets : Nat,
                    attempt : Nat, waits : Nat, refreshed : BOOLEAN]
  BY DEF ConnectionInv, ConnectionShape
<1>2. /\ x.pair = calls[f].pair /\ x.gets = calls[f].gets /\ x.waits = calls[f].waits
      /\ x.attempt = calls[f].attempt /\ x.refreshed = calls[f].refreshed
  BY <1>1
<1>3. calls' = [calls EXCEPT ![f] = x]
  BY DEF Goto
<1>4. Bounded(x)
  <2> HIDE DEF x
  <2> QED
    BY <1>2 DEF ConnectionBounded, Bounded
<1> HIDE DEF x
<1> QED
  BY <1>3, <1>4, OneCallStaysBounded

LEMMA NotingStaysBounded ==
  ASSUME ConnectionInv, ConnectionBounded, NEW f \in Functions, NEW label, NEW p \in Nat,
         p <= MaxPairs, calls[f].at # "done",
         calls' = [calls EXCEPT ![f].at = label, ![f].pair = p]
  PROVE  \A g \in Functions : Bounded(calls'[g])
<1> DEFINE x == [calls[f] EXCEPT !.at = label, !.pair = p]
<1>1. calls[f] \in [at : Labels, pair : Nat, confirmed : BOOLEAN, gets : Nat,
                    attempt : Nat, waits : Nat, refreshed : BOOLEAN]
  BY DEF ConnectionInv, ConnectionShape
<1>2. /\ x.pair = p /\ x.gets = calls[f].gets /\ x.waits = calls[f].waits
      /\ x.attempt = calls[f].attempt /\ x.refreshed = calls[f].refreshed
  BY <1>1
<1>3. calls' = [calls EXCEPT ![f] = x]
  BY DEF ConnectionInv, ConnectionShape
<1>4. Bounded(x)
  <2> HIDE DEF x
  <2> QED
    BY <1>2 DEF ConnectionBounded, Bounded
<1> HIDE DEF x
<1> QED
  BY <1>3, <1>4, OneCallStaysBounded

\* Intuit issues one pair at a time, up to the last.
LEMMA IssuingStaysBounded ==
  ASSUME ConnectionAssumption, ConnectionInv, ConnectionBounded, NEW f \in Functions, NEW label,
         calls[f].at # "done", Issue(f, label) \/ Refuse(f), UNCHANGED conn
  PROVE  ConnectionBounded'
<1>1. intuit.pair \in Nat /\ MaxPairs \in Nat
  BY DEF ConnectionInv, ConnectionShape, ConnectionAssumption
<1>2. intuit'.pair <= MaxPairs
  BY <1>1 DEF Issue, Refuse, ConnectionBounded
<1>3. \A g \in Functions : Bounded(calls'[g])
  <2>1. CASE \E l : Goto(f, l)
    BY <2>1, GoingStaysBounded
  <2>2. CASE Issue(f, label) /\ ~\E l : Goto(f, l)
    <3>1. /\ calls' = [calls EXCEPT ![f].at = label, ![f].pair = intuit.pair + 1]
          /\ intuit.pair + 1 \in Nat /\ intuit.pair + 1 <= MaxPairs
      BY <1>1, <2>2 DEF Issue
    <3> QED
      BY <3>1, NotingStaysBounded
  <2> QED
    BY <2>1, <2>2 DEF Refuse
<1> QED
  BY <1>2, <1>3 DEF ConnectionBounded

LEMMA ConnectionStaysBounded ==
  ASSUME ConnectionAssumption, ConnectionInv, ConnectionBounded, NEW f \in Functions, ConnectionStep(f)
  PROVE  ConnectionBounded'
<1>1. /\ calls[f] \in [at : Labels, pair : Nat, confirmed : BOOLEAN, gets : Nat,
                       attempt : Nat, waits : Nat, refreshed : BOOLEAN]
      /\ conn.pair \in Nat /\ conn.pair <= MaxPairs /\ calls[f].pair <= MaxPairs
      /\ intuit.pair <= MaxPairs /\ MaxPairs \in Nat /\ MaxGets \in Nat /\ MaxRetries \in Nat
  BY DEF ConnectionInv, ConnectionShape, ConnectionBounded, Bounded, ConnectionAssumption
<1>2. Bounded(calls[f])
  BY DEF ConnectionBounded
<1>3. CASE /\ calls[f].at # "done" /\ \E label : Goto(f, label)
           /\ conn'.pair <= MaxPairs /\ intuit'.pair <= MaxPairs
  BY <1>3, GoingStaysBounded DEF ConnectionBounded
<1>4. CASE /\ calls[f].at # "done"
           /\ \E label : calls' = [calls EXCEPT ![f].at = label, ![f].pair = conn.pair]
           /\ UNCHANGED <<conn, intuit>>
  <2>1. \A g \in Functions : Bounded(calls'[g])
    BY <1>1, <1>4, NotingStaysBounded
  <2> QED
    BY <1>1, <1>4, <2>1 DEF ConnectionBounded
<1>5. CASE ExchangeCode(f) \/ RefreshToken(f)
  <2>1. calls[f].at # "done" /\ UNCHANGED conn
    BY <1>5 DEF ExchangeCode, RefreshToken, At
  <2>2. Issue(f, "granted") \/ Issue(f, "renewed") \/ Refuse(f)
    BY <1>5 DEF ExchangeCode, RefreshToken
  <2> QED
    BY <2>1, <2>2, IssuingStaysBounded
<1>6. CASE \/ CallbackFinds(f) \/ CallbackExpires(f) \/ CallbackStores(f) \/ CallbackActivates(f)
           \/ CallbackFails(f) \/ ImportFinds(f) \/ ImportStores(f) \/ ImportFails(f)
           \/ GetGivesUp(f) \/ DisconnectFinds(f) \/ DisconnectFlips(f)
  <2>1. calls[f].at # "done" /\ \E label : Goto(f, label)
    BY <1>6 DEF CallbackFinds, CallbackExpires, CallbackStores, CallbackActivates, CallbackFails,
       ImportFinds, ImportStores, ImportFails, GetGivesUp, DisconnectFinds, DisconnectFlips, At
  <2>2. intuit' = intuit
    BY <1>6 DEF CallbackFinds, CallbackExpires, CallbackStores, CallbackActivates, CallbackFails,
       ImportFinds, ImportStores, ImportFails, GetGivesUp, DisconnectFinds, DisconnectFlips
  <2>3. conn'.pair \in {conn.pair, calls[f].pair, 0}
    <3>1. CASE CallbackExpires(f) \/ CallbackActivates(f) \/ CallbackFails(f)
      BY <3>1 DEF CallbackExpires, CallbackActivates, CallbackFails, ConnectionInv, ConnectionShape
    <3>2. CASE CallbackStores(f) \/ ImportStores(f)
      BY <3>2 DEF CallbackStores, ImportStores, SetTokens, ConnectionInv, ConnectionShape
    <3>3. CASE ImportFails(f)
      BY <3>3 DEF ImportFails, ConnectionInv, ConnectionShape
    <3>4. CASE DisconnectFlips(f)
      BY <3>4 DEF DisconnectFlips
    <3> QED
      BY <1>6, <3>1, <3>2, <3>3, <3>4 DEF CallbackFinds, ImportFinds, GetGivesUp, DisconnectFinds
  <2> QED
    BY <1>1, <1>3, <2>1, <2>2, <2>3
<1>7. CASE ImportReads(f) \/ DisconnectReads(f)
  <2>1. calls[f].at # "done" /\ UNCHANGED <<conn, intuit>>
    BY <1>7 DEF ImportReads, DisconnectReads, At
  <2>2. \/ \E label : Goto(f, label)
        \/ \E label : calls' = [calls EXCEPT ![f].at = label, ![f].pair = conn.pair]
    BY <1>7 DEF ImportReads, DisconnectReads
  <2> QED
    BY <1>1, <1>3, <1>4, <2>1, <2>2
<1>8. CASE RevokeToken(f)
  <2>1. CASE Goto(f, "flip") /\ UNCHANGED <<intuit, conn>>
    BY <1>1, <1>3, <1>8, <2>1 DEF RevokeToken, At
  <2>2. CASE /\ intuit' = [intuit EXCEPT !.grant = "revoked"]
             /\ \E ok \in BOOLEAN : calls' = [calls EXCEPT ![f].at = "flip", ![f].confirmed = ok]
    <3>1. PICK ok \in BOOLEAN : calls' = [calls EXCEPT ![f].at = "flip", ![f].confirmed = ok]
      BY <2>2
    <3> DEFINE x == [calls[f] EXCEPT !.at = "flip", !.confirmed = ok]
    <3>2. calls[f].at # "done" /\ UNCHANGED conn
      BY <1>8 DEF RevokeToken, At
    <3>3. /\ x.pair = calls[f].pair /\ x.gets = calls[f].gets /\ x.waits = calls[f].waits
          /\ x.attempt = calls[f].attempt /\ x.refreshed = calls[f].refreshed
      BY <1>1
    <3>4. calls' = [calls EXCEPT ![f] = x]
      BY <3>1 DEF ConnectionInv, ConnectionShape
    <3> HIDE DEF x
    <3>5. Bounded(x)
      BY <1>2, <3>2, <3>3 DEF Bounded
    <3>6. \A g \in Functions : Bounded(calls'[g])
      BY <3>4, <3>5, OneCallStaysBounded
    <3>7. intuit'.pair = intuit.pair
      BY <2>2 DEF ConnectionInv, ConnectionShape
    <3> QED
      BY <1>1, <3>2, <3>6, <3>7 DEF ConnectionBounded
  <2> QED
    BY <1>8, <2>1, <2>2 DEF RevokeToken
<1>9. CASE GetSucceeds(f) \/ GetUnauthorized(f) \/ GetBacksOff(f)
  <2>1. calls[f].at = "get" /\ UNCHANGED <<conn, intuit>>
    BY <1>9 DEF GetSucceeds, GetUnauthorized, GetBacksOff, At
  <2>2. \E x : Bounded(x) /\ calls' = [calls EXCEPT ![f] = x]
    <3>1. CASE GetSucceeds(f)
      <4> DEFINE label == IF calls[f].gets + 1 = MaxGets THEN "done" ELSE "get"
                 x == [calls[f] EXCEPT !.at = label, !.gets = @ + 1, !.attempt = 0, !.waits = 0,
                                       !.refreshed = FALSE]
      <4>1. calls' = [calls EXCEPT ![f] = x]
        BY <3>1 DEF GetSucceeds, ConnectionInv, ConnectionShape
      <4>2. /\ x.at = label /\ x.gets = calls[f].gets + 1 /\ x.attempt = 0 /\ x.waits = 0
            /\ x.pair = calls[f].pair
        BY <1>1
      <4> HIDE DEF x
      <4>3. Bounded(x)
        BY <1>1, <1>2, <2>1, <4>2 DEF Bounded
      <4> QED
        BY <4>1, <4>3
    <3>2. CASE GetUnauthorized(f)
      <4> DEFINE x == [calls[f] EXCEPT !.at = "renew", !.refreshed = TRUE, !.attempt = @ + 1]
      <4>1. calls' = [calls EXCEPT ![f] = x]
        BY <3>2 DEF GetUnauthorized, ConnectionInv, ConnectionShape
      <4>2. /\ x.at = "renew" /\ x.gets = calls[f].gets /\ x.attempt = calls[f].attempt + 1
            /\ x.waits = calls[f].waits /\ x.pair = calls[f].pair /\ x.refreshed = TRUE
        BY <1>1
      <4>3. calls[f].refreshed = FALSE
        BY <1>1, <3>2 DEF GetUnauthorized
      <4> HIDE DEF x
      <4>4. Bounded(x)
        BY <1>1, <1>2, <2>1, <4>2, <4>3 DEF Bounded
      <4> QED
        BY <4>1, <4>4
    <3>3. CASE GetBacksOff(f)
      <4> DEFINE x == [calls[f] EXCEPT !.attempt = @ + 1, !.waits = @ + 1]
      <4>1. calls' = [calls EXCEPT ![f] = x] /\ calls[f].attempt < MaxRetries
        BY <3>3 DEF GetBacksOff, ConnectionInv, ConnectionShape
      <4>2. /\ x.at = "get" /\ x.gets = calls[f].gets /\ x.attempt = calls[f].attempt + 1
            /\ x.waits = calls[f].waits + 1 /\ x.pair = calls[f].pair
        BY <1>1, <2>1
      <4> HIDE DEF x
      <4>3. Bounded(x)
        BY <1>1, <1>2, <2>1, <4>1, <4>2 DEF Bounded
      <4> QED
        BY <4>1, <4>3
    <3> QED
      BY <1>9, <3>1, <3>2, <3>3
  <2>3. \A g \in Functions : Bounded(calls'[g])
    BY <2>2, OneCallStaysBounded
  <2> QED
    BY <1>1, <2>1, <2>3 DEF ConnectionBounded
<1> QED
  BY <1>5, <1>6, <1>7, <1>8, <1>9 DEF ConnectionStep

-----------------------------------------------------------------------------
(* Signals: what a claim means, a claimed post is "scoring" and a drafted one *)
(* "promoted", so no claim can take either; and what a run that is about to   *)
(* retire knows: the sources that had replied when it began are among those   *)
(* it has found proven, unless it was not steady.                             *)


Post == [status : {"absent", "pending", "scoring", "archived", "promoted"},
         verdict : Verdicts, recent : BOOLEAN]
Lead == [stage : Stages \cup {"none"}, draft : {"none", "worker", "staff"},
         byStaff : Stages \cup {"none"}, ever : BOOLEAN]
Puller == [batch : SUBSET Posts, drafting : SUBSET Posts]
Run == [at : {"idle", "scored", "retiring"}, dead : SUBSET Sources,
        proven : SUBSET Sources, known : SUBSET Sources, retired : SUBSET Sources]

\* The tables; what SignalsTypeOK says of the counters is proved with them.
Types ==
  /\ posts \in [Posts -> Post] /\ leads \in [Posts -> Lead] /\ enabledSources \subseteq Sources
  /\ pullers \in [Pullers -> Puller] /\ optimizer \in Run
  /\ weeks \in 0..MaxWeeks /\ runs \in 0..MaxRuns /\ steady \in BOOLEAN

\* A lead is there when its post was promoted, and before that it is the empty one.
LeadsArePromoted == \A p \in Posts :
  /\ posts[p].status = "promoted" <=> leads[p].stage # "none"
  /\ leads[p].stage = "none" => leads[p] = NoLead

\* What a process has claimed waits for its score, what it drafts for is a lead.
ClaimedAreScoring == \A w \in Pullers :
  /\ \A p \in pullers[w].batch : posts[p].status = "scoring"
  /\ \A p \in pullers[w].drafting : posts[p].status = "promoted"

Apart == Types /\ LeadsArePromoted /\ ClaimedAreScoring /\ ScoredByOne /\ StaffStageStands

LEMMA TypesFromTypeOK == SignalsTypeOK <=> Types /\ \A p \in Posts :
                           (posts[p].status = "promoted" <=> leads[p].stage # "none")
BY DEF SignalsTypeOK, Types, Post, Lead, Puller, Run

LEMMA InitApart == SignalsInit => Apart
BY SignalsAssumption DEF SignalsInit, Apart, Types, Post, Lead, Puller, Run,
   LeadsArePromoted, ClaimedAreScoring, ScoredByOne, StaffStageStands, NoLead, IdlePull, NoRun,
   Stages


\* One record at a time.
LEMMA LeadUpdates ==
  ASSUME NEW x \in Lead, NEW stage \in Stages
  PROVE  /\ [x EXCEPT !.stage = stage] \in Lead
         /\ [x EXCEPT !.stage = stage, !.byStaff = stage, !.ever = @ \/ stage \in Outcomes] \in Lead
         /\ [x EXCEPT !.draft = "staff", !.stage = stage, !.byStaff = stage] \in Lead
         /\ [x EXCEPT !.draft = "worker", !.stage = Drafted(@)] \in Lead
<1>1. x.ever \in BOOLEAN /\ (stage \in Outcomes) \in BOOLEAN
  BY DEF Lead
<1>2. (x.ever \/ stage \in Outcomes) \in BOOLEAN
  BY <1>1
<1> DEFINE ever == x.ever \/ stage \in Outcomes
<1>3. \A b \in BOOLEAN : [x EXCEPT !.stage = stage, !.byStaff = stage, !.ever = b] \in Lead
  BY DEF Lead, Stages
<1>4. [x EXCEPT !.stage = stage, !.byStaff = stage, !.ever = @ \/ stage \in Outcomes] \in Lead
  BY <1>2, <1>3
<1>5. Drafted(x.stage) \in Stages \cup {"none"}
  BY DEF Drafted, Stages, Lead
<1>6. [x EXCEPT !.draft = "worker", !.stage = Drafted(@)] \in Lead
  BY <1>5 DEF Lead
<1>7. [x EXCEPT !.stage = stage] \in Lead
  BY DEF Lead
<1>8. [x EXCEPT !.draft = "staff", !.stage = stage, !.byStaff = stage] \in Lead
  BY DEF Lead
<1> QED
  BY <1>4, <1>6, <1>7, <1>8

LEMMA PostUpdates ==
  ASSUME NEW x \in Post, NEW verdict \in Verdicts
  PROVE  /\ [x EXCEPT !.status = "pending", !.recent = TRUE] \in Post
         /\ [x EXCEPT !.status = "scoring"] \in Post
         /\ [x EXCEPT !.verdict = verdict, !.status = "promoted"] \in Post
         /\ [x EXCEPT !.verdict = verdict, !.status = "archived"] \in Post
         /\ [x EXCEPT !.recent = FALSE] \in Post
  BY DEF Post

\* What leaves the claims and the status of the posts alone may do as it likes
\* with the leads, as long as each keeps to its post and to what staff said.
LEMMA LeadStep ==
  ASSUME Apart, NEW p \in Posts, leads[p].stage # "none",
         NEW new \in Lead, new.stage # "none", new.byStaff \in {"none", "new", new.stage},
         leads' = [leads EXCEPT ![p] = new], posts' = posts,
         pullers' \in [Pullers -> Puller],
         \A w \in Pullers : /\ pullers'[w].batch \subseteq pullers[w].batch
                            /\ pullers'[w].drafting \subseteq pullers[w].drafting,
         enabledSources' = enabledSources, optimizer' = optimizer, weeks' = weeks, runs' = runs,
         steady' \in BOOLEAN
  PROVE  Apart'
<1>1. Types'
  BY DEF Apart, Types
<1>2. LeadsArePromoted' /\ StaffStageStands'
  BY DEF Apart, Types, LeadsArePromoted, StaffStageStands
<1>3. ClaimedAreScoring' /\ ScoredByOne'
  BY DEF Apart, Types, ClaimedAreScoring, ScoredByOne
<1> QED
  BY <1>1, <1>2, <1>3 DEF Apart

\* A step that leaves posts, leads and claims alone.
LEMMA OtherStep ==
  ASSUME Apart, UNCHANGED <<posts, leads, pullers>>,
         enabledSources' \subseteq Sources, optimizer' \in Run, weeks' \in 0..MaxWeeks,
         runs' \in 0..MaxRuns, steady' \in BOOLEAN
  PROVE  Apart'
  BY DEF Apart, Types, LeadsArePromoted, ClaimedAreScoring, ScoredByOne, StaffStageStands

LEMMA PollKeeps ==
  ASSUME Apart, NEW p \in Posts, Poll(p)
  PROVE  Apart'
<1>1. posts[p] \in Post /\ posts[p].status = "absent" /\ Poor \in Verdicts
  BY SignalsAssumption DEF Apart, Types, Poll
<1>2. posts' = [posts EXCEPT ![p] = [posts[p] EXCEPT !.status = "pending", !.recent = TRUE]]
  BY <1>1 DEF Poll, Apart, Types
<1>3. Types'
  BY <1>1, <1>2, PostUpdates DEF Apart, Types, Poll
<1>4. LeadsArePromoted' /\ StaffStageStands' /\ ScoredByOne'
  BY <1>1, <1>2 DEF Apart, Types, Poll, LeadsArePromoted, StaffStageStands, ScoredByOne, Post
<1>5. ClaimedAreScoring'
  BY <1>1, <1>2 DEF Apart, Types, Poll, ClaimedAreScoring, Post, Puller
<1> QED
  BY <1>3, <1>4, <1>5 DEF Apart

LEMMA ClaimsKeep ==
  ASSUME Apart, NEW w \in Pullers, Claim(w)
  PROVE  Apart'
<1>1. PICK batch \in SUBSET Claimable :
        /\ posts' = [p \in Posts |-> IF p \in batch THEN [posts[p] EXCEPT !.status = "scoring"]
                                     ELSE posts[p]]
        /\ pullers' = [pullers EXCEPT ![w].batch = batch]
  BY DEF Claim
<1>2. batch \subseteq Posts /\ \A p \in batch : posts[p].status = "pending"
  BY DEF Claimable, WithStatus
<1>3. pullers[w] = IdlePull
  BY DEF Claim
<1>4. /\ pullers' \in [Pullers -> Puller] /\ pullers'[w] = [batch |-> batch, drafting |-> {}]
      /\ \A v \in Pullers : v # w => pullers'[v] = pullers[v]
  <2>1. [batch |-> batch, drafting |-> {}] \in Puller
    BY <1>2 DEF Puller
  <2>2. pullers \in [Pullers -> Puller]
    BY DEF Apart, Types
  <2>3. pullers' = [pullers EXCEPT ![w] = [batch |-> batch, drafting |-> {}]]
    <3>1. pullers' = [pullers EXCEPT ![w] = [pullers[w] EXCEPT !.batch = batch]]
      BY <1>1
    <3>2. [IdlePull EXCEPT !.batch = batch] = [batch |-> batch, drafting |-> {}]
      BY DEF IdlePull
    <3> QED
      BY <1>3, <3>1, <3>2
  <2> QED
    BY <2>1, <2>2, <2>3
<1>5. posts' \in [Posts -> Post]
  BY <1>1, <1>2, PostUpdates, SignalsAssumption DEF Apart, Types
<1>6. /\ \A p \in batch : posts'[p].status = "scoring"
      /\ \A p \in Posts \ batch : posts'[p] = posts[p]
  BY <1>1, <1>2 DEF Apart, Types, Post
<1>7. \A v \in Pullers : batch \cap (pullers[v].batch \cup pullers[v].drafting) = {}
  BY <1>2 DEF Apart, ClaimedAreScoring
<1>8. Types'
  BY <1>4, <1>5 DEF Apart, Types, Claim
<1>9. LeadsArePromoted' /\ StaffStageStands'
  BY <1>2, <1>6 DEF Apart, Types, Claim, LeadsArePromoted, StaffStageStands
<1>10. ClaimedAreScoring'
  BY <1>2, <1>4, <1>6, <1>7 DEF Apart, Types, ClaimedAreScoring, Puller
<1>11. ScoredByOne'
  BY <1>4, <1>7 DEF Apart, ScoredByOne
<1> QED
  BY <1>8, <1>9, <1>10, <1>11 DEF Apart

LEMMA processItemKeeps ==
  ASSUME Apart, NEW w \in Pullers, NEW p \in Posts, NEW verdict \in Verdicts,
         processItem(w, p, verdict)
  PROVE  Apart'
<1>1. /\ p \in pullers[w].batch /\ pullers[w].drafting = {} /\ posts[p].status = "scoring"
      /\ leads[p] = NoLead /\ posts[p] \in Post /\ leads[p] \in Lead
      /\ UNCHANGED <<enabledSources, optimizer, weeks, runs, steady>>
  BY DEF processItem, Apart, Types, ClaimedAreScoring, LeadsArePromoted
<1>2. \A v \in Pullers \ {w} : p \notin pullers[v].batch \cup pullers[v].drafting
  BY <1>1 DEF Apart, ScoredByOne
<1>3. CASE pullers' = [pullers EXCEPT ![w].batch = @ \ {p}] /\ UNCHANGED <<posts, leads>>
  <2>1. /\ pullers' \in [Pullers -> Puller]
        /\ \A v \in Pullers : /\ pullers'[v].batch \subseteq pullers[v].batch
                              /\ pullers'[v].drafting \subseteq pullers[v].drafting
    BY <1>3 DEF Apart, Types, Puller
  <2>2. Types' /\ LeadsArePromoted' /\ StaffStageStands'
    BY <1>1, <1>3, <2>1 DEF Apart, Types, LeadsArePromoted, StaffStageStands
  <2>3. ClaimedAreScoring' /\ ScoredByOne'
    BY <1>3, <2>1 DEF Apart, ClaimedAreScoring, ScoredByOne
  <2> QED
    BY <2>2, <2>3 DEF Apart
<1>4. CASE /\ promote(verdict)
           /\ posts' = [posts EXCEPT ![p].verdict = verdict, ![p].status = "promoted"]
           /\ leads' = [leads EXCEPT ![p].stage = "new"]
           /\ pullers' = [pullers EXCEPT ![w].batch = @ \ {p}, ![w].drafting = {p}]
  <2>1. /\ posts' \in [Posts -> Post] /\ posts'[p].status = "promoted"
        /\ \A q \in Posts \ {p} : posts'[q] = posts[q]
    <3> DEFINE post == [posts[p] EXCEPT !.verdict = verdict, !.status = "promoted"]
    <3>1. post \in Post /\ post.status = "promoted"
      BY <1>1, PostUpdates DEF Post
    <3>2. posts' = [posts EXCEPT ![p] = post]
      BY <1>4
    <3> QED
      BY <3>1, <3>2 DEF Apart, Types
  <2>2. /\ leads' \in [Posts -> Lead] /\ leads'[p].stage = "new" /\ leads'[p].byStaff = "none"
        /\ \A q \in Posts \ {p} : leads'[q] = leads[q]
    <3> DEFINE lead == [NoLead EXCEPT !.stage = "new"]
    <3>1. lead \in Lead /\ lead.stage = "new" /\ lead.byStaff = "none"
      BY DEF Lead, NoLead, Stages
    <3>2. leads' = [leads EXCEPT ![p] = [leads[p] EXCEPT !.stage = "new"]]
      BY <1>4
    <3>3. leads' = [leads EXCEPT ![p] = lead]
      BY <1>1, <3>2
    <3> QED
      BY <3>1, <3>3 DEF Apart, Types
  <2>3. /\ pullers' \in [Pullers -> Puller] /\ pullers'[w].batch = pullers[w].batch \ {p}
        /\ pullers'[w].drafting = {p}
        /\ \A v \in Pullers \ {w} : pullers'[v] = pullers[v]
    BY <1>1, <1>4 DEF Apart, Types, Puller
  <2>4. Types'
    BY <1>1, <2>1, <2>2, <2>3 DEF Apart, Types
  <2>5. LeadsArePromoted' /\ StaffStageStands'
    BY <2>1, <2>2 DEF Apart, LeadsArePromoted, StaffStageStands
  <2>6. ClaimedAreScoring'
    <3> SUFFICES ASSUME NEW v \in Pullers
                 PROVE  /\ \A q \in pullers'[v].batch : posts'[q].status = "scoring"
                        /\ \A q \in pullers'[v].drafting : posts'[q].status = "promoted"
      BY DEF ClaimedAreScoring
    <3>1. pullers[v].batch \subseteq Posts /\ pullers[v].drafting \subseteq Posts
      BY DEF Apart, Types, Puller
    <3>2. /\ \A q \in pullers[v].batch : posts[q].status = "scoring"
          /\ \A q \in pullers[v].drafting : posts[q].status = "promoted"
      BY DEF Apart, ClaimedAreScoring
    <3>3. CASE v = w
      BY <2>1, <2>3, <3>1, <3>2, <3>3
    <3>4. CASE v # w
      BY <1>2, <2>1, <2>3, <3>1, <3>2, <3>4
    <3> QED
      BY <3>3, <3>4
  <2>7. ScoredByOne'
    <3>1. \A v \in Pullers \ {w} :
            (pullers'[w].batch \cup pullers'[w].drafting)
              \cap (pullers'[v].batch \cup pullers'[v].drafting) = {}
      BY <1>1, <1>2, <2>3 DEF Apart, ScoredByOne
    <3> QED
      BY <2>3, <3>1 DEF Apart, ScoredByOne
  <2> QED
    BY <2>4, <2>5, <2>6, <2>7 DEF Apart
<1>5. CASE /\ posts' = [posts EXCEPT ![p].verdict = verdict, ![p].status = "archived"]
           /\ leads' = leads
           /\ pullers' = [pullers EXCEPT ![w].batch = @ \ {p}, ![w].drafting = {}]
  <2>1. /\ posts' \in [Posts -> Post] /\ posts'[p].status = "archived"
        /\ \A q \in Posts \ {p} : posts'[q] = posts[q]
    <3> DEFINE post == [posts[p] EXCEPT !.verdict = verdict, !.status = "archived"]
    <3>1. post \in Post /\ post.status = "archived"
      BY <1>1, PostUpdates DEF Post
    <3>2. posts' = [posts EXCEPT ![p] = post]
      BY <1>5
    <3> QED
      BY <3>1, <3>2 DEF Apart, Types
  <2>2. /\ pullers' \in [Pullers -> Puller] /\ pullers'[w].batch = pullers[w].batch \ {p}
        /\ pullers'[w].drafting = {}
        /\ \A v \in Pullers \ {w} : pullers'[v] = pullers[v]
    BY <1>1, <1>5 DEF Apart, Types, Puller
  <2>3. Types'
    BY <1>1, <1>5, <2>1, <2>2 DEF Apart, Types
  <2>4. LeadsArePromoted' /\ StaffStageStands'
    BY <1>1, <1>5, <2>1 DEF Apart, LeadsArePromoted, StaffStageStands
  <2>5. ClaimedAreScoring'
    BY <1>2, <2>1, <2>2 DEF Apart, Types, Puller, ClaimedAreScoring
  <2>6. ScoredByOne'
    BY <2>2 DEF Apart, ScoredByOne
  <2> QED
    BY <2>3, <2>4, <2>5, <2>6 DEF Apart
<1> QED
  <2>1. CASE promote(verdict)
    BY <1>1, <1>3, <1>4, <2>1 DEF processItem
  <2>2. CASE ~promote(verdict)
    BY <1>1, <1>3, <1>5, <2>2 DEF processItem
  <2> QED
    BY <2>1, <2>2

\* The draft of the worker lands on a lead that is there; lost, it leaves it alone.
LEMMA SetDraftKeeps ==
  ASSUME Apart, NEW w \in Pullers, NEW p \in Posts, SetDraft(w, p)
  PROVE  Apart'
<1>1. /\ posts[p].status = "promoted" /\ leads[p].stage # "none" /\ leads[p] \in Lead
      /\ leads[p].byStaff \in {"none", "new", leads[p].stage}
  BY DEF SetDraft, Apart, Types, ClaimedAreScoring, LeadsArePromoted, StaffStageStands
<1>2. /\ pullers' \in [Pullers -> Puller]
      /\ \A v \in Pullers : /\ pullers'[v].batch \subseteq pullers[v].batch
                            /\ pullers'[v].drafting \subseteq pullers[v].drafting
  BY DEF SetDraft, Apart, Types, Puller
<1>3. /\ UNCHANGED <<posts, enabledSources, optimizer, weeks, runs, steady>>
      /\ steady \in BOOLEAN
  BY DEF SetDraft, Apart, Types
<1>4. CASE leads' = leads
  <2>1. Types' /\ LeadsArePromoted' /\ StaffStageStands'
    BY <1>2, <1>3, <1>4 DEF Apart, Types, LeadsArePromoted, StaffStageStands
  <2>2. ClaimedAreScoring' /\ ScoredByOne'
    BY <1>2, <1>3 DEF Apart, ClaimedAreScoring, ScoredByOne
  <2> QED
    BY <2>1, <2>2 DEF Apart
<1>5. CASE leads' = [leads EXCEPT ![p].draft = "worker", ![p].stage = Drafted(@)]
  <2> DEFINE new == [leads[p] EXCEPT !.draft = "worker", !.stage = Drafted(@)]
  <2>1. new \in Lead
    BY <1>1, LeadUpdates DEF Stages
  <2>2. /\ new.stage = Drafted(leads[p].stage) /\ new.byStaff = leads[p].byStaff
    BY <1>1 DEF Lead
  <2>3. new.stage # "none" /\ new.byStaff \in {"none", "new", new.stage}
    BY <1>1, <2>2 DEF Drafted
  <2>4. leads' = [leads EXCEPT ![p] = new]
    BY <1>5
  <2> HIDE DEF new
  <2> QED
    BY <1>1, <1>2, <1>3, <2>1, <2>3, <2>4, LeadStep
<1> QED
  BY <1>4, <1>5 DEF SetDraft

LEMMA RestartKeeps ==
  ASSUME Apart, NEW w \in Pullers, Restart(w)
  PROVE  Apart'
<1>1. /\ pullers' \in [Pullers -> Puller]
      /\ \A v \in Pullers : /\ pullers'[v].batch \subseteq pullers[v].batch
                            /\ pullers'[v].drafting \subseteq pullers[v].drafting
  BY DEF Restart, Apart, Types, Puller, IdlePull
<1>2. Types' /\ LeadsArePromoted' /\ StaffStageStands'
  BY <1>1 DEF Restart, Apart, Types, LeadsArePromoted, StaffStageStands
<1>3. ClaimedAreScoring' /\ ScoredByOne'
  BY <1>1 DEF Restart, Apart, ClaimedAreScoring, ScoredByOne
<1> QED
  BY <1>2, <1>3 DEF Apart

\* The stage is staff's own word.
LEMMA StaffKeeps ==
  ASSUME Apart, NEW p \in Posts,
         save_sig_lead_draft(p) \/ \E stage \in Stages : MoveLead(p, stage)
  PROVE  Apart'
<1>1. leads[p] \in Lead /\ pullers \in [Pullers -> Puller] /\ steady \in BOOLEAN
  BY DEF Apart, Types
<1>2. CASE save_sig_lead_draft(p)
  <2>1. PICK stage \in Stages :
          leads' = [leads EXCEPT ![p].draft = "staff", ![p].stage = stage, ![p].byStaff = stage]
    <3> DEFINE given == IF leads[p].stage \in {"new", "reviewing"} THEN "drafted" ELSE leads[p].stage
    <3>1. given \in Stages
      BY <1>1, <1>2 DEF save_sig_lead_draft, Lead, Stages
    <3>2. leads' = [leads EXCEPT ![p].draft = "staff", ![p].stage = given, ![p].byStaff = given]
      BY <1>2 DEF save_sig_lead_draft
    <3> QED
      BY <3>1, <3>2
  <2> DEFINE new == [leads[p] EXCEPT !.draft = "staff", !.stage = stage, !.byStaff = stage]
  <2>2. new \in Lead /\ new.stage = stage /\ new.byStaff = stage /\ stage # "none"
    <3>1. new \in Lead
      BY <1>1, LeadUpdates
    <3>2. new.stage = stage /\ new.byStaff = stage /\ stage # "none"
      BY <1>1 DEF Lead, Stages
    <3> QED
      BY <3>1, <3>2
  <2>3. leads' = [leads EXCEPT ![p] = new]
    BY <2>1
  <2>4. leads[p].stage # "none"
    BY <1>2 DEF save_sig_lead_draft
  <2>5. UNCHANGED <<posts, enabledSources, pullers, optimizer, weeks, runs, steady>>
    BY <1>2 DEF save_sig_lead_draft
  <2> HIDE DEF new
  <2> QED
    BY <1>1, <2>2, <2>3, <2>4, <2>5, LeadStep
<1>3. CASE \E stage \in Stages : MoveLead(p, stage)
  <2>1. PICK stage \in Stages : MoveLead(p, stage)
    BY <1>3
  <2> DEFINE new == [leads[p] EXCEPT !.stage = stage, !.byStaff = stage,
                                     !.ever = @ \/ stage \in Outcomes]
  <2>2. new \in Lead
    BY <1>1, LeadUpdates
  <2>3. new.stage = stage /\ new.byStaff = stage /\ stage # "none"
    BY <1>1 DEF Lead, Stages
  <2>4. leads' = [leads EXCEPT ![p] = new]
    BY <2>1 DEF MoveLead
  <2>5. leads[p].stage # "none" /\ UNCHANGED <<posts, enabledSources, pullers, optimizer, weeks, runs>>
    BY <2>1 DEF MoveLead
  <2>6. steady' \in BOOLEAN
    BY <2>1 DEF MoveLead
  <2> HIDE DEF new
  <2> QED
    BY <1>1, <2>2, <2>3, <2>4, <2>5, <2>6, LeadStep
<1> QED
  BY <1>2, <1>3

LEMMA WeekKeeps ==
  ASSUME Apart, Week
  PROVE  Apart'
<1>1. /\ posts \in [Posts -> Post] /\ weeks' \in 0..MaxWeeks /\ Poor \in Verdicts
      /\ posts' = [p \in Posts |-> [posts[p] EXCEPT !.recent = FALSE]]
  BY SignalsAssumption DEF Apart, Types, Week
<1>2. posts' \in [Posts -> Post]
  BY <1>1, PostUpdates
<1>3. \A p \in Posts : posts'[p].status = posts[p].status
  BY <1>1 DEF Post
<1>4. Types'
  BY <1>1, <1>2 DEF Apart, Types, Week
<1>5. LeadsArePromoted' /\ StaffStageStands' /\ ScoredByOne'
  BY <1>3 DEF Apart, Week, LeadsArePromoted, StaffStageStands, ScoredByOne
<1>6. ClaimedAreScoring'
  BY <1>3 DEF Apart, Types, Puller, Week, ClaimedAreScoring
<1> QED
  BY <1>4, <1>5, <1>6 DEF Apart

LEMMA SourcesAreOfPosts ==
  ASSUME NEW S \in SUBSET Posts
  PROVE  {SourceOf[p] : p \in S} \subseteq Sources
  BY SignalsAssumption

\* The optimizer and the switch of a source touch neither posts nor leads.
LEMMA OptimizerKeeps ==
  ASSUME Apart, Analyse \/ fetchProvenSources \/ Retire \/ \E s \in Sources : upsert_sig_source(s)
  PROVE  Apart'
<1>1. /\ optimizer \in Run /\ enabledSources \subseteq Sources /\ runs \in 0..MaxRuns
      /\ weeks \in 0..MaxWeeks /\ steady \in BOOLEAN /\ MaxRuns \in Nat
  BY SignalsAssumption DEF Apart, Types
<1>2. CASE Analyse
  <2>1. {s \in enabledSources : IsDead(s)} \subseteq Sources
    BY <1>1
  <2>2. {SourceOf[p] : p \in {q \in Posts : leads[q].ever}} \subseteq Sources
    BY SourcesAreOfPosts
  <2>3. optimizer' \in Run
    BY <1>2, <2>1, <2>2 DEF Analyse, Run, NoRun
  <2>4. runs' \in 0..MaxRuns
    BY <1>1, <1>2 DEF Analyse
  <2>5. UNCHANGED <<posts, leads, enabledSources, pullers, weeks, steady>>
    BY <1>2 DEF Analyse
  <2> QED
    BY <1>1, <2>3, <2>4, <2>5, OtherStep
<1>3. CASE fetchProvenSources
  <2>1. {SourceOf[p] : p \in {q \in Posts : leads[q].stage \in Outcomes}} \subseteq Sources
    BY SourcesAreOfPosts
  <2>2. optimizer' \in Run /\ steady' \in BOOLEAN
    BY <1>1, <1>3, <2>1 DEF fetchProvenSources, Run
  <2>3. UNCHANGED <<posts, leads, enabledSources, pullers, weeks, runs>>
    BY <1>3 DEF fetchProvenSources
  <2> QED
    BY <1>1, <2>2, <2>3, OtherStep
<1>4. CASE Retire
  <2>1. optimizer' \in Run /\ enabledSources' \subseteq Sources
    BY <1>1, <1>4 DEF Retire, Retirable, Run
  <2>2. UNCHANGED <<posts, leads, pullers, weeks, runs, steady>>
    BY <1>4 DEF Retire
  <2> QED
    BY <1>1, <2>1, <2>2, OtherStep
<1>5. CASE \E s \in Sources : upsert_sig_source(s)
  <2>1. enabledSources' \subseteq Sources
    BY <1>1, <1>5 DEF upsert_sig_source
  <2>2. UNCHANGED <<posts, leads, pullers, optimizer, weeks, runs, steady>>
    BY <1>5 DEF upsert_sig_source
  <2> QED
    BY <1>1, <2>1, <2>2, OtherStep
<1> QED
  BY <1>2, <1>3, <1>4, <1>5

LEMMA StepKeepsApart == Apart /\ [SignalsNext]_signalsVars => Apart'
<1> SUFFICES ASSUME Apart, [SignalsNext]_signalsVars PROVE Apart'
  OBVIOUS
<1>1. CASE SignalsNext
  BY <1>1, PollKeeps, ClaimsKeep, processItemKeeps, SetDraftKeeps, RestartKeeps, StaffKeeps,
     WeekKeeps, OptimizerKeeps DEF SignalsNext
<1>2. CASE UNCHANGED signalsVars
  BY <1>2 DEF signalsVars, Apart, Types, LeadsArePromoted, ClaimedAreScoring, ScoredByOne,
     StaffStageStands
<1> QED
  BY <1>1, <1>2

\* Every variable of the pipeline keeps its type, whatever the models say and
\* whenever its processes stop.
THEOREM SignalsTypes == SignalsSpec => []SignalsTypeOK
<1>1. Apart => SignalsTypeOK
  BY TypesFromTypeOK DEF Apart, LeadsArePromoted
<1> QED
  BY InitApart, StepKeepsApart, <1>1, PTL DEF SignalsSpec

\* For any number of processes that claim, score, draft, stop and start again:
\* no two of them hold one post, and no draft of theirs moves a lead from the
\* stage staff gave it.
THEOREM TheyStayApart == SignalsSpec => []WorkersStayApart
<1>1. Apart => WorkersStayApart
  BY DEF Apart, WorkersStayApart
<1> QED
  BY InitApart, StepKeepsApart, <1>1, PTL DEF SignalsSpec

-----------------------------------------------------------------------------
(* The optimizer *)

\* As long as the run is steady, a lead that has replied is still one that has;
\* what a run knew when it began has replied; and once it has asked, it is among
\* what the run has found proven.  Nothing is retired before the end of a run.
Shielded ==
  /\ steady = TRUE => \A p \in Posts : leads[p].ever = TRUE => leads[p].stage \in Outcomes
  /\ optimizer.at # "idle" => /\ optimizer.known \subseteq
                                   {SourceOf[p] : p \in {q \in Posts : leads[q].ever = TRUE}}
                              /\ optimizer.retired = {}
  /\ optimizer.at = "retiring" /\ steady = TRUE => optimizer.known \subseteq optimizer.proven
  /\ steady = TRUE => optimizer.retired \cap optimizer.known = {}

\* A step that leaves the run alone, and takes no lead out of the outcomes and no
\* reply from its record, unless it says so.
LEMMA ShieldStep ==
  ASSUME Apart, Shielded, Apart', optimizer' = optimizer,
         steady' = TRUE => steady = TRUE,
         \A p \in Posts : leads[p].ever = TRUE => leads'[p].ever = TRUE,
         steady' = TRUE =>
           \A p \in Posts : leads'[p].ever = TRUE =>
             \/ leads'[p].stage \in Outcomes
             \/ leads[p].ever = TRUE /\ (leads[p].stage \in Outcomes => leads'[p].stage \in Outcomes)
  PROVE  Shielded'
<1>1. {SourceOf[p] : p \in {q \in Posts : leads[q].ever = TRUE}}
        \subseteq {SourceOf[p] : p \in {q \in Posts : leads'[q].ever = TRUE}}
  OBVIOUS
<1>2. steady' = TRUE => \A p \in Posts : leads'[p].ever = TRUE => leads'[p].stage \in Outcomes
  BY DEF Shielded
<1> QED
  BY <1>1, <1>2 DEF Shielded

LEMMA LeadsKeepShield ==
  ASSUME Apart, Shielded, Apart', leads' = leads, optimizer' = optimizer, steady' = steady
  PROVE  Shielded'
  BY ShieldStep

LEMMA processItemShields ==
  ASSUME Apart, Shielded, Apart', NEW w \in Pullers, NEW p \in Posts, NEW verdict \in Verdicts,
         processItem(w, p, verdict)
  PROVE  Shielded'
<1>1. optimizer' = optimizer /\ steady' = steady /\ leads \in [Posts -> Lead]
  BY DEF processItem, Apart, Types
<1>2. leads' = leads \/ (leads[p] = NoLead /\ leads' = [leads EXCEPT ![p].stage = "new"])
  BY DEF processItem
<1>3. CASE leads[p] = NoLead /\ leads' = [leads EXCEPT ![p].stage = "new"]
  <2>1. \A q \in Posts : leads'[q].ever = leads[q].ever /\ (q # p => leads'[q] = leads[q])
    BY <1>1, <1>3 DEF Lead
  <2>2. leads[p].ever = FALSE
    BY <1>3 DEF NoLead
  <2> QED
    BY <1>1, <2>1, <2>2, ShieldStep
<1> QED
  BY <1>1, <1>2, <1>3, LeadsKeepShield

LEMMA SetDraftShields ==
  ASSUME Apart, Shielded, Apart', NEW w \in Pullers, NEW p \in Posts, SetDraft(w, p)
  PROVE  Shielded'
<1>1. optimizer' = optimizer /\ steady' = steady /\ leads \in [Posts -> Lead]
  BY DEF SetDraft, Apart, Types
<1>2. CASE leads' = [leads EXCEPT ![p].draft = "worker", ![p].stage = Drafted(@)]
  <2>1. leads' = [leads EXCEPT ![p] = [leads[p] EXCEPT !.draft = "worker",
                                                       !.stage = Drafted(leads[p].stage)]]
    BY <1>2
  <2>2. \A q \in Posts : /\ leads'[q].ever = leads[q].ever /\ (q # p => leads'[q] = leads[q])
    BY <1>1, <2>1 DEF Lead
  <2>3. leads'[p].stage = Drafted(leads[p].stage)
    BY <1>1, <2>1 DEF Lead
  <2>4. leads[p].stage \in Outcomes => leads'[p].stage \in Outcomes
    BY <2>3 DEF Drafted, Outcomes
  <2> QED
    BY <1>1, <2>2, <2>4, ShieldStep
<1> QED
  BY <1>1, <1>2, LeadsKeepShield DEF SetDraft

LEMMA StaffShields ==
  ASSUME Apart, Shielded, Apart', NEW p \in Posts,
         save_sig_lead_draft(p) \/ \E stage \in Stages : MoveLead(p, stage)
  PROVE  Shielded'
<1>1. optimizer' = optimizer /\ leads \in [Posts -> Lead] /\ steady \in BOOLEAN
  BY DEF save_sig_lead_draft, MoveLead, Apart, Types
<1>2. CASE save_sig_lead_draft(p)
  <2> DEFINE given == IF leads[p].stage \in {"new", "reviewing"} THEN "drafted" ELSE leads[p].stage
  <2>1. leads' = [leads EXCEPT ![p] = [leads[p] EXCEPT !.draft = "staff", !.stage = given,
                                                       !.byStaff = given]]
    BY <1>2 DEF save_sig_lead_draft
  <2>2. /\ \A q \in Posts : leads'[q].ever = leads[q].ever /\ (q # p => leads'[q] = leads[q])
        /\ leads'[p].stage = given
    BY <1>1, <2>1 DEF Lead
  <2>3. leads[p].stage \in Outcomes => given \in Outcomes
    BY DEF Outcomes
  <2>4. steady' = steady
    BY <1>2 DEF save_sig_lead_draft
  <2> HIDE DEF given
  <2> QED
    BY <1>1, <2>2, <2>3, <2>4, ShieldStep
<1>3. CASE \E stage \in Stages : MoveLead(p, stage)
  <2>1. PICK stage \in Stages : MoveLead(p, stage)
    BY <1>3
  <2>2. PICK ever \in BOOLEAN : ever = (leads[p].ever \/ stage \in Outcomes)
    BY <1>1 DEF Lead
  <2>3. leads' = [leads EXCEPT ![p] = [leads[p] EXCEPT !.stage = stage, !.byStaff = stage,
                                                       !.ever = ever]]
    BY <2>1, <2>2 DEF MoveLead
  <2>4. /\ \A q \in Posts \ {p} : leads'[q] = leads[q]
        /\ leads'[p].stage = stage /\ leads'[p].ever = ever
    BY <1>1, <2>3 DEF Lead
  <2>5. /\ leads[p].ever = TRUE => ever = TRUE
        /\ ever = TRUE => leads[p].ever = TRUE \/ stage \in Outcomes
    BY <1>1, <2>2 DEF Lead
  <2>6. /\ steady' = TRUE => steady = TRUE
        /\ steady' = TRUE => (leads[p].stage \in Outcomes => stage \in Outcomes)
    BY <1>1, <2>1 DEF MoveLead
  <2> QED
    BY <1>1, <2>4, <2>5, <2>6, ShieldStep
<1> QED
  BY <1>2, <1>3

LEMMA RunShields ==
  ASSUME Apart, Shielded, Analyse \/ fetchProvenSources \/ Retire
  PROVE  Shielded'
<1>1. optimizer \in Run /\ steady \in BOOLEAN /\ leads \in [Posts -> Lead]
  BY DEF Apart, Types
<1>2. CASE Analyse
  <2>1. {q \in Posts : leads[q].ever} = {q \in Posts : leads[q].ever = TRUE}
    BY <1>1 DEF Lead
  <2>2. /\ optimizer'.at = "scored" /\ optimizer'.retired = {}
        /\ optimizer'.known = {SourceOf[p] : p \in {q \in Posts : leads[q].ever = TRUE}}
    BY <1>2, <2>1 DEF Analyse, NoRun
  <2>3. leads' = leads /\ steady' = steady
    BY <1>2 DEF Analyse
  <2> QED
    BY <2>2, <2>3 DEF Shielded
<1>3. CASE fetchProvenSources
  <2>1. /\ leads' = leads /\ optimizer.at = "scored" /\ optimizer'.at = "retiring"
        /\ optimizer'.known = optimizer.known /\ optimizer'.retired = optimizer.retired
    BY <1>1, <1>3 DEF fetchProvenSources, Run
  <2>2. steady' = TRUE => /\ steady = TRUE
                          /\ optimizer'.proven =
                               {SourceOf[p] : p \in {q \in Posts : leads[q].stage \in Outcomes}}
    BY <1>1, <1>3 DEF fetchProvenSources, Run
  <2>3. steady = TRUE => {SourceOf[p] : p \in {q \in Posts : leads[q].ever = TRUE}}
                      \subseteq {SourceOf[p] : p \in {q \in Posts : leads[q].stage \in Outcomes}}
    BY DEF Shielded
  <2> QED
    BY <2>1, <2>2, <2>3 DEF Shielded
<1>4. CASE Retire
  <2>1. /\ leads' = leads /\ steady' = steady /\ optimizer.at = "retiring"
        /\ optimizer'.at = "idle" /\ optimizer'.known = optimizer.known
        /\ optimizer'.retired \cap optimizer.proven = {}
    BY <1>1, <1>4 DEF Retire, Retirable, Run
  <2> QED
    BY <2>1 DEF Shielded
<1> QED
  BY <1>2, <1>3, <1>4

LEMMA ShieldedInitially == SignalsInit => Shielded
BY DEF SignalsInit, Shielded, NoRun, NoLead

LEMMA StepKeepsShielded == Apart /\ Shielded /\ [SignalsNext]_signalsVars => Shielded'
<1> SUFFICES ASSUME Apart, Shielded, [SignalsNext]_signalsVars PROVE Shielded'
  OBVIOUS
<1>1. Apart'
  BY StepKeepsApart
<1>2. CASE \E p \in Posts : Poll(p)
  BY <1>1, <1>2, LeadsKeepShield DEF Poll
<1>3. CASE \E w \in Pullers : Claim(w) \/ Restart(w)
  BY <1>1, <1>3, LeadsKeepShield DEF Claim, Restart
<1>4. CASE Week \/ \E s \in Sources : upsert_sig_source(s)
  BY <1>1, <1>4, LeadsKeepShield DEF Week, upsert_sig_source
<1>5. CASE UNCHANGED signalsVars
  BY <1>1, <1>5, LeadsKeepShield DEF signalsVars
<1> QED
  BY <1>1, <1>2, <1>3, <1>4, <1>5, StaffShields, processItemShields, SetDraftShields, RunShields
  DEF SignalsNext

\* For any number of sources and posts of any age: a steady run retires no source
\* that had a lead which had replied when the run began.
THEOREM TheProvenAreSpared == SignalsSpec => []OutcomesShield
<1>1. Apart /\ Shielded => OutcomesShield
  BY DEF Apart, Types, Shielded, OutcomesShield
<1> QED
  BY InitApart, StepKeepsApart, ShieldedInitially, StepKeepsShielded, <1>1, PTL DEF SignalsSpec

-----------------------------------------------------------------------------
(* Website chat: what an answer was judged by, and what became of it.         *)

TurnRecord ==
  [at : {"start", "loads", "asks", "replies", "replied", "dead"}, warm : BOOLEAN,
   decision : {"force", "allow", "block"}, defs : SUBSET Gates, fails : SUBSET RuleGates,
   inline : GateStatuses \cup {"none"}, ships : {"answer"} \cup Canned, cta : BOOLEAN]
RowStates == GateStatuses \cup {"none", "lost", "due"}

\* What the isolate judges by holds the floor once it holds anything.
GatesSound ==
  /\ enabled \in SUBSET Gates /\ Mandatory \subseteq enabled
  /\ cache \in [warm : BOOLEAN, fresh : BOOLEAN, defs : SUBSET Gates]
  /\ cache.warm => Mandatory \subseteq cache.defs

\* So do the definitions of a turn until it is judged; then its answer has passed
\* them or is held back, and a row that is due knows which.
TurnSound(x, row) ==
  /\ x.at = "loads" => Mandatory \subseteq x.defs
  /\ x.at = "asks" /\ x.warm => Mandatory \subseteq x.defs
  /\ x.at \in {"replies", "replied"} /\ x.ships = "answer" /\ x.warm => x.fails \cap Mandatory = {}
  /\ row = "due" => x.at \in {"replies", "replied"} /\ x.inline \in GateStatuses
  /\ x.ships = "handoff" /\ row = "due" => chatNeedsHandoff(x.inline)
  /\ x.ships = "handoff" => row # "passed"

ChatInv ==
  /\ GatesSound /\ shared \in [Canned -> BOOLEAN]
  /\ turns \in [Turns -> TurnRecord] /\ rows \in [Turns -> RowStates]
  /\ \A t \in Turns : TurnSound(turns[t], rows[t])

LEMMA ChatInvSuffices ==
  ASSUME ChatInv
  PROVE  ChatTypeOK /\ WarmFloorHolds /\ HeldBackIsReviewed
BY DEF ChatInv, GatesSound, TurnSound, TurnRecord, RowStates, ChatTypeOK, WarmFloorHolds,
       HeldBackIsReviewed, Shipped

\* The most severe of some verdicts is one of them, and none is more severe.
LEMMA WorstIsWorst ==
  ASSUME NEW S \in SUBSET GateStatuses, S # {}
  PROVE  Worst(S) \in S /\ \A r \in S : Rank[r] <= Rank[Worst(S)]
<1>1. /\ Rank["passed"] = 1 /\ Rank["escalated"] = 2
      /\ Rank["blocked"] = 3 /\ Rank["failed_closed"] = 4
  BY DEF Rank
<1>2. \E s \in S : \A r \in S : Rank[r] <= Rank[s]
  <2>1. CASE "failed_closed" \in S
    BY <2>1, <1>1 DEF GateStatuses
  <2>2. CASE "failed_closed" \notin S /\ "blocked" \in S
    BY <2>2, <1>1 DEF GateStatuses
  <2>3. CASE "failed_closed" \notin S /\ "blocked" \notin S /\ "escalated" \in S
    BY <2>3, <1>1 DEF GateStatuses
  <2>4. CASE "failed_closed" \notin S /\ "blocked" \notin S /\ "escalated" \notin S
    <3>1. S = {"passed"}
      BY <2>4 DEF GateStatuses
    <3> QED
      BY <3>1, <1>1
  <2> QED
    BY <2>1, <2>2, <2>3, <2>4
<1> QED
  BY <1>2 DEF Worst

LEMMA PanelSaysAStatus ==
  ASSUME NEW defs, NEW fails, NEW votes
  PROVE  PanelSays(defs, fails, votes) \in GateStatuses
<1> DEFINE S == {Floor(defs, fails)} \cup
                {Combine({votes[g, j] : j \in Judges}) : g \in (defs \cap LlmGates) \ fails}
<1>1. \A v : Combine(v) \in GateStatuses
  BY SMTT(30) DEF Combine, GateStatuses
<1>2. S \in SUBSET GateStatuses /\ S # {}
  BY <1>1 DEF Floor, GateStatuses
<1> HIDE DEF S
<1>3. Worst(S) \in GateStatuses
  BY <1>2, WorstIsWorst
<1> QED
  BY <1>3 DEF S, PanelSays

\* What the inline pass held back, no panel can pass.
LEMMA HeldBackStays ==
  ASSUME NEW a, chatNeedsHandoff(a), NEW b \in GateStatuses
  PROVE  worstGate(a, b) \in GateStatuses /\ worstGate(a, b) # "passed"
<1>1. {a, b} \in SUBSET GateStatuses /\ {a, b} # {}
  BY DEF chatNeedsHandoff, GateStatuses
<1>2. Rank[a] <= Rank[Worst({a, b})] /\ Worst({a, b}) \in {a, b}
  BY <1>1, WorstIsWorst
<1>3. Rank[a] > 1 /\ Rank["passed"] = 1 /\ Rank[a] \in Int
  BY DEF chatNeedsHandoff, Rank
<1>4. Worst({a, b}) # "passed"
  BY <1>2, <1>3
<1> QED
  BY <1>1, <1>2, <1>4 DEF worstGate

LEMMA WorstGateTyped ==
  ASSUME NEW a \in GateStatuses, NEW b \in GateStatuses
  PROVE  worstGate(a, b) \in GateStatuses
<1>1. {a, b} \in SUBSET GateStatuses /\ {a, b} # {}
  OBVIOUS
<1> QED
  BY <1>1, WorstIsWorst DEF worstGate

\* A step of one turn concerns the turn it is of.
LEMMA TurnMoves ==
  ASSUME ChatInv, GatesSound', shared' \in [Canned -> BOOLEAN], NEW t \in Turns,
         NEW n \in TurnRecord, NEW row \in RowStates, TurnSound(n, row),
         turns' = [turns EXCEPT ![t] = n], rows' = [rows EXCEPT ![t] = row]
  PROVE  ChatInv'
<1>1. turns' \in [Turns -> TurnRecord] /\ rows' \in [Turns -> RowStates]
  BY DEF ChatInv
<1>2. ASSUME NEW u \in Turns
      PROVE  TurnSound(turns'[u], rows'[u])
  <2>1. CASE u = t
    BY <2>1 DEF ChatInv
  <2>2. CASE u # t
    <3>1. turns'[u] = turns[u] /\ rows'[u] = rows[u]
      BY <2>2 DEF ChatInv
    <3> QED
      BY <3>1 DEF ChatInv
  <2> QED
    BY <2>1, <2>2
<1> QED
  BY <1>1, <1>2 DEF ChatInv, TurnSound

\* ... and most leave its row alone.
LEMMA TurnMovesOnly ==
  ASSUME ChatInv, GatesSound', shared' \in [Canned -> BOOLEAN], NEW t \in Turns,
         NEW n \in TurnRecord, TurnSound(n, rows[t]),
         turns' = [turns EXCEPT ![t] = n], UNCHANGED rows
  PROVE  ChatInv'
<1>1. rows' = [rows EXCEPT ![t] = rows[t]] /\ rows[t] \in RowStates
  BY DEF ChatInv
<1> QED
  BY <1>1, TurnMoves

LEMMA ChatBegins ==
  ASSUME ChatInv, NEW t \in Turns, BeginTurn(t)
  PROVE  ChatInv'
<1>1. GatesSound' /\ shared' \in [Canned -> BOOLEAN] /\ UNCHANGED rows
  BY DEF BeginTurn, ChatInv, GatesSound
<1>2. PICK label, defs :
        /\ turns' = [turns EXCEPT ![t] = [@ EXCEPT !.at = label, !.warm = cache.warm, !.defs = defs]]
        /\ \/ label = "asks" /\ defs = cache.defs
           \/ label = "loads" /\ defs = enabled
  BY DEF BeginTurn, Goes
<1>3. PICK n : n = [turns[t] EXCEPT !.at = label, !.warm = cache.warm, !.defs = defs]
  OBVIOUS
<1>4. turns' = [turns EXCEPT ![t] = n]
  BY <1>2, <1>3
<1>5. turns[t] \in TurnRecord /\ turns[t].at = "start" /\ TurnSound(turns[t], rows[t])
  BY DEF ChatInv, BeginTurn
<1>6. /\ n \in TurnRecord /\ n.at = label /\ n.warm = cache.warm /\ n.defs = defs
      /\ n.ships = turns[t].ships
  BY <1>2, <1>3, <1>5 DEF TurnRecord, ChatInv, GatesSound
<1>7. TurnSound(n, rows[t])
  BY <1>2, <1>5, <1>6 DEF TurnSound, ChatInv, GatesSound
<1> QED
  BY <1>1, <1>4, <1>6, <1>7, TurnMovesOnly

LEMMA ChatStores ==
  ASSUME ChatInv, NEW t \in Turns, StoreDefs(t)
  PROVE  ChatInv'
<1>1. PICK n : n = [turns[t] EXCEPT !.at = "asks"]
  OBVIOUS
<1>2. turns' = [turns EXCEPT ![t] = n] /\ UNCHANGED rows /\ shared' \in [Canned -> BOOLEAN]
  BY <1>1 DEF StoreDefs, ChatInv
<1>3. turns[t] \in TurnRecord /\ turns[t].at = "loads" /\ TurnSound(turns[t], rows[t])
  BY DEF ChatInv, StoreDefs
<1>4. /\ n \in TurnRecord /\ n.at = "asks" /\ n.defs = turns[t].defs
      /\ n.ships = turns[t].ships
  BY <1>1, <1>3 DEF TurnRecord
<1>5. TurnSound(n, rows[t])
  BY <1>3, <1>4 DEF TurnSound
<1>6. GatesSound'
  <2>1. turns[t].defs \in SUBSET Gates /\ Mandatory \subseteq turns[t].defs
    BY <1>3 DEF TurnRecord, TurnSound
  <2> QED
    BY <2>1 DEF StoreDefs, ChatInv, GatesSound
<1> QED
  BY <1>2, <1>4, <1>5, <1>6, TurnMovesOnly

\* What a turn ships, it ships with the verdict it was given.
LEMMA Ships ==
  ASSUME ChatAssumption, ChatInv, NEW t \in Turns, NEW what \in {"answer"} \cup Canned,
         NEW inline \in GateStatuses \cup {"none"}, NEW cta \in BOOLEAN,
         NEW fails \in SUBSET RuleGates, Ship(t, what, inline, cta, fails)
  PROVE  /\ shared' \in [Canned -> BOOLEAN]
         /\ \E n \in TurnRecord :
              /\ turns' = [turns EXCEPT ![t] = n]
              /\ n.at = "replies" /\ n.warm = turns[t].warm /\ n.ships = what
              /\ n.inline = inline /\ n.fails = fails
<1>1. PICK d \in Decisions, final \in BOOLEAN :
        /\ turns' = [turns EXCEPT ![t] =
             [@ EXCEPT !.at = "replies", !.decision = d, !.ships = what, !.cta = final,
                       !.inline = inline, !.fails = fails]]
        /\ shared' = IF what \in Canned THEN [shared EXCEPT ![what] = final] ELSE shared
  <2>1. \A d : (d = "force" \/ (d = "allow" /\ (IF what \in Canned THEN shared[what] ELSE cta))) \in BOOLEAN
    OBVIOUS
  <2> QED
    BY <2>1 DEF Ship
<1>2. PICK n : n = [turns[t] EXCEPT !.at = "replies", !.decision = d, !.ships = what, !.cta = final,
                                    !.inline = inline, !.fails = fails]
  OBVIOUS
<1>3. turns' = [turns EXCEPT ![t] = n]
  BY <1>1, <1>2
<1>4. turns[t] \in TurnRecord /\ d \in {"force", "allow", "block"}
  BY DEF ChatInv, ChatAssumption
<1>5. n \in TurnRecord /\ n.at = "replies" /\ n.warm = turns[t].warm /\ n.ships = what
      /\ n.inline = inline /\ n.fails = fails
  BY <1>2, <1>4 DEF TurnRecord
<1>6. shared' \in [Canned -> BOOLEAN]
  BY <1>1 DEF ChatInv
<1> QED
  BY <1>3, <1>5, <1>6

LEMMA ChatFails ==
  ASSUME ChatAssumption, ChatInv, NEW t \in Turns, ModelFails(t)
  PROVE  ChatInv'
<1>1. GatesSound' /\ UNCHANGED rows
  BY DEF ModelFails, ChatInv, GatesSound
<1>2. PICK what, inline, cta, fails :
        /\ what = "fallback" /\ inline = "none" /\ cta = FALSE /\ fails = {}
        /\ Ship(t, what, inline, cta, fails)
  BY DEF ModelFails
<1>3. /\ what \in {"answer"} \cup Canned /\ inline \in GateStatuses \cup {"none"}
      /\ cta \in BOOLEAN /\ fails \in SUBSET RuleGates
  BY <1>2 DEF Canned
<1>4. shared' \in [Canned -> BOOLEAN]
  BY <1>2, <1>3, Ships
<1>5. PICK n \in TurnRecord :
        turns' = [turns EXCEPT ![t] = n] /\ n.at = "replies" /\ n.ships = what
  BY <1>2, <1>3, Ships
<1>6. TurnSound(n, rows[t])
  <2>1. rows[t] # "due"
    BY DEF ModelFails, ChatInv, TurnSound
  <2> QED
    BY <1>2, <1>5, <2>1 DEF TurnSound
<1> QED
  BY <1>1, <1>4, <1>5, <1>6, TurnMovesOnly

\* An answer goes out only if it breaks none of the rules it was judged by.
LEMMA ChatJudges ==
  ASSUME ChatAssumption, ChatInv, NEW t \in Turns, JudgeInline(t)
  PROVE  ChatInv'
<1>1. GatesSound'
  BY DEF JudgeInline, ChatInv, GatesSound
<1>2. PICK fails \in SUBSET RuleGates, cta \in BOOLEAN :
        \E inline \in {Floor(turns[t].defs, fails)} \cup
                      (IF turns[t].defs = {} THEN {} ELSE {"failed_closed"}) :
          Ship(t, IF chatNeedsHandoff(inline) THEN "handoff" ELSE "answer", inline, cta, fails)
  BY DEF JudgeInline
<1>3. PICK inline, what :
        /\ inline = Floor(turns[t].defs, fails) \/ inline = "failed_closed"
        /\ what = IF chatNeedsHandoff(inline) THEN "handoff" ELSE "answer"
        /\ Ship(t, what, inline, cta, fails)
  BY <1>2
<1>4. inline \in GateStatuses \cup {"none"} /\ what \in {"answer"} \cup Canned
  BY <1>3 DEF Floor, GateStatuses, Canned
<1>5. shared' \in [Canned -> BOOLEAN]
      /\ \E n \in TurnRecord :
           /\ turns' = [turns EXCEPT ![t] = n]
           /\ n.at = "replies" /\ n.warm = turns[t].warm /\ n.ships = what
           /\ n.inline = inline /\ n.fails = fails
  BY SMTT(30), <1>3, <1>4, Ships
<1>6. PICK n \in TurnRecord :
        /\ turns' = [turns EXCEPT ![t] = n]
        /\ n.at = "replies" /\ n.warm = turns[t].warm /\ n.ships = what
        /\ n.inline = inline /\ n.fails = fails
  BY <1>5
<1>7. what = "answer" => turns[t].defs \cap fails = {}
  BY <1>3 DEF Floor, chatNeedsHandoff
<1>8. turns[t].warm => Mandatory \subseteq turns[t].defs
  BY DEF ChatInv, TurnSound, JudgeInline
<1>9. (what = "handoff" => chatNeedsHandoff(inline)) /\ inline \in GateStatuses
  BY <1>3 DEF Floor, GateStatuses
<1>10. TurnSound(n, "due")
  BY <1>6, <1>7, <1>8, <1>9 DEF TurnSound
<1>11. rows' = [rows EXCEPT ![t] = "due"] /\ "due" \in RowStates
  BY DEF JudgeInline, RowStates
<1> QED
  BY <1>1, <1>5, <1>6, <1>10, <1>11, TurnMoves

LEMMA ChatReplies ==
  ASSUME ChatInv, NEW t \in Turns, Reply(t)
  PROVE  ChatInv'
<1>1. /\ GatesSound' /\ shared' \in [Canned -> BOOLEAN] /\ UNCHANGED rows
      /\ turns[t] \in TurnRecord /\ turns[t].at = "replies" /\ TurnSound(turns[t], rows[t])
  BY DEF Reply, ChatInv, GatesSound
<1>2. PICK n : n = [turns[t] EXCEPT !.at = "replied",
                      !.cta = IF turns[t].ships \in Canned THEN shared[turns[t].ships] ELSE @]
  OBVIOUS
<1>3. turns' = [turns EXCEPT ![t] = n]
  BY <1>2 DEF Reply
<1>4. turns[t].ships \in Canned => shared[turns[t].ships] \in BOOLEAN
  BY DEF ChatInv
<1>5. /\ n \in TurnRecord /\ n.at = "replied" /\ n.warm = turns[t].warm /\ n.ships = turns[t].ships
      /\ n.inline = turns[t].inline /\ n.fails = turns[t].fails
  BY <1>1, <1>2, <1>4 DEF TurnRecord
<1>6. TurnSound(n, rows[t])
  BY <1>1, <1>5 DEF TurnSound
<1> QED
  BY <1>1, <1>3, <1>5, <1>6, TurnMovesOnly

LEMMA ChatSettles ==
  ASSUME ChatInv, NEW t \in Turns, FinalizeChatDecision(t)
  PROVE  ChatInv'
<1>1. /\ GatesSound' /\ shared' \in [Canned -> BOOLEAN] /\ rows[t] = "due"
      /\ turns[t] \in TurnRecord /\ TurnSound(turns[t], rows[t])
  BY DEF FinalizeChatDecision, ChatInv, GatesSound
<1>2. PICK row : /\ Settle(t, row)
                 /\ \/ row = "lost"
                    \/ \E says \in GateStatuses : row = worstGate(turns[t].inline, says)
  BY PanelSaysAStatus DEF FinalizeChatDecision
<1>3. PICK n : n = [turns[t] EXCEPT !.defs = {}, !.inline = "none",
                      !.fails = IF turns[t].ships = "answer" THEN @ ELSE {}]
  OBVIOUS
<1>4. turns' = [turns EXCEPT ![t] = n] /\ rows' = [rows EXCEPT ![t] = row]
  BY <1>2, <1>3 DEF Settle
<1>5. /\ n \in TurnRecord /\ n.at = turns[t].at /\ n.warm = turns[t].warm
      /\ n.ships = turns[t].ships
      /\ n.ships = "answer" => n.fails = turns[t].fails
  BY <1>1, <1>3 DEF TurnRecord
<1>6. row \in RowStates /\ row # "due" /\ (turns[t].ships = "handoff" => row # "passed")
  <2>1. CASE row = "lost"
    BY <2>1 DEF RowStates
  <2>2. CASE row # "lost"
    <3>1. PICK says \in GateStatuses : row = worstGate(turns[t].inline, says)
      BY <2>2, <1>2
    <3>2. turns[t].inline \in GateStatuses
          /\ (turns[t].ships = "handoff" => chatNeedsHandoff(turns[t].inline))
      BY <1>1 DEF TurnSound
    <3>3. row \in GateStatuses /\ (turns[t].ships = "handoff" => row # "passed")
      BY <3>1, <3>2, HeldBackStays, WorstGateTyped
    <3> QED
      BY <3>3 DEF RowStates, GateStatuses
  <2> QED
    BY <2>1, <2>2
<1>7. TurnSound(n, row)
  BY <1>1, <1>5, <1>6 DEF TurnSound
<1> QED
  BY <1>1, <1>4, <1>5, <1>6, <1>7, TurnMoves

LEMMA ChatEvicts ==
  ASSUME ChatInv, Evict
  PROVE  ChatInv'
<1>1. /\ GatesSound' /\ shared' \in [Canned -> BOOLEAN]
  BY DEF Evict, ChatInv, GatesSound
<1>2. ASSUME NEW t \in Turns
      PROVE  /\ turns'[t] \in TurnRecord /\ rows'[t] \in RowStates
             /\ TurnSound(turns'[t], rows'[t])
  <2>1. turns[t] \in TurnRecord /\ rows[t] \in RowStates /\ TurnSound(turns[t], rows[t])
    BY DEF ChatInv
  <2>2. PICK row : /\ row = IF rows[t] = "due" THEN "lost" ELSE rows[t]
                   /\ rows'[t] = row /\ row \in RowStates /\ row # "due"
    BY <2>1 DEF Evict, RowStates
  <2>3. CASE turns[t].at \in {"loads", "asks", "replies"}
    <3>1. PICK n : n = [turns[t] EXCEPT !.at = "dead"]
      OBVIOUS
    <3>2. turns'[t] = n
      BY <2>3, <3>1 DEF Evict
    <3>3. n \in TurnRecord /\ n.at = "dead" /\ n.ships = turns[t].ships
      BY <2>1, <3>1 DEF TurnRecord
    <3> QED
      BY <2>1, <2>2, <3>2, <3>3 DEF TurnSound
  <2>4. CASE turns[t].at \notin {"loads", "asks", "replies"}
    <3>1. turns'[t] = turns[t]
      BY <2>4 DEF Evict
    <3> QED
      BY <2>1, <2>2, <3>1 DEF TurnSound
  <2> QED
    BY <2>3, <2>4
<1>3. /\ turns' = [t \in Turns |-> turns'[t]] /\ rows' = [t \in Turns |-> rows'[t]]
  BY DEF Evict
<1>4. turns' \in [Turns -> TurnRecord] /\ rows' \in [Turns -> RowStates]
  BY <1>2, <1>3
<1> QED
  BY <1>1, <1>2, <1>4 DEF ChatInv, TurnSound

LEMMA ChatStep ==
  ASSUME ChatAssumption, ChatInv, [ChatNext]_chatVars
  PROVE  ChatInv'
<1>1. ASSUME NEW t \in Turns, BeginTurn(t) \/ StoreDefs(t) \/ Reply(t)
      PROVE  ChatInv'
  BY <1>1, ChatBegins, ChatStores, ChatReplies
<1>2. ASSUME NEW t \in Turns, ModelFails(t) \/ JudgeInline(t) \/ FinalizeChatDecision(t)
      PROVE  ChatInv'
  BY <1>2, ChatFails, ChatJudges, ChatSettles
<1>3. ASSUME GatesSound', UNCHANGED <<shared, turns, rows>>
      PROVE  ChatInv'
  BY <1>3 DEF ChatInv, TurnSound
<1>4. CASE CacheExpires
  <2>1. PICK new : cache' = new /\ new = [cache EXCEPT !.fresh = FALSE]
    BY <1>4 DEF CacheExpires
  <2>2. cache \in [warm : BOOLEAN, fresh : BOOLEAN, defs : SUBSET Gates]
    BY DEF ChatInv, GatesSound
  <2>3. /\ new \in [warm : BOOLEAN, fresh : BOOLEAN, defs : SUBSET Gates]
        /\ new.warm = cache.warm /\ new.defs = cache.defs
    BY <2>1, <2>2
  <2> QED
    BY <1>3, <1>4, <2>1, <2>3 DEF CacheExpires, ChatInv, GatesSound
<1>5. CASE EditEvals
  BY <1>3, <1>5 DEF EditEvals, ChatInv, GatesSound
<1>6. CASE Evict
  BY <1>6, ChatEvicts
<1>7. CASE UNCHANGED chatVars
  BY <1>3, <1>7 DEF chatVars, ChatInv, GatesSound
<1> QED
  BY <1>1, <1>2, <1>4, <1>5, <1>6, <1>7 DEF ChatNext

LEMMA ChatInitially ==
  ASSUME ChatInit
  PROVE  ChatInv
<1>1. GatesSound /\ shared \in [Canned -> BOOLEAN]
  BY DEF ChatInit, GatesSound
<1>2. PICK n : n = [at |-> "start", warm |-> FALSE, decision |-> "allow", defs |-> {}, fails |-> {},
                    inline |-> "none", ships |-> "answer", cta |-> FALSE]
  OBVIOUS
<1>3. turns = [t \in Turns |-> n] /\ rows = [t \in Turns |-> "none"]
  BY <1>2 DEF ChatInit
<1>4. n \in TurnRecord /\ TurnSound(n, "none") /\ "none" \in RowStates
  BY <1>2 DEF TurnRecord, TurnSound, RowStates
<1> QED
  BY <1>1, <1>3, <1>4 DEF ChatInv

LEMMA ChatSpecInv ==
  ASSUME ChatAssumption
  PROVE  ChatSpec => []ChatInv
<1>1. ChatInit => ChatInv
  BY ChatInitially
<1>2. ChatInv /\ [ChatNext]_chatVars => ChatInv'
  BY ChatStep
<1> QED
  BY <1>1, <1>2, PTL DEF ChatSpec

\* For any gates, judges and number of turns: an isolate that has loaded its
\* definitions once ships no answer that breaks a mandatory rule.  What it judges
\* by holds the floor from the first load on, whatever is edited, expires or fails.
THEOREM FloorHoldsOnceWarm ==
  ASSUME ChatAssumption
  PROVE  ChatSpec => []WarmFloorHolds
<1>1. ChatInv => WarmFloorHolds
  BY ChatInvSuffices
<1> QED
  BY <1>1, ChatSpecInv, PTL

\* However the panel votes afterwards, the row of an answer that was held back
\* never says that it passed: the inline verdict is in a maximum with the panel's.
THEOREM HeldBackIsSeen ==
  ASSUME ChatAssumption
  PROVE  ChatSpec => []HeldBackIsReviewed
<1>1. ChatInv => HeldBackIsReviewed
  BY ChatInvSuffices
<1> QED
  BY <1>1, ChatSpecInv, PTL

-----------------------------------------------------------------------------
(* Scheduled e-mail: what went out in a period is out of reach of the runs    *)
(* that are still to come in it.                                              *)

LEMMA HoursOfADay ==
  ASSUME DispatchAssumption, NEW t \in Nat
  PROVE  Day(t) \in Nat /\ Hour(t) \in 0..HoursPerDay - 1 /\ t = HoursPerDay * Day(t) + Hour(t)
<1>1. HoursPerDay \in Nat \ {0}
  BY DEF DispatchAssumption
<1> QED
  BY <1>1 DEF Day, Hour

LEMMA NextQuotient ==
  ASSUME NEW H \in Nat \ {0}, NEW d \in Nat, NEW e \in Nat, NEW h \in 0..H - 1, NEW g \in 0..H - 1,
         H * e + g = H * d + h + 1
  PROVE  (e = d /\ g = h + 1) \/ (e = d + 1 /\ g = 0)
<1>1. CASE e < d
  <2>1. PICK k \in Nat : d = e + 1 + k
    BY <1>1, d - e - 1 \in Nat
  <2>2. H * d = H * e + H + H * k /\ H * k >= 0
    BY <2>1
  <2> QED
    BY <2>2
<1>2. CASE e > d + 1
  <2>1. PICK k \in Nat : e = d + 2 + k
    BY <1>2, e - d - 2 \in Nat
  <2>2. H * e = H * d + H + H + H * k /\ H * k >= 0
    BY <2>1
  <2> QED
    BY <2>2
<1>3. CASE e = d
  BY <1>3
<1>4. CASE e = d + 1
  <2>1. H * e = H * d + H
    BY <1>4
  <2> QED
    BY <1>4, <2>1
<1> QED
  BY <1>1, <1>2, <1>3, <1>4

\* An hour after an hour comes the next of the day, or the first of the next day.
LEMMA HourAfterHour ==
  ASSUME DispatchAssumption, NEW t \in Nat
  PROVE  \/ Day(t + 1) = Day(t) /\ Hour(t + 1) = Hour(t) + 1
         \/ Day(t + 1) = Day(t) + 1 /\ Hour(t + 1) = 0
<1>1. HoursPerDay \in Nat \ {0} /\ t + 1 \in Nat
  BY DEF DispatchAssumption
<1>2. /\ Day(t) \in Nat /\ Hour(t) \in 0..HoursPerDay - 1 /\ t = HoursPerDay * Day(t) + Hour(t)
  BY HoursOfADay
<1>3. /\ Day(t + 1) \in Nat /\ Hour(t + 1) \in 0..HoursPerDay - 1
      /\ t + 1 = HoursPerDay * Day(t + 1) + Hour(t + 1)
  BY <1>1, HoursOfADay
<1>4. HoursPerDay * Day(t + 1) + Hour(t + 1) = HoursPerDay * Day(t) + Hour(t) + 1
  BY <1>2, <1>3
<1> QED
  BY <1>1, <1>2, <1>3, <1>4, NextQuotient

\* Whether the hour in which a recurring e-mail is sent has come, or has gone by.
Comes(s, t)  == Hour(t) = SendHour /\ (s \in Weekly => Day(t) % 7 = 0)
GoneBy(s, t) == Hour(t) > SendHour \/ (s \in Weekly /\ Day(t) % 7 # 0)

LEMMA GoesBy ==
  ASSUME DispatchAssumption, NEW t \in Nat, NEW s \in Daily \cup Weekly,
         Comes(s, t) \/ GoneBy(s, t), Period(s, t + 1) = Period(s, t)
  PROVE  GoneBy(s, t + 1)
<1>1. /\ Day(t) \in Nat /\ Hour(t) \in Nat /\ Day(t + 1) \in Nat /\ Hour(t + 1) \in Nat
      /\ SendHour \in Nat
  <2>1. HoursPerDay \in Nat \ {0} /\ SendHour \in 0..HoursPerDay - 1 /\ t + 1 \in Nat
    BY DEF DispatchAssumption
  <2> QED
    BY <2>1, HoursOfADay
<1>2. CASE Day(t + 1) = Day(t) /\ Hour(t + 1) = Hour(t) + 1
  BY <1>1, <1>2 DEF Comes, GoneBy
<1>3. CASE Day(t + 1) = Day(t) + 1 /\ Hour(t + 1) = 0
  <2>1. s \notin Once
    BY DEF DispatchAssumption
  <2>2. s \notin Daily
    <3> SUFFICES ASSUME s \in Daily PROVE FALSE
      OBVIOUS
    <3>1. s \notin Weekly
      BY DEF DispatchAssumption
    <3>2. Period(s, t + 1) = Day(t + 1) /\ Period(s, t) = Day(t)
      BY <2>1, <3>1 DEF Period
    <3> QED
      BY <1>1, <1>3, <3>2
  <2>3. Day(t + 1) \div 7 = Day(t) \div 7
    BY <2>1, <2>2 DEF Period
  <2>4. PICK d \in Nat : d = Day(t)
    BY <1>1
  <2>5. (d + 1) \div 7 = d \div 7
    BY <1>3, <2>3, <2>4
  <2>6. (d + 1) % 7 # 0
    BY <2>5
  <2> QED
    BY <1>3, <2>2, <2>4, <2>6 DEF GoneBy
<1> QED
  BY <1>2, <1>3, HourAfterHour

\* What the run in flight may still send.
Pending(m) == m[1] \in tick.due \/ (tick.at = m[1] /\ m[2] \in tick.chunks)

\* A run sends what is due at its hour, one schedule at a time.
TickSound ==
  /\ tick.at = "idle" => tick = NoTick
  /\ \A s \in Daily \cup Weekly : s \in tick.due \/ tick.at = s => Comes(s, clock)
  /\ tick.at \notin tick.due

\* A recurring e-mail went out once, and the hour is gone by or the run past it.
OutOfReach(m) ==
  copies[m] = 1 /\ (GoneBy(m[1], clock) \/ (Comes(m[1], clock) /\ tick # NoTick /\ ~Pending(m)))

DispatchInv ==
  /\ DispatchTypeOK /\ TickSound
  /\ \A m \in (Daily \cup Weekly) \X Chunks : copies[m] # 0 => OutOfReach(m)

LEMMA DispatchInvSuffices ==
  ASSUME DispatchInv
  PROVE  RecurringOncePerPeriod
BY DEF DispatchInv, DispatchTypeOK, OutOfReach, RecurringOncePerPeriod, Schedules

LEMMA TimeMoves == ASSUME DispatchInv PROVE clock \in Nat
BY DEF DispatchInv, DispatchTypeOK, Times

\* What is sent to a group that was still to get it is sent once.
LEMMA SentOnce ==
  ASSUME DispatchAssumption, DispatchInv, NEW k \in tick.chunks, NEW m \in (Daily \cup Weekly) \X Chunks,
         NEW c, c = Delivered(<<tick.at, k>>), c[m] # 0
  PROVE  c[m] = 1 /\ (c[m] = copies[m] \/ (m = <<tick.at, k>> /\ Comes(m[1], clock)))
<1>1. copies \in [Schedules \X Chunks -> 0..2] /\ m \in Schedules \X Chunks
  BY DEF DispatchInv, DispatchTypeOK, Schedules
<1>2. CASE m # <<tick.at, k>>
  <2>1. c[m] = copies[m]
    BY <1>1, <1>2 DEF Delivered
  <2> QED
    BY <2>1 DEF DispatchInv, OutOfReach
<1>3. CASE m = <<tick.at, k>>
  <2>1. m[1] = tick.at /\ m[2] = k /\ m[1] \in Daily \cup Weekly
    BY <1>3
  <2>2. Comes(m[1], clock) /\ Pending(m)
    BY <2>1 DEF DispatchInv, TickSound, Pending
  <2>3. ~GoneBy(m[1], clock)
    <3>1. Hour(clock) \in Int
      BY TimeMoves, HoursOfADay
    <3> QED
      BY <2>2, <3>1 DEF Comes, GoneBy, DispatchAssumption
  <2>4. copies[m] = 0
    BY <2>2, <2>3 DEF DispatchInv, OutOfReach
  <2>5. c[m] = 1
    BY <1>1, <1>3, <2>4 DEF Delivered
  <2> QED
    BY <1>3, <2>2, <2>5
<1> QED
  BY <1>2, <1>3

\* The hour goes by with what has been sent in it.
LEMMA HourGoes ==
  ASSUME DispatchAssumption, DispatchInv, NEW c \in [Schedules \X Chunks -> 0..2], NextHour(c),
         \A m \in (Daily \cup Weekly) \X Chunks : c[m] # 0 =>
           c[m] = 1 /\ (Comes(m[1], clock) \/ GoneBy(m[1], clock)),
         tick' = NoTick, UNCHANGED lastRun
  PROVE  DispatchInv'
<1>1. clock \in Nat /\ clock' = clock + 1 /\ clock' \in Times
  <2>1. clock \in 0..MaxTime /\ clock < MaxTime /\ clock' = clock + 1 /\ MaxTime \in Nat
    BY DEF NextHour, DispatchInv, DispatchTypeOK, Times, DispatchAssumption
  <2> QED
    BY <2>1 DEF Times
<1>2. /\ copies' \in [Schedules \X Chunks -> 0..2]
      /\ \A m \in Schedules \X Chunks :
           copies'[m] = IF Period(m[1], clock + 1) = Period(m[1], clock) THEN c[m] ELSE 0
  <2>1. DOMAIN c = Schedules \X Chunks
    OBVIOUS
  <2> QED
    BY <2>1 DEF NextHour
<1>3. ASSUME NEW m \in (Daily \cup Weekly) \X Chunks, copies'[m] # 0
      PROVE  OutOfReach(m)'
  <2>1. m \in Schedules \X Chunks /\ m[1] \in Daily \cup Weekly
    BY DEF Schedules
  <2>2. /\ Period(m[1], clock + 1) = Period(m[1], clock)
        /\ copies'[m] = c[m] /\ c[m] # 0
    BY <1>2, <1>3, <2>1
  <2>3. c[m] = 1 /\ (Comes(m[1], clock) \/ GoneBy(m[1], clock))
    BY <2>2
  <2>4. GoneBy(m[1], clock + 1)
    BY <1>1, <2>1, <2>2, <2>3, GoesBy
  <2>5. GoneBy(m[1], clock')
    BY <1>1, <2>4
  <2> QED
    BY <2>2, <2>3, <2>5 DEF OutOfReach, GoneBy, Hour, Day
<1>4. TickSound'
  BY DEF TickSound, NoTick, DispatchAssumption, Schedules
<1>5. DispatchTypeOK'
  <2>1. NoTick \in [at : {"idle", "next"} \cup Schedules, due : SUBSET Schedules, chunks : SUBSET Chunks]
    BY DEF NoTick
  <2> QED
    BY <1>1, <1>2, <2>1 DEF DispatchTypeOK, DispatchInv
<1> QED
  BY <1>3, <1>4, <1>5 DEF DispatchInv, OutOfReach

\* Within the hour, a run is never again where it has been.
LEMMA RunMoves ==
  ASSUME DispatchAssumption, DispatchInv, UNCHANGED clock,
         copies' \in [Schedules \X Chunks -> 0..2],
         lastRun' \in [Schedules -> Times \cup {NotRun}],
         tick' \in [at : {"idle", "next"} \cup Schedules, due : SUBSET Schedules, chunks : SUBSET Chunks],
         tick'.at # "idle", TickSound',
         \A m \in (Daily \cup Weekly) \X Chunks : copies'[m] # 0 =>
           /\ copies'[m] = 1
           /\ GoneBy(m[1], clock) \/ (Comes(m[1], clock) /\ ~Pending(m)')
  PROVE  DispatchInv'
<1>1. tick' # NoTick
  BY DEF NoTick
<1>2. ASSUME NEW m \in (Daily \cup Weekly) \X Chunks, copies'[m] # 0
      PROVE  OutOfReach(m)'
  BY <1>1, <1>2 DEF OutOfReach, GoneBy, Comes, Hour, Day
<1>3. DispatchTypeOK'
  BY DEF DispatchTypeOK, DispatchInv
<1> QED
  BY <1>2, <1>3 DEF DispatchInv, OutOfReach

LEMMA DispatchStep ==
  ASSUME DispatchAssumption, DispatchInv, [DispatchNext]_dispatchVars
  PROVE  DispatchInv'
<1>1. /\ copies \in [Schedules \X Chunks -> 0..2]
      /\ lastRun \in [Schedules -> Times \cup {NotRun}] /\ clock \in Times
      /\ tick \in [at : {"idle", "next"} \cup Schedules, due : SUBSET Schedules, chunks : SUBSET Chunks]
      /\ {"idle", "next"} \cap Schedules = {} /\ TickSound
  BY DEF DispatchInv, DispatchTypeOK, DispatchAssumption, Schedules
<1>2. ASSUME NEW m \in (Daily \cup Weekly) \X Chunks, copies[m] # 0
      PROVE  /\ copies[m] = 1 /\ (Comes(m[1], clock) \/ GoneBy(m[1], clock))
             /\ GoneBy(m[1], clock) \/ (Comes(m[1], clock) /\ tick # NoTick /\ ~Pending(m))
  BY <1>2 DEF DispatchInv, OutOfReach
<1>3. CASE HourPasses
  <2>1. NextHour(copies) /\ tick' = NoTick /\ UNCHANGED lastRun
    BY <1>3 DEF HourPasses
  <2> QED
    BY <1>1, <1>2, <2>1, HourGoes
<1>4. CASE StartTick
  <2>1. PICK due : /\ due = {s \in Schedules : isDue(s)}
                   /\ tick' = [NoTick EXCEPT !.at = "next", !.due = due]
    BY <1>4 DEF StartTick
  <2>2. tick' = [at |-> "next", due |-> due, chunks |-> {}] /\ due \subseteq Schedules
    BY <2>1 DEF NoTick
  <2>3. UNCHANGED <<lastRun, clock, copies>> /\ tick = NoTick
    BY <1>4 DEF StartTick
  <2>4. ASSUME NEW s \in Daily \cup Weekly, s \in due
        PROVE  Comes(s, clock)
    <3>1. s \notin Once /\ (s \in Daily => s \notin Weekly)
      BY DEF DispatchAssumption
    <3>2. isDue(s)
      BY <2>1, <2>4
    <3> QED
      BY <3>1, <3>2 DEF isDue, Comes
  <2>5. TickSound'
    <3>1. \A s \in Daily \cup Weekly : s \in due => Comes(s, clock)'
      BY <2>3, <2>4 DEF Comes, Hour, Day
    <3>2. tick'.at = "next" /\ tick'.due = due /\ "next" \notin Schedules
      BY <1>1, <2>2
    <3> QED
      BY <2>2, <3>1, <3>2 DEF TickSound, Schedules
  <2>6. ASSUME NEW m \in (Daily \cup Weekly) \X Chunks, copies[m] # 0
        PROVE  copies[m] = 1 /\ GoneBy(m[1], clock)
    BY <1>2, <2>3, <2>6
  <2> QED
    BY <1>1, <2>2, <2>3, <2>5, <2>6, RunMoves
<1>5. ASSUME NEW s \in Schedules, NextSchedule(s)
      PROVE  DispatchInv'
  <2>1. /\ tick' = [at |-> s, due |-> tick.due \ {s}, chunks |-> Chunks]
        /\ s \in tick.due /\ UNCHANGED <<lastRun, clock, copies>>
    BY <1>5 DEF NextSchedule
  <2>2. tick'.at = s /\ tick'.due = tick.due \ {s} /\ s # "idle"
        /\ tick' \in [at : {"idle", "next"} \cup Schedules, due : SUBSET Schedules, chunks : SUBSET Chunks]
    BY <1>1, <2>1
  <2>3. TickSound'
    BY <1>1, <2>1, <2>2 DEF TickSound, Comes, Hour, Day
  <2>4. ASSUME NEW m \in (Daily \cup Weekly) \X Chunks, copies[m] # 0
        PROVE  /\ copies[m] = 1
               /\ GoneBy(m[1], clock) \/ (Comes(m[1], clock) /\ ~Pending(m)')
    BY <1>2, <2>1, <2>2, <2>4 DEF Pending
  <2> QED
    BY <1>1, <2>1, <2>2, <2>3, <2>4, RunMoves
<1>6. ASSUME NEW k \in Chunks, SendChunk(k)
      PROVE  DispatchInv'
  <2>1. /\ tick.at \in Schedules /\ k \in tick.chunks
        /\ tick' = [tick EXCEPT !.chunks = @ \ {k}]
        /\ copies' = copies \/ copies' = Delivered(<<tick.at, k>>)
        /\ UNCHANGED <<lastRun, clock>>
    BY <1>6 DEF SendChunk
  <2>2. /\ tick'.at = tick.at /\ tick'.due = tick.due /\ tick'.chunks = tick.chunks \ {k}
        /\ tick' \in [at : {"idle", "next"} \cup Schedules, due : SUBSET Schedules, chunks : SUBSET Chunks]
        /\ tick'.at # "idle"
    BY <1>1, <2>1
  <2>3. TickSound'
    BY <1>1, <2>1, <2>2 DEF TickSound, Comes, Hour, Day
  <2>4. copies' \in [Schedules \X Chunks -> 0..2]
    BY <1>1, <2>1 DEF Delivered
  <2>5. ASSUME NEW m \in (Daily \cup Weekly) \X Chunks, copies'[m] # 0
        PROVE  /\ copies'[m] = 1
               /\ GoneBy(m[1], clock) \/ (Comes(m[1], clock) /\ ~Pending(m)')
    <3>1. Pending(m)' => Pending(m)
      BY <2>2 DEF Pending
    <3>2. CASE copies'[m] = copies[m]
      BY <1>2, <2>5, <3>1, <3>2
    <3>3. CASE copies'[m] # copies[m]
      <4>1. copies' = Delivered(<<tick.at, k>>)
        BY <2>1, <3>3
      <4>2. copies'[m] = 1 /\ m = <<tick.at, k>> /\ Comes(m[1], clock)
        BY <2>1, <2>5, <3>3, <4>1, SentOnce
      <4>3. ~Pending(m)'
        BY <1>1, <2>2, <4>2 DEF Pending, TickSound
      <4> QED
        BY <4>2, <4>3
    <3> QED
      BY <3>2, <3>3
  <2> QED
    BY <1>1, <2>1, <2>2, <2>3, <2>4, <2>5, RunMoves
<1>7. CASE RecordRun
  <2>1. /\ tick.at \in Schedules /\ tick.chunks = {}
        /\ lastRun' = [lastRun EXCEPT ![tick.at] = clock]
        /\ tick' = [tick EXCEPT !.at = "next"] /\ UNCHANGED <<clock, copies>>
    BY <1>7 DEF RecordRun
  <2>2. /\ tick'.at = "next" /\ tick'.due = tick.due /\ tick'.chunks = {}
        /\ tick' \in [at : {"idle", "next"} \cup Schedules, due : SUBSET Schedules, chunks : SUBSET Chunks]
        /\ "next" \notin Schedules
    BY <1>1, <2>1
  <2>3. TickSound'
    BY <1>1, <2>1, <2>2 DEF TickSound, Comes, Hour, Day, Schedules
  <2>4. ASSUME NEW m \in (Daily \cup Weekly) \X Chunks, copies[m] # 0
        PROVE  /\ copies[m] = 1
               /\ GoneBy(m[1], clock) \/ (Comes(m[1], clock) /\ ~Pending(m)')
    BY <1>2, <2>1, <2>2, <2>4 DEF Pending
  <2>5. lastRun' \in [Schedules -> Times \cup {NotRun}]
    BY <1>1, <2>1
  <2> QED
    BY <1>1, <2>1, <2>2, <2>3, <2>4, <2>5, RunMoves
<1>8. CASE TickEnds
  <2>1. PICK c : /\ c = copies \/ \E k \in tick.chunks : c = Delivered(<<tick.at, k>>)
                 /\ NextHour(c)
    BY <1>8 DEF TickEnds
  <2>2. c \in [Schedules \X Chunks -> 0..2]
    <3>1. ASSUME NEW p
          PROVE  Delivered(p) \in [Schedules \X Chunks -> 0..2]
      <4>1. PICK v : v = IF copies[p] = 0 THEN 1 ELSE 2
        OBVIOUS
      <4>2. Delivered(p) = [copies EXCEPT ![p] = v] /\ v \in 0..2
        BY <4>1 DEF Delivered
      <4> QED
        BY <1>1, <4>2
    <3>2. c = copies \/ \E p : c = Delivered(p)
      BY <2>1
    <3> QED
      BY <1>1, <3>1, <3>2
  <2>3. ASSUME NEW m \in (Daily \cup Weekly) \X Chunks, c[m] # 0
        PROVE  c[m] = 1 /\ (Comes(m[1], clock) \/ GoneBy(m[1], clock))
    <3>1. CASE c[m] = copies[m]
      BY <1>2, <2>3, <3>1
    <3>2. CASE c[m] # copies[m]
      <4>1. PICK k \in tick.chunks : c = Delivered(<<tick.at, k>>)
        BY <2>1, <3>2
      <4> QED
        BY <2>3, <3>2, <4>1, SentOnce
    <3> QED
      BY <3>1, <3>2
  <2>4. tick' = NoTick /\ UNCHANGED lastRun
    BY <1>8 DEF TickEnds
  <2> QED
    BY <2>1, <2>2, <2>3, <2>4, HourGoes
<1>9. CASE UNCHANGED dispatchVars
  BY <1>9 DEF dispatchVars, DispatchInv, DispatchTypeOK, TickSound, OutOfReach, Pending,
              Comes, GoneBy, Hour, Day
<1> QED
  BY <1>3, <1>4, <1>5, <1>6, <1>7, <1>8, <1>9 DEF DispatchNext

LEMMA DispatchInitially ==
  ASSUME DispatchAssumption, DispatchInit
  PROVE  DispatchInv
<1>1. /\ lastRun = [s \in Schedules |-> NotRun] /\ clock = 0 /\ tick = NoTick
      /\ copies = [m \in Schedules \X Chunks |-> 0]
  BY DEF DispatchInit
<1>2. clock \in Times
  BY <1>1 DEF Times, DispatchAssumption
<1>3. /\ tick.at = "idle" /\ tick.due = {}
      /\ tick \in [at : {"idle", "next"} \cup Schedules, due : SUBSET Schedules, chunks : SUBSET Chunks]
  BY <1>1 DEF NoTick
<1>4. TickSound
  BY <1>1, <1>3 DEF TickSound, DispatchAssumption, Schedules
<1>5. DispatchTypeOK
  BY <1>1, <1>2, <1>3 DEF DispatchTypeOK
<1> QED
  BY <1>1, <1>4, <1>5 DEF DispatchInv, Schedules

\* For any schedules, groups of recipients, hours of a day and length of time: nobody
\* gets a daily e-mail twice a day or a weekly one twice a week.  A run that dies
\* leaves no second one to find the schedule due: the hour has gone by.
THEOREM NobodyGetsItTwice ==
  ASSUME DispatchAssumption
  PROVE  DispatchSpec => []RecurringOncePerPeriod
<1>1. DispatchInit => DispatchInv
  BY DispatchInitially
<1>2. DispatchInv /\ [DispatchNext]_dispatchVars => DispatchInv'
  BY DispatchStep
<1>3. DispatchInv => RecurringOncePerPeriod
  BY DispatchInvSuffices
<1> QED
  BY <1>1, <1>2, <1>3, PTL DEF DispatchSpec

-----------------------------------------------------------------------------
(* Discord: what a fold was computed from is what it archives, as long as     *)
(* nobody else is in the memory meanwhile.                                    *)

Flight == [step : Steps, message : Messages \cup {[n |-> 0, epoch |-> 0]}, total : Nat,
           fold : SUBSET Messages]

MemoryTyped ==
  /\ link \in {"none", "pending", "linked"}
  /\ active \in Seq(Messages) /\ summary \subseteq Messages /\ folded \subseteq Messages
  /\ again \in BOOLEAN /\ said \in 0..MaxMessages /\ epoch \in 0..MaxEpochs /\ calm \in BOOLEAN
FlightsTyped ==
  /\ flights \in [Handlers -> Flight]
  /\ \A h \in Handlers : flights[h].step # "idle" => flights[h].message \in Messages

\* One message at a time, said since the fresh start; it counted, and folds, what
\* there is.
OneAtATime ==
  /\ \A g, h \in Handlers : flights[g].step # "idle" /\ flights[h].step # "idle" => g = h
  /\ \A h \in Handlers : flights[h].step # "idle" => flights[h].message.epoch = epoch
  /\ \A h \in Handlers : flights[h].step = "overflowing" => flights[h].total = Len(active)
  /\ \A h \in Handlers : flights[h].step = "folding" => flights[h].fold = summary \cup ToFold(active)

Current(messages) == \A m \in messages : m.epoch = epoch
MemorySound == Current(Remembered) /\ folded \subseteq summary

DiscordInv == MemoryTyped /\ FlightsTyped /\ (calm => OneAtATime /\ MemorySound)

LEMMA DiscordInvSuffices ==
  ASSUME DiscordInv
  PROVE  DiscordTypeOK /\ MemoryHolds
<1>1. DiscordTypeOK
  BY DEF DiscordInv, MemoryTyped, FlightsTyped, Flight, DiscordTypeOK
<1> QED
  BY <1>1 DEF DiscordInv, MemorySound, Current, MemoryHolds, FreshStartForgets, FoldsOnlySummarised

\* What is kept, and what is folded, was in the memory.
LEMMA Folding ==
  ASSUME DiscordAssumption, NEW s \in Seq(Messages)
  PROVE  /\ ToFold(s) \subseteq ToSet(s) /\ ToFold(s) \subseteq Messages /\ Older(s) = ToFold(s)
         /\ ToSet(s) \subseteq Messages
         /\ Len(s) >= Keep => Newest(s) \in Seq(Messages) /\ ToSet(Newest(s)) \subseteq ToSet(s)
<1>1. Keep \in Nat \ {0} /\ Len(s) \in Nat /\ DOMAIN s = 1..Len(s)
  BY DEF DiscordAssumption
<1>2. \A i \in 1..Len(s) : s[i] \in Messages
  OBVIOUS
<1>3. ToFold(s) \subseteq ToSet(s) /\ Older(s) = ToFold(s)
  BY <1>1 DEF ToFold, Older, ToSet
<1>4. ToSet(s) \subseteq Messages
  BY <1>1, <1>2 DEF ToSet
<1>5. ASSUME Len(s) >= Keep
      PROVE  Newest(s) \in Seq(Messages) /\ ToSet(Newest(s)) \subseteq ToSet(s)
  <2>1. PICK a \in Nat, b \in Nat : /\ a = Len(s) - Keep + 1 /\ b = Len(s)
                                    /\ a >= 1 /\ a <= b + 1
    <3>1. /\ Len(s) - Keep + 1 \in Nat /\ Len(s) \in Nat
          /\ Len(s) - Keep + 1 >= 1 /\ Len(s) - Keep + 1 <= Len(s) + 1
      BY <1>1, <1>5
    <3> QED
      BY <3>1
  <2>2. Newest(s) = SubSeq(s, a, b)
    BY <2>1 DEF Newest
  <2>3. /\ SubSeq(s, a, b) \in Seq(Messages) /\ DOMAIN SubSeq(s, a, b) = 1..(b - a + 1)
        /\ \A i \in 1..(b - a + 1) : SubSeq(s, a, b)[i] = s[a + i - 1] /\ a + i - 1 \in 1..Len(s)
    BY <2>1, <1>1
  <2> QED
    BY <1>1, <2>2, <2>3 DEF ToSet
<1> QED
  BY <1>3, <1>4, <1>5

\* What is loaded is in the memory, and all of it when all of it was counted.
LEMMA Loading ==
  ASSUME DiscordAssumption, NEW s \in Seq(Messages), NEW total \in Nat
  PROVE  /\ Loaded(s, total) \in Seq(Messages)
         /\ total = Len(s) => ToFold(Loaded(s, total)) = ToFold(s)
<1>1. PICK a \in Nat, b \in Nat :
        /\ a = IF total < Len(s) THEN Len(s) - total + 1 ELSE 1
        /\ b = Len(s) /\ a >= 1 /\ a <= b + 1 /\ (total = b => a = 1)
  <2>1. Len(s) \in Nat
    OBVIOUS
  <2>2. CASE total < Len(s)
    <3>1. /\ Len(s) - total + 1 \in Nat /\ Len(s) - total + 1 >= 1
          /\ Len(s) - total + 1 <= Len(s) + 1 /\ total # Len(s)
      BY <2>1, <2>2
    <3> WITNESS Len(s) - total + 1 \in Nat, Len(s) \in Nat
    <3> QED
      BY <2>2, <3>1
  <2>3. CASE ~(total < Len(s))
    <3>1. 1 \in Nat /\ 1 >= 1 /\ 1 <= Len(s) + 1
      BY <2>1
    <3> WITNESS 1 \in Nat, Len(s) \in Nat
    <3> QED
      BY <2>3, <3>1
  <2> QED
    BY <2>2, <2>3
<1>2. Loaded(s, total) = SubSeq(s, a, b)
  BY <1>1 DEF Loaded
<1>3. SubSeq(s, a, b) \in Seq(Messages)
  <2>1. Len(s) \in Nat /\ DOMAIN s = 1..Len(s)
    OBVIOUS
  <2> QED
    BY <1>1, <2>1
<1>4. ASSUME total = Len(s) PROVE ToFold(SubSeq(s, a, b)) = ToFold(s)
  <2>1. a = 1 /\ b = Len(s) /\ Len(s) \in Nat
    BY <1>1, <1>4
  <2>2. PICK r \in Seq(Messages) : r = SubSeq(s, a, b)
    BY <1>3
  <2>3. DOMAIN r = 1..Len(s) /\ \A i \in 1..Len(s) : r[i] = s[i]
    BY <1>3, <2>1, <2>2
  <2>4. Len(r) \in Nat /\ DOMAIN r = 1..Len(r)
    OBVIOUS
  <2>5. Len(r) = Len(s)
    BY <2>1, <2>3, <2>4
  <2>6. \A i \in 1..(Len(s) - Keep) : i \in 1..Len(s)
    BY <2>1 DEF DiscordAssumption
  <2> QED
    BY <2>2, <2>3, <2>5, <2>6 DEF ToFold, Older
<1> QED
  BY <1>2, <1>3, <1>4

\* A step of the message in flight.
LEMMA FlightMoves ==
  ASSUME DiscordInv, NEW h \in Handlers, NEW n \in Flight, flights[h].step # "idle",
         flights' = [flights EXCEPT ![h] = n],
         n.step = "idle" \/ n.message = flights[h].message,
         MemoryTyped', UNCHANGED <<epoch, calm>>,
         calm => /\ n.step = "overflowing" => n.total = Len(active')
                 /\ n.step = "folding" => n.fold = summary' \cup ToFold(active')
                 /\ MemorySound'
  PROVE  DiscordInv'
<1>1. /\ flights' \in [Handlers -> Flight] /\ flights'[h] = n
      /\ \A g \in Handlers : g # h => flights'[g] = flights[g]
  BY DEF DiscordInv, FlightsTyped
<1>2. FlightsTyped'
  BY <1>1 DEF DiscordInv, FlightsTyped
<1>3. ASSUME calm
      PROVE  OneAtATime'
  <2>1. /\ \A g \in Handlers : flights[g].step # "idle" => g = h
        /\ flights[h].message.epoch = epoch
    BY <1>3 DEF DiscordInv, OneAtATime
  <2>2. \A g \in Handlers : flights'[g].step # "idle" => g = h
    BY <1>1, <2>1
  <2>3. n.step # "idle" => n.message.epoch = epoch
    BY <2>1
  <2>4. /\ n.step = "overflowing" => n.total = Len(active')
        /\ n.step = "folding" => n.fold = summary' \cup ToFold(active')
    BY <1>3
  <2>5. "folding" # "idle" /\ "overflowing" # "idle"
    OBVIOUS
  <2> QED
    BY <1>1, <2>2, <2>3, <2>4, <2>5 DEF OneAtATime, ToFold, Older
<1> QED
  BY <1>2, <1>3 DEF DiscordInv

LEMMA DiscordReceives ==
  ASSUME DiscordAssumption, DiscordInv, NEW h \in Handlers, Receive(h), UNCHANGED again
  PROVE  DiscordInv'
<1>1. /\ said \in 0..MaxMessages /\ said < MaxMessages /\ said' = said + 1 /\ MaxMessages \in Nat
      /\ epoch \in 0..MaxEpochs /\ UNCHANGED <<active, summary, folded, epoch>>
  BY DEF Receive, DiscordInv, MemoryTyped, DiscordAssumption
<1>2. said' \in 0..MaxMessages /\ said + 1 \in 1..MaxMessages
  BY <1>1
<1>3. MemoryTyped'
  <2>1. link' \in {"none", "pending", "linked"} /\ calm' \in BOOLEAN
    BY DEF Receive, DiscordInv, MemoryTyped
  <2> QED
    BY <1>1, <1>2, <2>1 DEF DiscordInv, MemoryTyped
<1>4. CASE link # "linked"
  <2>1. UNCHANGED <<flights, calm>>
    BY <1>4 DEF Receive
  <2> QED
    BY <1>1, <1>3, <2>1 DEF DiscordInv, FlightsTyped, OneAtATime, MemorySound, Remembered, Current,
                            ToFold, Older
<1>5. CASE link = "linked"
  <2>1. PICK message : message = [n |-> said + 1, epoch |-> epoch]
    OBVIOUS
  <2>2. PICK n : n = [Ground EXCEPT !.step = "linked", !.message = message]
    OBVIOUS
  <2>3. flights' = [flights EXCEPT ![h] = n] /\ calm' = (calm /\ Busy = {})
    BY <1>5, <2>1, <2>2 DEF Receive
  <2>4. message \in Messages /\ message.epoch = epoch
    BY <1>1, <1>2, <2>1 DEF Messages
  <2>5. n.step = "linked" /\ n.message = message /\ n \in Flight
    BY <2>2, <2>4 DEF Ground, Flight, Steps
  <2>6. /\ flights' \in [Handlers -> Flight] /\ flights'[h] = n
        /\ \A g \in Handlers : g # h => flights'[g] = flights[g]
    BY <2>3, <2>5 DEF DiscordInv, FlightsTyped
  <2>7. FlightsTyped'
    BY <2>4, <2>5, <2>6 DEF DiscordInv, FlightsTyped
  <2>8. ASSUME calm'
        PROVE  OneAtATime' /\ MemorySound'
    <3>1. calm /\ \A g \in Handlers : flights[g].step = "idle"
      BY <2>3, <2>8 DEF Busy
    <3>2. \A g \in Handlers : flights'[g].step # "idle" => g = h
      BY <2>6, <3>1
    <3>3. OneAtATime'
      BY <1>1, <2>4, <2>5, <2>6, <3>1, <3>2 DEF OneAtATime
    <3> QED
      BY <1>1, <3>1, <3>3 DEF DiscordInv, MemorySound, Remembered, Current
  <2> QED
    BY <1>3, <2>7, <2>8 DEF DiscordInv
<1> QED
  BY <1>4, <1>5

LEMMA DiscordProceeds ==
  ASSUME DiscordInv, NEW h \in Handlers, NEW n, flights[h].step # "idle",
         flights' = [flights EXCEPT ![h] = n], n \in Flight, n.step \notin {"overflowing", "folding"},
         n.step = "idle" \/ n.message = flights[h].message,
         UNCHANGED <<link, active, summary, folded, again, said, epoch, calm>>
  PROVE  DiscordInv'
<1>1. MemoryTyped'
  BY DEF DiscordInv, MemoryTyped
<1>2. calm => MemorySound'
  BY DEF DiscordInv, MemorySound, Remembered, Current
<1> QED
  BY <1>1, <1>2, FlightMoves

\* A handler that goes on without a fold.
LEMMA GoesOn ==
  ASSUME DiscordInv, NEW h \in Handlers, NEW step \in Steps, NEW n, n = [flights[h] EXCEPT !.step = step]
  PROVE  n \in Flight /\ n.step = step /\ n.message = flights[h].message /\ n.fold = flights[h].fold
<1>1. flights[h] \in Flight
  BY DEF DiscordInv, FlightsTyped
<1> QED
  BY <1>1 DEF Flight

LEMMA DiscordAnswers ==
  ASSUME DiscordInv, NEW h \in Handlers, Answer(h) \/ SendReply(h), UNCHANGED again
  PROVE  DiscordInv'
<1>1. /\ flights[h].step # "idle"
      /\ UNCHANGED <<link, active, summary, folded, again, said, epoch, calm>>
  BY DEF Answer, SendReply
<1>2. CASE flights' = [flights EXCEPT ![h] = Ground]
  <2>1. Ground \in Flight /\ Ground.step = "idle"
    BY DEF Ground, Flight, Steps
  <2> QED
    BY <1>1, <1>2, <2>1, DiscordProceeds
<1>3. CASE Proceed(h, "asked")
  <2>1. PICK n : n = [flights[h] EXCEPT !.step = "asked"]
    OBVIOUS
  <2>2. flights' = [flights EXCEPT ![h] = n]
    BY <1>3, <2>1 DEF Proceed
  <2>3. "asked" \in Steps
    BY DEF Steps
  <2>4. n \in Flight /\ n.step = "asked" /\ n.message = flights[h].message
    BY <2>1, <2>3, GoesOn
  <2> QED
    BY <1>1, <2>2, <2>4, DiscordProceeds
<1> QED
  BY <1>2, <1>3 DEF Answer, SendReply

LEMMA DiscordAppends ==
  ASSUME DiscordAssumption, DiscordInv, NEW h \in Handlers, AppendExchange(h), UNCHANGED again
  PROVE  DiscordInv'
<1>1. /\ flights[h].step = "asked" /\ UNCHANGED <<link, summary, folded, again, said, epoch, calm>>
      /\ flights[h].message \in Messages /\ active \in Seq(Messages)
  BY DEF AppendExchange, DiscordInv, FlightsTyped, MemoryTyped
<1>2. PICK step \in {"overflowing", "replying"}, total \in Nat :
        /\ flights' = [flights EXCEPT ![h] = [flights[h] EXCEPT !.step = step, !.total = total]]
        /\ \/ step = "replying" /\ active' = active
           \/ total = Len(active) + 1 /\ active' = Append(active, flights[h].message)
  <2>1. flights[h] \in Flight /\ Len(active) + 1 \in Nat
    BY <1>1 DEF DiscordInv, FlightsTyped
  <2>2. CASE Proceed(h, "replying") /\ active' = active
    <3>1. [flights[h] EXCEPT !.step = "replying"]
            = [flights[h] EXCEPT !.step = "replying", !.total = flights[h].total]
      BY <2>1 DEF Flight
    <3>2. flights[h].total \in Nat
      BY <2>1 DEF Flight
    <3> QED
      BY <2>2, <3>1, <3>2 DEF Proceed
  <2>3. CASE ~(Proceed(h, "replying") /\ active' = active)
    BY <2>1, <2>3 DEF AppendExchange
  <2> QED
    BY <2>2, <2>3
<1>3. PICK n : n = [flights[h] EXCEPT !.step = step, !.total = total]
  OBVIOUS
<1>4. flights' = [flights EXCEPT ![h] = n]
  BY <1>2, <1>3
<1>5. n \in Flight /\ n.step = step /\ n.message = flights[h].message /\ n.total = total
  <2>1. step \in Steps /\ flights[h] \in Flight
    BY DEF Steps, DiscordInv, FlightsTyped
  <2> QED
    BY <1>3, <2>1 DEF Flight
<1>6. /\ active' \in Seq(Messages) /\ ToSet(active') \subseteq ToSet(active) \cup {flights[h].message}
      /\ n.step = "overflowing" => n.total = Len(active')
  <2>1. CASE step = "replying" /\ active' = active
    BY <1>1, <1>5, <2>1
  <2>2. CASE total = Len(active) + 1 /\ active' = Append(active, flights[h].message)
    <3>1. /\ active' \in Seq(Messages) /\ DOMAIN active' = 1..(Len(active) + 1)
          /\ DOMAIN active = 1..Len(active) /\ Len(active) \in Nat
          /\ \A i \in 1..Len(active) : active'[i] = active[i]
          /\ active'[Len(active) + 1] = flights[h].message /\ Len(active') = Len(active) + 1
      BY <1>1, <2>2
    <3> QED
      BY <1>5, <2>2, <3>1 DEF ToSet
  <2> QED
    BY <1>2, <2>1, <2>2
<1>7. MemoryTyped'
  BY <1>1, <1>6 DEF DiscordInv, MemoryTyped
<1>8. ASSUME calm
      PROVE  MemorySound'
  <2>1. flights[h].message.epoch = epoch /\ MemorySound
    BY <1>1, <1>8 DEF DiscordInv, OneAtATime
  <2> QED
    BY <1>1, <1>6, <2>1 DEF MemorySound, Remembered, Current
<1>9. n.step # "folding" /\ (n.step = "overflowing" => n.total = Len(active'))
  BY <1>2, <1>5, <1>6
<1>10. n \in Flight /\ (n.step = "idle" \/ n.message = flights[h].message) /\ flights[h].step # "idle"
  BY <1>1, <1>5
<1> QED
  BY <1>1, <1>4, <1>7, <1>8, <1>9, <1>10, FlightMoves

LEMMA DiscordSummarises ==
  ASSUME DiscordAssumption, DiscordInv, NEW h \in Handlers, Summarise(h), UNCHANGED again
  PROVE  DiscordInv'
<1>1. /\ flights[h].step # "idle"
      /\ UNCHANGED <<link, active, summary, folded, again, said, epoch, calm>>
      /\ active \in Seq(Messages) /\ summary \subseteq Messages /\ flights[h] \in Flight
  BY DEF Summarise, DiscordInv, MemoryTyped, FlightsTyped
<1>2. CASE Proceed(h, "replying")
  <2>1. PICK n : n = [flights[h] EXCEPT !.step = "replying"]
    OBVIOUS
  <2>2. flights' = [flights EXCEPT ![h] = n]
    BY <1>2, <2>1 DEF Proceed
  <2>3. "replying" \in Steps
    BY DEF Steps
  <2>4. n \in Flight /\ n.step = "replying" /\ n.message = flights[h].message
    BY <2>1, <2>3, GoesOn
  <2> QED
    BY <1>1, <2>2, <2>4, DiscordProceeds
<1>3. CASE ~Proceed(h, "replying")
  <2>1. PICK old : old = ToFold(Loaded(active, flights[h].total))
    OBVIOUS
  <2>2. PICK step : step = IF old = {} THEN "replying" ELSE "folding"
    OBVIOUS
  <2>3. PICK n : n = [flights[h] EXCEPT !.step = step, !.fold = summary \cup old]
    OBVIOUS
  <2>4. flights' = [flights EXCEPT ![h] = n]
    BY <1>3, <2>1, <2>2, <2>3 DEF Summarise
  <2>5. /\ old \subseteq Messages /\ step \in Steps /\ step \notin {"idle", "overflowing"}
        /\ flights[h].total = Len(active) => old = ToFold(active)
    <3>1. flights[h].total \in Nat
      BY <1>1 DEF Flight
    <3> QED
      BY <1>1, <2>1, <2>2, <3>1, Loading, Folding DEF Steps
  <2>6. /\ n \in Flight /\ n.fold = summary \cup old /\ n.message = flights[h].message
        /\ n.step = step
    BY <1>1, <2>3, <2>5 DEF Flight
  <2>7. MemoryTyped'
    BY <1>1 DEF DiscordInv, MemoryTyped
  <2>8. calm => MemorySound'
    BY <1>1 DEF DiscordInv, MemorySound, Remembered, Current
  <2>9. calm => n.fold = summary' \cup ToFold(active')
    <3>1. calm => flights[h].total = Len(active)
      BY DEF Summarise, DiscordInv, OneAtATime
    <3> QED
      BY <1>1, <2>5, <2>6, <3>1 DEF ToFold, Older
  <2> QED
    BY <1>1, <2>4, <2>5, <2>6, <2>7, <2>8, <2>9, FlightMoves
<1> QED
  BY <1>2, <1>3

\* What the fold archives is what its summary was made of: nothing came between.
LEMMA DiscordFolds ==
  ASSUME DiscordAssumption, DiscordInv, NEW h \in Handlers, SetSummary(h), UNCHANGED again
  PROVE  DiscordInv'
<1>1. /\ flights[h].step = "folding" /\ UNCHANGED <<link, again, said, epoch, calm>>
      /\ active \in Seq(Messages) /\ summary \subseteq Messages /\ folded \subseteq Messages
      /\ flights[h].fold \subseteq Messages
  BY DEF SetSummary, DiscordInv, MemoryTyped, FlightsTyped, Flight
<1>2. PICK n : n = [flights[h] EXCEPT !.step = "replying"]
  OBVIOUS
<1>3. flights' = [flights EXCEPT ![h] = n]
  BY <1>2 DEF SetSummary, Proceed
<1>4. n \in Flight /\ n.step = "replying" /\ n.message = flights[h].message
  <2>1. "replying" \in Steps
    BY DEF Steps
  <2> QED
    BY <1>2, <2>1, GoesOn
<1>5. \/ UNCHANGED <<active, summary, folded>>
      \/ summary' = flights[h].fold /\ UNCHANGED <<active, folded>>
      \/ /\ summary' = flights[h].fold /\ Len(active) >= Keep
         /\ active' = Newest(active) /\ folded' = folded \cup Older(active)
  BY DEF SetSummary
<1>6. MemoryTyped'
  <2>1. active' \in Seq(Messages) /\ summary' \subseteq Messages /\ folded' \subseteq Messages
    BY <1>1, <1>5, Folding
  <2> QED
    BY <1>1, <2>1 DEF DiscordInv, MemoryTyped
<1>7. ASSUME calm
      PROVE  MemorySound'
  <2>1. flights[h].fold = summary \cup ToFold(active) /\ MemorySound
    BY <1>1, <1>7 DEF DiscordInv, OneAtATime
  <2>2. ToFold(active) \subseteq ToSet(active) /\ Older(active) = ToFold(active)
    BY <1>1, Folding
  <2>3. ToSet(active') \subseteq ToSet(active) /\ summary' \subseteq summary \cup ToSet(active)
    BY <1>1, <1>5, <2>1, <2>2, Folding
  <2>4. folded' \subseteq summary'
    BY <1>5, <2>1, <2>2 DEF MemorySound
  <2> QED
    BY <1>1, <2>1, <2>3, <2>4 DEF MemorySound, Remembered, Current
<1> QED
  BY <1>1, <1>3, <1>4, <1>6, <1>7, FlightMoves

\* A fresh start with nothing in flight leaves nothing.
LEMMA DiscordForgets ==
  ASSUME DiscordAssumption, DiscordInv, FreshStart, summary' = {},
         link' \in {"none", "pending", "linked"}, again' \in BOOLEAN
  PROVE  DiscordInv'
<1>1. /\ epoch \in 0..MaxEpochs /\ epoch < MaxEpochs /\ epoch' = epoch + 1 /\ MaxEpochs \in Nat
      /\ active' = <<>> /\ folded' = {} /\ calm' = (calm /\ Busy = {}) /\ UNCHANGED <<flights, said>>
  BY DEF FreshStart, DiscordInv, MemoryTyped, DiscordAssumption
<1>2. MemoryTyped'
  <2>1. epoch' \in 0..MaxEpochs /\ active' \in Seq(Messages)
    BY <1>1
  <2> QED
    BY <1>1, <2>1 DEF DiscordInv, MemoryTyped
<1>3. FlightsTyped'
  BY <1>1 DEF DiscordInv, FlightsTyped
<1>4. ASSUME calm'
      PROVE  OneAtATime' /\ MemorySound'
  <2>1. \A h \in Handlers : flights'[h].step = "idle"
    BY <1>1, <1>4 DEF Busy
  <2>2. ToSet(active') = {}
    BY <1>1 DEF ToSet
  <2> QED
    BY <1>1, <2>1, <2>2 DEF OneAtATime, MemorySound, Remembered, Current
<1> QED
  BY <1>2, <1>3, <1>4 DEF DiscordInv

LEMMA DiscordStep ==
  ASSUME DiscordAssumption, DiscordInv, [DiscordNext]_discordVars
  PROVE  DiscordInv'
<1>1. ASSUME UNCHANGED <<active, summary, folded, flights, said, epoch, calm>>,
             link' \in {"none", "pending", "linked"}, again' \in BOOLEAN
      PROVE  DiscordInv'
  BY <1>1 DEF DiscordInv, MemoryTyped, FlightsTyped, OneAtATime, MemorySound, Remembered, Current,
              ToFold, Older
<1>2. link \in {"none", "pending", "linked"} /\ again \in BOOLEAN
  BY DEF DiscordInv, MemoryTyped
<1>3. ASSUME NEW h \in Handlers, UNCHANGED again,
             Receive(h) \/ Answer(h) \/ AppendExchange(h) \/ Summarise(h) \/ SetSummary(h) \/ SendReply(h)
      PROVE  DiscordInv'
  BY <1>3, DiscordReceives, DiscordAnswers, DiscordAppends, DiscordSummarises, DiscordFolds
<1>4. CASE Confirm /\ UNCHANGED again
  BY <1>1, <1>2, <1>4 DEF Confirm
<1>5. ASSUME NEW byBridge \in BOOLEAN, Revoke(byBridge)
      PROVE  DiscordInv'
  <2>1. again' \in BOOLEAN
    BY <1>2, <1>5 DEF Revoke
  <2> QED
    BY <1>1, <1>2, <1>5, <2>1, DiscordForgets DEF Revoke
<1>6. CASE DisconnectAgain
  BY <1>1, <1>2, <1>6, DiscordForgets DEF DisconnectAgain
<1>7. CASE Erase
  BY <1>2, <1>7, DiscordForgets DEF Erase
<1>8. CASE UNCHANGED discordVars
  BY <1>1, <1>2, <1>8 DEF discordVars
<1> QED
  BY <1>3, <1>4, <1>5, <1>6, <1>7, <1>8 DEF DiscordNext

LEMMA DiscordInitially ==
  ASSUME DiscordAssumption, DiscordInit
  PROVE  DiscordInv
<1>1. Ground \in Flight /\ Ground.step = "idle"
  BY DEF Ground, Flight, Steps
<1>2. /\ active = <<>> /\ summary = {} /\ folded = {} /\ flights = [h \in Handlers |-> Ground]
      /\ link = "none" /\ again = FALSE /\ said = 0 /\ epoch = 0 /\ calm = TRUE
  BY DEF DiscordInit
<1>3. MemoryTyped
  <2>1. said \in 0..MaxMessages /\ epoch \in 0..MaxEpochs /\ active \in Seq(Messages)
    BY <1>2 DEF DiscordAssumption
  <2> QED
    BY <1>2, <2>1 DEF MemoryTyped
<1>4. FlightsTyped /\ OneAtATime
  BY <1>1, <1>2 DEF FlightsTyped, OneAtATime
<1>5. MemorySound
  <2>1. ToSet(active) = {}
    BY <1>2 DEF ToSet
  <2> QED
    BY <1>2, <2>1 DEF MemorySound, Remembered, Current
<1> QED
  BY <1>3, <1>4, <1>5 DEF DiscordInv

\* For any number of messages, folds and fresh starts: as long as messages came one
\* at a time and none was in flight at a fresh start, nothing said before the last
\* one is remembered, and a fold has archived only what the summary covers.
THEOREM MemoryAlwaysHolds ==
  ASSUME DiscordAssumption
  PROVE  DiscordSpec => []MemoryHolds
<1>1. DiscordInit => DiscordInv
  BY DiscordInitially
<1>2. DiscordInv /\ [DiscordNext]_discordVars => DiscordInv'
  BY DiscordStep
<1>3. DiscordInv => MemoryHolds
  BY DiscordInvSuffices
<1> QED
  BY <1>1, <1>2, <1>3, PTL DEF DiscordSpec

-----------------------------------------------------------------------------
(* The services together: a step of one component leaves the others where     *)
(* they are, so what each of them keeps by itself it keeps in their company.  *)

ServicesInv ==
  /\ WelcomeInv /\ ChatInv /\ DispatchInv /\ DiscordInv
  /\ EfileInv /\ EfileTyped
  /\ ConnectionInv /\ ConnectionBounded
  /\ Apart /\ Shielded

LEMMA ServicesInvSuffices ==
  ASSUME ServicesInv
  PROVE  /\ TypeOK /\ WelcomedOnce /\ WarmFloorHolds /\ HeldBackIsReviewed
         /\ RecurringOncePerPeriod /\ MemoryHolds /\ LogIsHonest /\ ConfirmedMeansDead
         /\ WorkersStayApart /\ OutcomesShield
<1>1. WelcomeTypeOK /\ WelcomedOnce
  BY DEF ServicesInv, WelcomeInv
<1>2. ChatTypeOK /\ WarmFloorHolds /\ HeldBackIsReviewed
  BY ChatInvSuffices DEF ServicesInv
<1>3. DispatchTypeOK /\ RecurringOncePerPeriod
  BY DispatchInvSuffices DEF ServicesInv, DispatchInv
<1>4. DiscordTypeOK /\ MemoryHolds
  BY DiscordInvSuffices DEF ServicesInv
<1>5. EfileTypeOK /\ LogIsHonest
  BY EfileTypesByInv, InvIsHonest DEF ServicesInv
<1>6. ConnectionTypeOK /\ ConfirmedMeansDead
  BY ServicesAssumption, ConnectionTypesByInv, InvMeansDead DEF ServicesInv
<1>7. SignalsTypeOK /\ WorkersStayApart /\ OutcomesShield
  BY TypesFromTypeOK DEF ServicesInv, Apart, LeadsArePromoted, Types, WorkersStayApart, Shielded, OutcomesShield
<1> QED
  BY <1>1, <1>2, <1>3, <1>4, <1>5, <1>6, <1>7 DEF TypeOK

LEMMA ServicesInitially ==
  ASSUME Init PROVE ServicesInv
<1>1. WelcomeInv /\ ChatInv
  BY WelcomeInitially, ChatInitially DEF Init
<1>2. DispatchInv /\ DiscordInv
  BY ServicesAssumption, DispatchInitially, DiscordInitially DEF Init
<1>3. EfileInv /\ EfileTyped
  BY EfileInitially, EfileTypesInitially DEF Init
<1>4. ConnectionInv /\ ConnectionBounded
  BY ServicesAssumption, ConnectionInitially, ConnectionBoundedInitially DEF Init
<1>5. Apart /\ Shielded
  BY InitApart, ShieldedInitially DEF Init
<1> QED
  BY <1>1, <1>2, <1>3, <1>4, <1>5 DEF ServicesInv

LEMMA ServicesStep ==
  ASSUME [Next]_vars
  PROVE  /\ [WelcomeNext]_welcomeVars /\ [ChatNext]_chatVars /\ [DispatchNext]_dispatchVars
         /\ [DiscordNext]_discordVars /\ [EfileNext]_efileVars /\ [ConnectionNext]_connectionVars
         /\ [SignalsNext]_signalsVars
BY DEF Next, vars

LEMMA ServicesKeep ==
  ASSUME ServicesInv, [Next]_vars PROVE ServicesInv'
<1>1. WelcomeInv' /\ ChatInv'
  BY ServicesAssumption, ServicesStep, WelcomeStep, ChatStep DEF ServicesInv
<1>2. DispatchInv' /\ DiscordInv'
  BY ServicesAssumption, ServicesStep, DispatchStep, DiscordStep DEF ServicesInv
<1>3. EfileInv' /\ EfileTyped'
  BY ServicesStep, EfileStep, EfileTypesStep DEF ServicesInv
<1>4. ConnectionInv' /\ ConnectionBounded'
  <2>1. CASE ConnectionNext
    <3>1. PICK f \in Functions : ConnectionStep(f)
      BY <2>1 DEF ConnectionNext
    <3> QED
      BY <3>1, ServicesAssumption, ServicesStep, ConnectionInvStep, ConnectionStaysBounded DEF ServicesInv
  <2>2. CASE UNCHANGED connectionVars
    BY <2>2, ServicesStep, ConnectionInvStep
    DEF ServicesInv, connectionVars, ConnectionBounded, Bounded
  <2> QED
    BY <2>1, <2>2, ServicesStep
<1>5. Apart' /\ Shielded'
  BY ServicesStep, StepKeepsApart, StepKeepsShielded DEF ServicesInv
<1> QED
  BY <1>1, <1>2, <1>3, <1>4, <1>5 DEF ServicesInv

\* Everything the services promise, of the composition and for any constants: every
\* variable of a component has its type, nobody is welcomed twice, the log of the
\* e-filings is honest, a confirmed revocation is one, a warm isolate holds the floor,
\* what is held back is seen, a scheduled e-mail goes out once, the memory is of the
\* last fresh start, the workers stay apart and the proven sources are spared.
THEOREM ServicesKeepTheirPromises ==
  Spec => [](/\ TypeOK /\ WelcomedOnce /\ WarmFloorHolds /\ HeldBackIsReviewed
             /\ RecurringOncePerPeriod /\ MemoryHolds /\ LogIsHonest /\ ConfirmedMeansDead
             /\ WorkersStayApart /\ OutcomesShield)
<1>1. Init => ServicesInv
  BY ServicesInitially
<1>2. ServicesInv /\ [Next]_vars => ServicesInv'
  BY ServicesKeep
<1>3. ServicesInv => /\ TypeOK /\ WelcomedOnce /\ WarmFloorHolds /\ HeldBackIsReviewed
                     /\ RecurringOncePerPeriod /\ MemoryHolds /\ LogIsHonest /\ ConfirmedMeansDead
                     /\ WorkersStayApart /\ OutcomesShield
  BY ServicesInvSuffices
<1> QED
  BY <1>1, <1>2, <1>3, PTL DEF Spec
=============================================================================
