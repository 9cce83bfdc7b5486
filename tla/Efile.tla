-------------------------------- MODULE Efile --------------------------------
(***************************************************************************)
(* The 1099-NEC e-file function: the TIN match, the transmit behind a      *)
(* human's confirmation, and the append-only log both write.  Each request *)
(* to TaxBandits and each statement of the database is a step; a request   *)
(* whose answer is lost ends the call before it has logged anything.       *)
(***************************************************************************)
EXTENDS Naturals, Sequences

CONSTANTS Vendors, Tins,
          TinOf,               \* vendor -> the TIN the IRS has for it
          Matchings, Filings,  \* calls of op tin_match and of op transmit
          Unsupplied           \* a caller that supplies no TIN for a vendor

\* What the constants have to be: the modules that use this one assume it.
EfileAssumption ==
  TinOf \in [Vendors -> Tins] /\ Unsupplied \notin Tins /\ Matchings \cap Filings = {}

VARIABLES creds,     \* the TAXBANDITS_* secrets are set
          log,       \* efile_submissions, oldest first
          returns,   \* what TaxBandits holds: calls to transmitted returns
          requests   \* the calls in flight

efileVars == <<creds, log, returns, requests>>

EfileCalls == Matchings \cup Filings
Statuses   == {"dry_run", "submitted", "accepted", "rejected", "error",
               "tin_matched", "tin_mismatch"}

\* The TINs a caller supplies: none, or one for each vendor of the roll-up.
Supplied  == UNION {[rows -> Tins \cup {Unsupplied}] : rows \in SUBSET Vendors}
Event     == [phase : {"tin_match", "dry_run", "transmit"}, status : Statuses,
              matched : SUBSET Vendors, call : EfileCalls]
Return    == [call : Filings, tins : Supplied, verdict : {"accepted", "rejected", "pending"}]

EfileTypeOK ==
  /\ creds \in BOOLEAN
  /\ log \in Seq(Event)
  /\ returns \subseteq Return
  /\ requests \in [EfileCalls ->
       [at : {"start", "built", "ask", "create", "transmit", "record", "done"},
        tins : Supplied, matched : SUBSET Vendors, status : Statuses]]

Blank(label) == [at |-> label, tins |-> << >>, matched |-> {}, status |-> "error"]

EfileInit ==
  /\ creds \in BOOLEAN
  /\ log = <<>> /\ returns = {}
  /\ requests = [c \in EfileCalls |-> Blank("start")]

-----------------------------------------------------------------------------
(* The mappers *)

Included(tins) == DOMAIN tins
NotReady(tins) == {v \in DOMAIN tins : tins[v] = Unsupplied}

\* What TaxBandits may answer: an Errors list, a StatusCode, a Status text, an id.
\* A return it has rejected shows in its errors or its text, whatever else the
\* answer says; one it has not decided yet may well be called transmitted.
Ack == [errors : BOOLEAN, code : {"2xx", "other", "none"},
        text : {"reject", "accept", "transmitted", "none"}, id : BOOLEAN]
Answers(verdict) ==
  CASE verdict = "accepted" -> {a \in Ack : ~a.errors /\ a.code = "2xx" /\ a.text = "accept"}
    [] verdict = "rejected" -> {a \in Ack : a.errors \/ a.text = "reject"}
    [] OTHER                -> {a \in Ack : ~a.errors /\ a.text \in {"transmitted", "none"}}

Favourable == {"accept", "transmitted"}

classifyAck(a) ==
  IF a.errors THEN "rejected"
  ELSE IF a.code = "other" THEN "error"
  ELSE IF a.text = "reject" THEN "rejected"
  ELSE IF a.text \in Favourable THEN "accepted"
  ELSE IF a.code = "2xx" /\ a.id THEN "submitted" ELSE "error"

-----------------------------------------------------------------------------
(* Steps *)

Stands(c, label) == requests[c].at = label
Reaches(c, label) == requests' = [requests EXCEPT ![c].at = label]
Ends(c) == requests' = [requests EXCEPT ![c] = Blank("done")]
Append1(e) == log' = Append(log, e)

\* The roll-up is read and the payload is built from what the caller supplies.
\* A matching asks about every vendor it has a TIN of, a filing needs vendors.
Builds(c) ==
  /\ Stands(c, "start")
  /\ \E tins \in Supplied :
       /\ c \in Filings => tins # << >>
       /\ requests' = [requests EXCEPT ![c].at = "built", ![c].tins = tins]
  /\ UNCHANGED <<creds, log, returns>>

\* Without credentials either operation logs what it would have sent.
DryRuns(c) ==
  /\ Stands(c, "built") /\ ~creds
  /\ \/ Append1([phase |-> "dry_run", status |-> "dry_run", matched |-> {}, call |-> c])
     \/ UNCHANGED log
  /\ Ends(c) /\ UNCHANGED <<creds, returns>>

\* A vendor is matched when the answer says so of its TIN, and mismatched when
\* the answer says no or is pending.  A refused request names no vendor: nothing
\* is mismatched then, which is logged as tin_matched.
MatchAsks(c) ==
  LET asked == Included(requests[c].tins) \ NotReady(requests[c].tins)
      right == {v \in asked : requests[c].tins[v] = TinOf[v]}
  IN  /\ c \in Matchings /\ Stands(c, "built") /\ creds
      /\ \/ \E matched \in SUBSET right :
              requests' = [requests EXCEPT ![c].at = "record", ![c].matched = matched,
                             ![c].status = IF asked = matched THEN "tin_matched"
                                                              ELSE "tin_mismatch"]
         \/ requests' = [requests EXCEPT ![c].at = "record", ![c].status = "tin_matched"]
         \/ Ends(c)
      /\ UNCHANGED <<creds, log, returns>>

\* The newest match on record.
Matches(i) ==
  /\ log[i].phase = "tin_match"
  /\ \A j \in DOMAIN log : log[j].phase = "tin_match" => j <= i

\* Wrong: the newest match is asked for, but not whom it matched.
TransmitChecksStatus(c) ==
  /\ c \in Filings /\ Stands(c, "built") /\ creds
  /\ IF /\ \E i \in DOMAIN log : Matches(i) /\ log[i].status = "tin_matched"
        /\ NotReady(requests[c].tins) = {}
     THEN Reaches(c, "create") ELSE Ends(c)
  /\ UNCHANGED <<creds, log, returns>>

\* It must have matched every vendor of this call, and every vendor must have
\* its TIN.
TransmitChecks(c) ==
  /\ c \in Filings /\ Stands(c, "built") /\ creds
  /\ IF /\ \E i \in DOMAIN log : /\ Matches(i) /\ log[i].status = "tin_matched"
                                  /\ Included(requests[c].tins) \subseteq log[i].matched
        /\ NotReady(requests[c].tins) = {}
     THEN Reaches(c, "create") ELSE Ends(c)
  /\ UNCHANGED <<creds, log, returns>>

\* A refused creation is logged as rejected.
Creates(c) ==
  /\ Stands(c, "create")
  /\ \/ Reaches(c, "transmit")
     \/ requests' = [requests EXCEPT ![c].at = "record", ![c].status = "rejected"]
     \/ Ends(c)
  /\ UNCHANGED <<creds, log, returns>>

Transmits(c) ==
  /\ Stands(c, "transmit")
  /\ \/ \E verdict \in {"accepted", "rejected", "pending"} :
          /\ returns' = returns \cup
               {[call |-> c, tins |-> requests[c].tins, verdict |-> verdict]}
          /\ \/ \E a \in Answers(verdict) :
                  requests' = [requests EXCEPT ![c].at = "record", ![c].status = classifyAck(a)]
             \/ Ends(c)
     \/ Ends(c) /\ UNCHANGED returns
  /\ UNCHANGED <<creds, log>>

\* efile_record_event, which may fail.
Records(c) ==
  /\ Stands(c, "record")
  /\ \/ Append1([phase |-> IF c \in Matchings THEN "tin_match" ELSE "transmit",
                 status |-> requests[c].status, matched |-> requests[c].matched, call |-> c])
     \/ UNCHANGED log
  /\ Ends(c) /\ UNCHANGED <<creds, returns>>

EfileNext ==
  \E c \in EfileCalls : \/ Builds(c) \/ DryRuns(c) \/ MatchAsks(c) \/ TransmitChecks(c)
                        \/ Creates(c) \/ Transmits(c) \/ Records(c)

EfileSpec == EfileInit /\ [][EfileNext]_efileVars

-----------------------------------------------------------------------------
(* Properties *)

\* Whatever calls overlap and whatever answers are lost, a vendor whose return
\* TaxBandits holds was matched by a TIN match on record ("a TIN-match
\* pre-check result is on record before any transmit").
FiledVendorsMatched ==
  \A r \in returns : \E i \in DOMAIN log :
    /\ log[i].phase = "tin_match" /\ log[i].status = "tin_matched"
    /\ Included(r.tins) \subseteq log[i].matched

\* The log never says accepted of a return that TaxBandits has rejected or does
\* not hold: neither a dry run nor a lost or mixed answer turns into an acceptance.
AcceptedIsHonest ==
  \A i \in DOMAIN log : log[i].status = "accepted" =>
    \E r \in returns : r.call = log[i].call /\ r.verdict # "rejected"

\* What is filed was matched, and what the log calls accepted was not refused.
LogIsHonest == FiledVendorsMatched /\ AcceptedIsHonest

\* It says so only of one that is accepted ("we never upgrade 'submitted' to
\* 'accepted'").  The code breaks it: a status of transmitted is enough.
AcceptedIsAccepted ==
  \A i \in DOMAIN log : log[i].status = "accepted" =>
    \E r \in returns : r.call = log[i].call /\ r.verdict = "accepted"

\* The TIN a return is filed under is the one that matched ("every included
\* vendor must have PASSED a prior TIN match").  The code breaks it.
FiledTinsMatched ==
  \A r \in returns : \A v \in DOMAIN r.tins : r.tins[v] = TinOf[v]
=============================================================================
