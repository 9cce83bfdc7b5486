------------------------------ MODULE Signals ------------------------------
(***************************************************************************)
(* Signals, the outreach pipeline: posts polled from sources wait for a    *)
(* worker that claims, scores and drafts; staff move the leads along; a    *)
(* daily optimizer retires the sources that bring nothing.                 *)
(***************************************************************************)
EXTENDS Integers, FiniteSets

CONSTANTS Pullers,           \* processes of the worker that run at once
          Posts, Sources, SourceOf,
          Verdicts,          \* what the models may say of a post
          MinVolume,         \* scored posts before a source is judged
          MaxWeeks, MaxRuns

Poor == [rel |-> FALSE, us |-> FALSE, needs |-> FALSE, keen |-> FALSE]

\* What the constants have to be.
ASSUME SignalsAssumption ==
  /\ SourceOf \in [Posts -> Sources] /\ MinVolume \in Nat \ {0}
  /\ Verdicts \subseteq [rel : BOOLEAN, us : BOOLEAN, needs : BOOLEAN, keen : BOOLEAN]
  /\ Poor \in Verdicts /\ IsFiniteSet(Posts) /\ MaxWeeks \in Nat /\ MaxRuns \in Nat

VARIABLES posts,     \* sig_items with their sig_scores; recent: inside the window
          leads,     \* sig_leads; byStaff: the stage staff last gave; ever: it once had a reply
          enabledSources,
          pullers,   \* what each process has claimed, and the lead it drafts for
          optimizer, \* a run: the sources it found dead, and those it found proven
          weeks, runs, steady

signalsVars == <<posts, leads, enabledSources, pullers, optimizer, weeks, runs, steady>>

Stages   == {"new", "reviewing", "drafted", "sent", "replied", "won", "dead"}
Outcomes == {"replied", "won"}
NoLead   == [stage |-> "none", draft |-> "none", byStaff |-> "none", ever |-> FALSE]
IdlePull == [batch |-> {}, drafting |-> {}]
NoRun    == [at |-> "idle", dead |-> {}, proven |-> {}, known |-> {}, retired |-> {}]

SignalsTypeOK ==
  /\ posts \in [Posts -> [status : {"absent", "pending", "scoring", "archived", "promoted"},
                          verdict : Verdicts, recent : BOOLEAN]]
  /\ leads \in [Posts -> [stage : Stages \cup {"none"}, draft : {"none", "worker", "staff"},
                          byStaff : Stages \cup {"none"}, ever : BOOLEAN]]
  /\ \A p \in Posts : posts[p].status = "promoted" <=> leads[p].stage # "none"
  /\ enabledSources \subseteq Sources
  /\ pullers \in [Pullers -> [batch : SUBSET Posts, drafting : SUBSET Posts]]
  /\ optimizer \in [at : {"idle", "scored", "retiring"}, dead : SUBSET Sources,
                    proven : SUBSET Sources, known : SUBSET Sources, retired : SUBSET Sources]
  /\ weeks \in 0..MaxWeeks /\ runs \in 0..MaxRuns /\ steady \in BOOLEAN

SignalsInit ==
  /\ posts = [p \in Posts |-> [status |-> "absent", verdict |-> Poor, recent |-> TRUE]]
  /\ leads = [p \in Posts |-> NoLead]
  /\ enabledSources = Sources
  /\ pullers = [w \in Pullers |-> IdlePull]
  /\ optimizer = NoRun /\ weeks = 0 /\ runs = 0 /\ steady = TRUE

WithStatus(status) == {p \in Posts : posts[p].status = status}

-----------------------------------------------------------------------------
(* The worker *)

\* Polling brings the posts of the sources that are on, each once.
Poll(p) ==
  /\ posts[p].status = "absent" /\ SourceOf[p] \in enabledSources
  /\ posts' = [posts EXCEPT ![p].status = "pending", ![p].recent = TRUE]
  /\ UNCHANGED <<leads, enabledSources, pullers, optimizer, weeks, runs, steady>>

\* Wrong: what a crashed worker may have left is claimed again, the living one's too.
ClaimableAgain == WithStatus("pending") \cup WithStatus("scoring")

Claimable == WithStatus("pending")

\* sig_claim_pending: one statement picks the rows and flips them.
Claim(w) ==
  /\ pullers[w] = IdlePull
  /\ \E batch \in SUBSET Claimable \ {{}} :
       /\ posts' = [p \in Posts |-> IF p \in batch THEN [posts[p] EXCEPT !.status = "scoring"]
                                    ELSE posts[p]]
       /\ pullers' = [pullers EXCEPT ![w].batch = batch]
  /\ UNCHANGED <<leads, enabledSources, optimizer, weeks, runs, steady>>

\* Relevant, from someone who needs help, in the US (the default gate), keen enough.
promote(verdict) == verdict.rel /\ verdict.needs /\ verdict.us /\ verdict.keen

\* A post is scored and submitted, or its submission is lost and it stays where
\* it is.  Empty and excluded posts, and posts the models failed on, count as poor.
processItem(w, p, verdict) ==
  /\ p \in pullers[w].batch /\ pullers[w].drafting = {}
  /\ \/ /\ posts' = [posts EXCEPT ![p].verdict = verdict,
                                  ![p].status = IF promote(verdict) THEN "promoted" ELSE "archived"]
        /\ leads' = IF promote(verdict) /\ leads[p] = NoLead
                    THEN [leads EXCEPT ![p].stage = "new"] ELSE leads
        /\ pullers' = [pullers EXCEPT ![w].batch = @ \ {p},
                                      ![w].drafting = IF promote(verdict) THEN {p} ELSE {}]
     \/ pullers' = [pullers EXCEPT ![w].batch = @ \ {p}] /\ UNCHANGED <<posts, leads>>
  /\ UNCHANGED <<enabledSources, optimizer, weeks, runs, steady>>

Drafted(stage) == IF stage = "new" THEN "drafted" ELSE stage

\* sig_set_lead_draft, when the model has answered with something usable.
SetDraft(w, p) ==
  /\ p \in pullers[w].drafting
  /\ pullers' = [pullers EXCEPT ![w].drafting = {}]
  /\ \/ leads' = [leads EXCEPT ![p].draft = "worker", ![p].stage = Drafted(@)]
     \/ UNCHANGED leads
  /\ UNCHANGED <<posts, enabledSources, optimizer, weeks, runs, steady>>

\* The process ends and is started again: what it had claimed stays claimed.
Restart(w) ==
  /\ pullers[w] # IdlePull
  /\ pullers' = [pullers EXCEPT ![w] = IdlePull]
  /\ UNCHANGED <<posts, leads, enabledSources, optimizer, weeks, runs, steady>>

-----------------------------------------------------------------------------
(* Staff *)

\* update_sig_lead_stage and mark_sig_lead_sent: any stage, from any stage.
MoveLead(p, stage) ==
  /\ leads[p].stage # "none" /\ stage # leads[p].stage
  /\ leads' = [leads EXCEPT ![p].stage = stage, ![p].byStaff = stage,
                            ![p].ever = @ \/ stage \in Outcomes]
  /\ steady' = (steady /\ (leads[p].stage \in Outcomes => stage \in Outcomes))
  /\ UNCHANGED <<posts, enabledSources, pullers, optimizer, weeks, runs>>

save_sig_lead_draft(p) ==
  /\ leads[p].stage # "none"
  /\ LET stage == IF leads[p].stage \in {"new", "reviewing"} THEN "drafted" ELSE leads[p].stage
     IN leads' = [leads EXCEPT ![p].draft = "staff", ![p].stage = stage, ![p].byStaff = stage]
  /\ UNCHANGED <<posts, enabledSources, pullers, optimizer, weeks, runs, steady>>

upsert_sig_source(s) ==
  /\ enabledSources' = (enabledSources \ {s}) \cup ({s} \ enabledSources)
  /\ UNCHANGED <<posts, leads, pullers, optimizer, weeks, runs, steady>>

\* Seven days go by.
Week ==
  /\ weeks < MaxWeeks /\ weeks' = weeks + 1
  /\ posts' = [p \in Posts |-> [posts[p] EXCEPT !.recent = FALSE]]
  /\ UNCHANGED <<leads, enabledSources, pullers, optimizer, runs, steady>>

-----------------------------------------------------------------------------
(* The optimizer *)

Smaller(a, b) == IF a < b THEN a ELSE b

Judged(s) == {p \in Posts : /\ SourceOf[p] = s /\ posts[p].recent
                            /\ posts[p].status \in {"archived", "promoted"}}

\* A hundred times the yield of a source, times the posts it is the mean of.
Yield(s) ==
  LET Those(P(_)) == Cardinality({p \in Judged(s) : P(p)})
      n   == Cardinality(Judged(s))
      won == Those(LAMBDA p : leads[p].stage = "won")
  IN   40 * Those(LAMBDA p : posts[p].verdict.rel)
     + 30 * Those(LAMBDA p : posts[p].verdict.us)
     + 30 * Those(LAMBDA p : posts[p].verdict.needs)
     + Smaller(20 * n, 100 * Those(LAMBDA p : posts[p].status = "promoted"))
     + Smaller(25 * n, 100 * Those(LAMBDA p : leads[p].stage \in Outcomes) + 200 * won)

IsDead(s) ==
  LET n == Cardinality(Judged(s))
  IN n >= MinVolume /\ Yield(s) < 25 * n /\ \A p \in Judged(s) : leads[p].stage \notin Outcomes

\* The posts and the sources are read and the sources judged by them.
Analyse ==
  /\ optimizer.at = "idle" /\ runs < MaxRuns /\ runs' = runs + 1
  /\ optimizer' = [NoRun EXCEPT !.at = "scored",
                                !.dead = {s \in enabledSources : IsDead(s)},
                                !.known = {SourceOf[p] : p \in {q \in Posts : leads[q].ever}}]
  /\ UNCHANGED <<posts, leads, enabledSources, pullers, weeks, steady>>

\* The sources with a lead that has replied or was won, of whatever age; a read
\* that fails finds none.
fetchProvenSources ==
  /\ optimizer.at = "scored"
  /\ \/ /\ optimizer' = [optimizer EXCEPT !.at = "retiring",
             !.proven = {SourceOf[p] : p \in {q \in Posts : leads[q].stage \in Outcomes}}]
        /\ UNCHANGED steady
     \/ optimizer' = [optimizer EXCEPT !.at = "retiring"] /\ steady' = FALSE
  /\ UNCHANGED <<posts, leads, enabledSources, pullers, weeks, runs>>

\* Wrong: the week's posts alone protect a source.
RetirableByTheWeek == optimizer.dead

Retirable == optimizer.dead \ optimizer.proven

Retire ==
  /\ optimizer.at = "retiring"
  /\ \E retired \in SUBSET Retirable :  \* an update that fails leaves its source on
       /\ enabledSources' = enabledSources \ retired
       /\ optimizer' = [optimizer EXCEPT !.at = "idle", !.retired = retired]
  /\ UNCHANGED <<posts, leads, pullers, weeks, runs, steady>>

SignalsNext ==
  \/ \E p \in Posts : Poll(p) \/ save_sig_lead_draft(p) \/ \E stage \in Stages : MoveLead(p, stage)
  \/ \E w \in Pullers : \/ Claim(w) \/ Restart(w)
                        \/ \E p \in Posts : SetDraft(w, p) \/ \E v \in Verdicts : processItem(w, p, v)
  \/ \E s \in Sources : upsert_sig_source(s)
  \/ Week \/ Analyse \/ fetchProvenSources \/ Retire

SignalsSpec == SignalsInit /\ [][SignalsNext]_signalsVars

-----------------------------------------------------------------------------
(* Properties *)

\* A post is scored by one process and one only: no other has it in its batch or
\* drafts for its lead.
ScoredByOne == \A v, w \in Pullers :
  v # w => (pullers[v].batch \cup pullers[v].drafting)
             \cap (pullers[w].batch \cup pullers[w].drafting) = {}

\* A stage staff gave a lead stands, however late the worker's draft of it comes;
\* only a lead staff called new again is taken for a fresh one.
StaffStageStands == \A p \in Posts : leads[p].byStaff \in {"none", "new", leads[p].stage}

\* The processes of the worker keep out of each other's way and of that of staff.
WorkersStayApart == ScoredByOne /\ StaffStageStands

\* A draft of staff's stands too.  It does not: the worker writes over it.
StaffDraftStands ==
  [][\A p \in Posts : leads[p].draft = "staff" => leads'[p].draft = "staff"]_signalsVars

\* A source with a lead that had replied by the start of a run is not retired by
\* it, however long ago, as long as no read failed and no lead that had replied
\* was moved to another stage.
OutcomesShield == steady => optimizer.retired \cap optimizer.known = {}

\* The optimizer says so of every lead that has EVER replied.
EverProvenKept == optimizer.retired \cap optimizer.known = {}
=============================================================================
