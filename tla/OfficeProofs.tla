----------------------------- MODULE OfficeProofs -----------------------------
(***************************************************************************)
(* Documents, Penny's autonomy, memberships, payouts, the month end, the   *)
(* reports and the fixed assets, each by itself and then together, for any *)
(* number of documents, entries, users, clients and calls.  What the calls *)
(* have in common is that they decide by what they have read: the proof    *)
(* says for each what keeps that true until it writes, a lock or a row     *)
(* that only grows.                                                        *)
(***************************************************************************)
EXTENDS MCOffice, SumProofs, SequenceTheorems

-----------------------------------------------------------------------------
(* Documents: a send, a payment or a void computes from a row it read before; *)
(* the lock it took with the reading keeps that row as it was until the       *)
(* commit.                                                                    *)

Out     == {"sent", "partial", "paid", "void"}
Locking == {"send", "pay", "void"}

\* What a document that is not out, or is, has in the ledger.
Unposted(d) == docs[d].status \notin Out =>
  entries[d].accrual = "none" /\ docs[d].mailed = FALSE /\ docs[d].paid = 0
Posted(d)   == docs[d].status \in Out => entries[d].accrual # "none" /\ entries[d].amount > 0

\* Cash and payments are one number, and a void document has neither.
CashIsPaid(d) == entries[d].cash = docs[d].paid /\ (docs[d].status = "void" => docs[d].paid = 0)

\* A document nobody touched behind the protocol's back.
Sound(d) == d \notin touched =>
  /\ docs[d].status \in {"sent", "partial", "paid"} =>
       /\ entries[d].accrual \in {"posted", "pending_review"}
       /\ entries[d].amount = docs[d].total /\ docs[d].paid <= docs[d].total
  /\ docs[d].status = "paid" => docs[d].paid = docs[d].total
  /\ docs[d].status = "void" => entries[d].accrual = "reversed"

DocInv == \A d \in Docs : Unposted(d) /\ Posted(d) /\ CashIsPaid(d) /\ Sound(d)

\* A call that locked a row sees it as it is; only its e-mail may have gone out.
Holds(c) == rpcs[c].op \in Locking =>
  /\ rpcs[c].doc \in Docs /\ locks[rpcs[c].doc] = c
  /\ docs[rpcs[c].doc].status # "absent"
  /\ rpcs[c].seen.status = docs[rpcs[c].doc].status
  /\ rpcs[c].seen.total = docs[rpcs[c].doc].total
  /\ rpcs[c].seen.paid = docs[rpcs[c].doc].paid

\* The document of an edit exists, and that of a mail is out.
Edits(c) == rpcs[c].op = "edit" => rpcs[c].doc \in Docs /\ docs[rpcs[c].doc].status # "absent"
Mails(c) == rpcs[c].op = "mail" => rpcs[c].doc \in Invoices /\ docs[rpcs[c].doc].status \in Out

CallInv == \A c \in Calls : Holds(c) /\ Edits(c) /\ Mails(c)

DocumentsInv == DocumentsTypeOK /\ DocInv /\ CallInv

-----------------------------------------------------------------------------

LEMMA DocumentsInitially ==
  ASSUME DocumentsAssumption, DocumentsInit PROVE DocumentsInv
<1>1. DocumentsTypeOK
  BY DEF DocumentsAssumption, DocumentsInit, DocumentsTypeOK, Blank, Idle, Doc, Totals, NoCall, Docs
<1>2. DocInv
  BY DEF DocumentsInit, DocInv, Unposted, Posted, CashIsPaid, Sound, Out, Blank
<1>3. CallInv
  BY DEF DocumentsInit, CallInv, Holds, Edits, Mails, Locking, Idle
<1> QED
  BY <1>1, <1>2, <1>3 DEF DocumentsInv

\* The invariant says what the property does.
LEMMA InvTies == ASSUME DocumentsAssumption, DocumentsInv PROVE DocumentsTie
<1>1. ControlTies
  BY DEF DocumentsInv, DocInv, Unposted, CashIsPaid, Sound, Out, ControlTies, InLedger, Open,
         DocumentsTypeOK, Doc, Totals, DocumentsAssumption
<1>2. NeverOverpaid
  BY DEF DocumentsInv, DocInv, Unposted, CashIsPaid, Sound, Out, NeverOverpaid,
         DocumentsTypeOK, Doc, Totals, DocumentsAssumption
<1>3. MailedIsPosted
  <2> SUFFICES ASSUME NEW d \in Invoices, docs[d].mailed
               PROVE  entries[d].accrual # "none" /\ entries[d].amount > 0
    BY DEF MailedIsPosted
  <2>1. d \in Docs /\ docs[d].mailed # FALSE
    BY DEF Docs
  <2> QED
    BY <2>1 DEF DocumentsInv, DocInv, Unposted, Posted
<1> QED
  BY <1>1, <1>2, <1>3 DEF DocumentsTie
-----------------------------------------------------------------------------
(* Steps that write no document a call has locked *)

LEMMA IdleIsTyped ==
  ASSUME DocumentsAssumption
  PROVE  Idle \in [op : {"none", "edit", "send", "pay", "void", "mail"}, doc : Docs \cup {NoDoc}, seen : Doc]
  BY DEF Idle, Blank, Doc, Totals, DocumentsAssumption

LEMMA MailedIsDoc == ASSUME NEW x \in Doc PROVE [x EXCEPT !.mailed = TRUE] \in Doc
  BY DEF Doc

LEMMA CreateKeeps ==
  ASSUME DocumentsAssumption, DocumentsInv, NEW d \in Docs, Create(d)
  PROVE  DocumentsInv'
<1>1. PICK t \in Totals :
        docs' = [docs EXCEPT ![d] = [status |-> "draft", total |-> t, paid |-> 0, mailed |-> FALSE]]
  BY DEF Create
<1>2. docs[d].status = "absent" /\ docs[d].mailed = FALSE /\ docs[d].paid = 0
  BY DEF Create, DocumentsInv, DocInv, Unposted, Out
<1>3. docs \in [Docs -> Doc] /\ docs' \in [Docs -> Doc]
  BY <1>1 DEF DocumentsInv, DocumentsTypeOK, Doc, Totals, DocumentsAssumption
<1>4. \A e \in Docs : /\ docs'[e].paid = docs[e].paid /\ docs'[e].mailed = docs[e].mailed
                      /\ docs[e].status \in Out <=> docs'[e].status \in Out
                      /\ docs[e].status \in Out => docs'[e] = docs[e]
  BY <1>1, <1>2, <1>3 DEF Out
<1>5. DocumentsTypeOK'
  BY <1>3 DEF Create, DocumentsInv, DocumentsTypeOK
<1>6. DocInv'
  <2>1. entries' = entries /\ touched' = touched
    BY DEF Create
  <2> QED
    BY <1>4, <2>1 DEF DocumentsInv, DocInv, Unposted, Posted, CashIsPaid, Sound, Out
<1>7. CallInv'
  <2>1. locks' = locks /\ rpcs' = rpcs
    BY DEF Create
  <2>2. \A e \in Docs : docs[e].status # "absent" => docs'[e] = docs[e]
    BY <1>1, <1>2, <1>3
  <2> QED
    BY <2>1, <2>2 DEF DocumentsInv, CallInv, Holds, Edits, Mails, Out, Docs
<1> QED
  BY <1>5, <1>6, <1>7 DEF DocumentsInv

LEMMA ApproveKeeps ==
  ASSUME DocumentsInv, NEW d \in Docs, Approve(d)
  PROVE  DocumentsInv'
<1>1. DocumentsTypeOK'
  BY DEF Approve, DocumentsInv, DocumentsTypeOK
<1>2. DocInv'
  BY DEF Approve, DocumentsInv, DocInv, DocumentsTypeOK, Unposted, Posted, CashIsPaid, Sound, Out
<1>3. CallInv'
  BY DEF Approve, DocumentsInv, CallInv, Holds, Edits, Mails
<1> QED
  BY <1>1, <1>2, <1>3 DEF DocumentsInv

LEMMA ReverseAccrualKeeps ==
  ASSUME DocumentsInv, NEW d \in Docs, ReverseAccrual(d)
  PROVE  DocumentsInv'
<1>1. DocumentsTypeOK'
  BY DEF ReverseAccrual, DocumentsInv, DocumentsTypeOK
<1>2. DocInv'
  BY DEF ReverseAccrual, DocumentsInv, DocInv, DocumentsTypeOK, Unposted, Posted, CashIsPaid,
         Sound, Out
<1>3. CallInv'
  BY DEF ReverseAccrual, DocumentsInv, CallInv, Holds, Edits, Mails
<1> QED
  BY <1>1, <1>2, <1>3 DEF DocumentsInv

LEMMA BeginEditKeeps ==
  ASSUME DocumentsInv, NEW c \in Calls, NEW d \in Docs, BeginEdit(c, d)
  PROVE  DocumentsInv'
<1>1. DocumentsTypeOK'
  BY DEF BeginEdit, DocumentsInv, DocumentsTypeOK, Doc
<1>2. DocInv'
  BY DEF BeginEdit, DocumentsInv, DocInv, Unposted, Posted, CashIsPaid, Sound
<1>3. CallInv'
  BY DEF BeginEdit, DocumentsInv, DocumentsTypeOK, CallInv, Holds, Edits, Mails, Locking
<1> QED
  BY <1>1, <1>2, <1>3 DEF DocumentsInv

\* An update without a lock: it lands on a draft, or it is what touches the document.
LEMMA EndEditKeeps ==
  ASSUME DocumentsAssumption, DocumentsInv, NEW c \in Calls, EndEdit(c)
  PROVE  DocumentsInv'
<1> DEFINE d == rpcs[c].doc
<1>1. d \in Docs /\ docs[d].status # "absent" /\ locks[d] = NoCall
  BY DEF EndEdit, DocumentsInv, CallInv, Edits
<1>2. PICK t \in Totals : docs' = [docs EXCEPT ![d].total = t]
  BY DEF EndEdit
<1>3. DocumentsTypeOK'
  <2>1. docs' \in [Docs -> Doc]
    BY <1>1, <1>2 DEF DocumentsInv, DocumentsTypeOK, Doc
  <2>2. rpcs' = [rpcs EXCEPT ![c] = Idle] /\ touched' \in SUBSET Docs /\ UNCHANGED <<entries, locks>>
    BY <1>1 DEF EndEdit, DocumentsInv, DocumentsTypeOK
  <2>3. Idle \in [op : {"none", "edit", "send", "pay", "void", "mail"},
                  doc : Docs \cup {NoDoc}, seen : Doc]
    BY DEF Idle, Blank, Doc, Totals, DocumentsAssumption
  <2> QED
    BY <2>1, <2>2, <2>3 DEF DocumentsInv, DocumentsTypeOK
<1>4. DocInv'
  BY <1>1, <1>2 DEF EndEdit, DocumentsInv, DocInv, DocumentsTypeOK, Doc, Unposted, Posted,
                    CashIsPaid, Sound, Out
<1>5. \A b \in Calls : rpcs[b].op \in Locking => rpcs[b].doc # d
  BY <1>1 DEF DocumentsInv, CallInv, Holds, DocumentsAssumption, NoCall
<1>6. CallInv'
  BY <1>1, <1>2, <1>5 DEF EndEdit, DocumentsInv, DocumentsTypeOK, Doc, CallInv, Holds, Edits, Mails,
                          Locking, Idle, Out
<1> QED
  BY <1>3, <1>4, <1>6 DEF DocumentsInv

LEMMA SelectKeeps ==
  ASSUME DocumentsAssumption, DocumentsInv, NEW c \in Calls, NEW d \in Docs, SelectForUpdate(c, d)
  PROVE  DocumentsInv'
<1>1. PICK op \in Locking :
        rpcs' = [rpcs EXCEPT ![c] = [op |-> op, doc |-> d, seen |-> docs[d]]]
  BY DEF SelectForUpdate, Locking
<1>2. DocumentsTypeOK'
  BY <1>1 DEF SelectForUpdate, DocumentsInv, DocumentsTypeOK, Locking
<1>3. DocInv'
  BY DEF SelectForUpdate, DocumentsInv, DocInv, Unposted, Posted, CashIsPaid, Sound
<1>4. \A b \in Calls : rpcs[b].op \in Locking => rpcs[b].doc # d
  BY DEF SelectForUpdate, DocumentsInv, CallInv, Holds, DocumentsAssumption, NoCall
<1>5. CallInv'
  BY <1>1, <1>4 DEF SelectForUpdate, DocumentsInv, DocumentsTypeOK, CallInv, Holds, Edits, Mails,
                    Locking
<1> QED
  BY <1>2, <1>3, <1>5 DEF DocumentsInv

LEMMA RollBackKeeps ==
  ASSUME DocumentsAssumption, DocumentsInv, NEW c \in Calls, RollBack(c)
  PROVE  DocumentsInv'
<1>1. rpcs[c].doc \in Docs
  BY DEF RollBack, DocumentsInv, CallInv, Holds, Edits, Locking
<1>2. DocumentsTypeOK'
  BY <1>1 DEF RollBack, DocumentsInv, DocumentsTypeOK, Doc, Idle, Blank, Totals, NoCall,
              DocumentsAssumption
<1>3. DocInv'
  BY DEF RollBack, DocumentsInv, DocInv, Unposted, Posted, CashIsPaid, Sound
<1>4. \A b \in Calls : b # c => rpcs'[b] = rpcs[b] /\ (rpcs[b].op \in Locking => locks'[rpcs[b].doc] = locks[rpcs[b].doc])
  BY <1>1 DEF RollBack, DocumentsInv, DocumentsTypeOK, CallInv, Holds
<1>5. rpcs'[c] = Idle
  BY DEF RollBack, DocumentsInv, DocumentsTypeOK
<1>6. CallInv'
  BY <1>4, <1>5 DEF RollBack, DocumentsInv, CallInv, Holds, Edits, Mails, Locking, Idle
<1> QED
  BY <1>2, <1>3, <1>6 DEF DocumentsInv

LEMMA MailKeeps ==
  ASSUME DocumentsAssumption, DocumentsInv, NEW c \in Calls, Mail(c)
  PROVE  DocumentsInv'
<1> DEFINE d == rpcs[c].doc
<1>1. d \in Docs /\ docs[d].status \in Out
  BY DEF Mail, DocumentsInv, CallInv, Mails, Docs
<1>2. rpcs' = [rpcs EXCEPT ![c] = Idle] /\ entries' = entries /\ locks' = locks /\ touched' = touched
  BY DEF Mail
<1>3. docs' = docs \/ docs' = [docs EXCEPT ![d].mailed = TRUE]
  BY DEF Mail
<1>4. DocumentsTypeOK'
  <2>1. docs' \in [Docs -> Doc]
    BY <1>1, <1>3, MailedIsDoc DEF DocumentsInv, DocumentsTypeOK
  <2> QED
    BY <1>2, <2>1, IdleIsTyped DEF DocumentsInv, DocumentsTypeOK
<1>5. \A e \in Docs : /\ docs'[e].status = docs[e].status /\ docs'[e].total = docs[e].total
                      /\ docs'[e].paid = docs[e].paid
                      /\ docs[e].status \notin Out => docs'[e] = docs[e]
  BY <1>1, <1>3 DEF DocumentsInv, DocumentsTypeOK, Doc
<1>6. DocInv'
  BY <1>2, <1>5 DEF DocumentsInv, DocInv, Unposted, Posted, CashIsPaid, Sound
<1>7. CallInv'
  BY <1>2, <1>5 DEF DocumentsInv, DocumentsTypeOK, CallInv, Holds, Edits, Mails, Locking, Idle, Docs
<1> QED
  BY <1>4, <1>6, <1>7 DEF DocumentsInv
-----------------------------------------------------------------------------
(* Commits *)

\* What a call that holds the lock of its document writes when it commits: the
\* document and the entry it hands to Commit have to be sound by themselves.
LEMMA CommitKeeps ==
  ASSUME DocumentsAssumption, DocumentsInv, NEW c \in Calls, rpcs[c].op \in Locking,
         NEW doc \in Doc,
         NEW entry \in [accrual : {"none", "pending_review", "posted", "reversed"},
                        amount : Totals, cash : Nat],
         Commit(c, doc, entry),
         doc.mailed = docs[rpcs[c].doc].mailed,
         doc.status \in Out, entry.accrual # "none", entry.amount > 0,
         entry.cash = doc.paid, doc.status = "void" => doc.paid = 0,
         rpcs[c].doc \notin touched =>
           /\ doc.status \in {"sent", "partial", "paid"} =>
                /\ entry.accrual \in {"posted", "pending_review"}
                /\ entry.amount = doc.total /\ doc.paid <= doc.total
           /\ doc.status = "paid" => doc.paid = doc.total
           /\ doc.status = "void" => entry.accrual = "reversed"
  PROVE  DocumentsInv'
<1>0. PICK d : d = rpcs[c].doc
  OBVIOUS
<1>1. d \in Docs /\ locks[d] = c
  BY <1>0 DEF DocumentsInv, CallInv, Holds
<1>2. /\ docs' = [docs EXCEPT ![d] = doc] /\ entries' = [entries EXCEPT ![d] = entry]
      /\ locks' = [locks EXCEPT ![d] = NoCall] /\ touched' = touched
  BY <1>0 DEF Commit
<1>3. PICK mine \in {Idle, [Idle EXCEPT !.op = "mail", !.doc = d]} :
        /\ rpcs' = [rpcs EXCEPT ![c] = mine]
        /\ mine # Idle => d \in Invoices
  BY <1>0 DEF Commit
<1>4. mine \in [op : {"none", "edit", "send", "pay", "void", "mail"}, doc : Docs \cup {NoDoc}, seen : Doc]
  BY <1>1, IdleIsTyped DEF Idle
<1>5. DocumentsTypeOK'
  BY <1>1, <1>2, <1>3, <1>4 DEF DocumentsInv, DocumentsTypeOK, NoCall
<1>6. DocInv'
  <2>1. docs'[d] = doc /\ entries'[d] = entry
    BY <1>1, <1>2 DEF DocumentsInv, DocumentsTypeOK
  <2>2. \A e \in Docs \ {d} : docs'[e] = docs[e] /\ entries'[e] = entries[e]
    BY <1>2 DEF DocumentsInv, DocumentsTypeOK
  <2>3. \A e \in Docs \ {d} : (Unposted(e) /\ Posted(e) /\ CashIsPaid(e) /\ Sound(e))'
    BY <1>2, <2>2 DEF DocumentsInv, DocInv, Unposted, Posted, CashIsPaid, Sound
  <2>4. (Unposted(d) /\ Posted(d) /\ CashIsPaid(d) /\ Sound(d))'
    BY <1>0, <1>2, <2>1 DEF Unposted, Posted, CashIsPaid, Sound
  <2> QED
    BY <2>3, <2>4 DEF DocInv
<1>7. CallInv'
  <2>1. \A b \in Calls \ {c} : rpcs'[b] = rpcs[b] /\ (rpcs[b].op \in Locking => rpcs[b].doc # d)
    BY <1>0, <1>1, <1>3 DEF DocumentsInv, DocumentsTypeOK, CallInv, Holds
  <2>2. rpcs'[c] = mine /\ docs'[d].status \in Out
    BY <1>1, <1>2, <1>3 DEF DocumentsInv, DocumentsTypeOK
  <2>3. \A e \in Docs \ {d} : docs'[e] = docs[e] /\ locks'[e] = locks[e]
    BY <1>2 DEF DocumentsInv, DocumentsTypeOK
  <2>4. \A b \in Calls \ {c} : (Holds(b) /\ Edits(b) /\ Mails(b))'
    BY <2>1, <2>2, <2>3 DEF DocumentsInv, CallInv, Holds, Edits, Mails, Out, Docs, Locking
  <2>5. (Holds(c) /\ Edits(c) /\ Mails(c))'
    <3>1. mine.op = "none" \/ (mine.op = "mail" /\ mine.doc = d /\ d \in Invoices)
      <4>1. CASE mine = Idle
        BY <4>1 DEF Idle
      <4>2. CASE mine # Idle
        <5>1. mine = [Idle EXCEPT !.op = "mail", !.doc = d] /\ d \in Invoices
          BY <1>3, <4>2
        <5>2. mine.op = "mail" /\ mine.doc = d
          BY <5>1 DEF Idle
        <5> QED
          BY <5>1, <5>2
      <4> QED
        BY <4>1, <4>2
    <3> QED
      BY <2>2, <3>1 DEF Holds, Edits, Mails, Locking
  <2> QED
    BY <2>4, <2>5 DEF CallInv
<1> QED
  BY <1>5, <1>6, <1>7 DEF DocumentsInv
\* The document of a call that holds a lock, its entry, and the row as it was read.
LEMMA ReadFacts ==
  ASSUME DocumentsAssumption, DocumentsInv, NEW c \in Calls, rpcs[c].op \in Locking
  PROVE  LET d == rpcs[c].doc
         IN  /\ d \in Docs /\ docs[d] \in Doc
             /\ entries[d] \in [accrual : {"none", "pending_review", "posted", "reversed"},
                                amount : Totals, cash : Nat]
             /\ rpcs[c].seen.status = docs[d].status /\ docs[d].status # "absent"
             /\ rpcs[c].seen.total = docs[d].total /\ rpcs[c].seen.paid = docs[d].paid
             /\ Unposted(d) /\ Posted(d) /\ CashIsPaid(d) /\ Sound(d)
  BY DEF DocumentsInv, DocumentsTypeOK, DocInv, CallInv, Holds

LEMMA SendKeeps ==
  ASSUME DocumentsAssumption, DocumentsInv, NEW c \in Calls, Send(c)
  PROVE  DocumentsInv'
<1> DEFINE d == rpcs[c].doc
           v == rpcs[c].seen
<1>1. rpcs[c].op \in Locking
  BY DEF Send, Locking
<1>2. CASE v.status = "draft" /\ v.total > 0
  <2>1. PICK s \in {"posted", "pending_review"} :
          Commit(c, [docs[d] EXCEPT !.status = "sent"], [entries[d] EXCEPT !.accrual = s, !.amount = v.total])
    BY <1>2 DEF Send
  <2> DEFINE doc   == [docs[d] EXCEPT !.status = "sent"]
             entry == [entries[d] EXCEPT !.accrual = s, !.amount = v.total]
  <2>2. docs[d].status = "draft" /\ docs[d].total > 0 /\ docs[d].paid = 0 /\ entries[d].cash = 0
    BY <1>1, <1>2, ReadFacts DEF Unposted, CashIsPaid, Out
  <2>3. /\ doc \in Doc /\ doc.status = "sent" /\ doc.total = docs[d].total /\ doc.paid = 0
        /\ doc.mailed = docs[d].mailed
    BY <1>1, <2>2, ReadFacts DEF Doc
  <2>4. /\ entry \in [accrual : {"none", "pending_review", "posted", "reversed"},
                       amount : Totals, cash : Nat]
        /\ entry.accrual = s /\ entry.amount = docs[d].total /\ entry.cash = 0
    BY <1>1, <2>2, ReadFacts DEF Doc
  <2>5. docs[d].total \in Nat
    BY <1>1, ReadFacts DEF Doc, Totals, DocumentsAssumption
  <2>6. Commit(c, doc, entry)
    BY <2>1
  <2> HIDE DEF doc, entry
  <2> QED
    BY <1>1, <2>2, <2>3, <2>4, <2>5, <2>6, CommitKeeps DEF Out
<1>3. CASE v.status \notin {"draft", "void"} /\ Commit(c, docs[d], entries[d])
  <2>1. docs[d].status \in Out
    BY <1>1, <1>3, ReadFacts DEF Doc, Out
  <2> QED
    BY <1>1, <1>3, <2>1, ReadFacts, CommitKeeps DEF Posted, CashIsPaid, Sound
<1> QED
  BY <1>2, <1>3 DEF Send

\* A payment is checked against the row it locked, so it never exceeds what is open.
LEMMA PayKeeps ==
  ASSUME DocumentsAssumption, DocumentsInv, NEW c \in Calls, Pay(c)
  PROVE  DocumentsInv'
<1> DEFINE d == rpcs[c].doc
           v == rpcs[c].seen
<1>1. rpcs[c].op \in Locking
  BY DEF Pay, Locking
<1>2. PICK a \in 1..MaxTotal :
        /\ a <= v.total - v.paid
        /\ Commit(c, [docs[d] EXCEPT !.paid = v.paid + a,
                                     !.status = IF v.paid + a >= v.total THEN "paid" ELSE "partial"],
                  [entries[d] EXCEPT !.cash = @ + a])
  BY DEF Pay
<1> DEFINE status == IF v.paid + a >= v.total THEN "paid" ELSE "partial"
           doc    == [docs[d] EXCEPT !.paid = v.paid + a, !.status = status]
           entry  == [entries[d] EXCEPT !.cash = @ + a]
<1>3. /\ v.total = docs[d].total /\ v.paid = docs[d].paid /\ entries[d].cash = docs[d].paid
      /\ docs[d].status \in {"sent", "partial"} /\ d \in Docs
  BY <1>1, ReadFacts DEF Pay, CashIsPaid
<1>4. docs[d].total \in Totals /\ docs[d].paid \in Totals /\ a \in Nat /\ a > 0 /\ MaxTotal \in Nat
  BY <1>1, ReadFacts DEF Doc, Totals, DocumentsAssumption
<1>5. v.paid + a \in Totals /\ v.paid + a <= v.total /\ (status = "paid" => v.paid + a = v.total)
  BY SMTT(30), <1>2, <1>3, <1>4 DEF Totals
<1>6. /\ doc \in Doc /\ doc.status = status /\ doc.total = v.total /\ doc.paid = v.paid + a
      /\ doc.mailed = docs[d].mailed
  BY ZenonT(40), <1>1, <1>3, <1>5, ReadFacts DEF Doc
<1>7. /\ entry \in [accrual : {"none", "pending_review", "posted", "reversed"},
                     amount : Totals, cash : Nat]
      /\ entry.accrual = entries[d].accrual /\ entry.amount = entries[d].amount
      /\ entry.cash = v.paid + a
  <2>1. entries[d] \in [accrual : {"none", "pending_review", "posted", "reversed"},
                        amount : Totals, cash : Nat]
    BY <1>1, ReadFacts
  <2>2. entries[d].cash = v.paid /\ v.paid + a \in Nat
    BY <1>3, <1>4 DEF Totals
  <2>3. entry = [entries[d] EXCEPT !.cash = v.paid + a]
    BY <2>1, <2>2
  <2> QED
    BY <2>1, <2>2, <2>3
<1>8. /\ entries[d].accrual # "none" /\ entries[d].amount > 0
      /\ d \notin touched => entries[d].accrual \in {"posted", "pending_review"} /\ entries[d].amount = v.total
  BY <1>1, <1>3, ReadFacts DEF Posted, Sound, Out
<1>9. status \in {"paid", "partial"} /\ Commit(c, doc, entry)
  BY <1>2
<1> HIDE DEF status, doc, entry
<1> QED
  BY <1>1, <1>5, <1>6, <1>7, <1>8, <1>9, CommitKeeps DEF Out

LEMMA VoidKeeps ==
  ASSUME DocumentsAssumption, DocumentsInv, NEW c \in Calls, Void(c)
  PROVE  DocumentsInv'
<1> DEFINE d     == rpcs[c].doc
           doc   == [docs[d] EXCEPT !.status = "void"]
           entry == [entries[d] EXCEPT !.accrual = "reversed"]
<1>1. rpcs[c].op \in Locking /\ Commit(c, doc, entry)
  BY DEF Void, Locking
<1>2. docs[d].paid = 0 /\ entries[d].cash = 0 /\ docs[d].status \in Out
  BY <1>1, ReadFacts DEF Void, CashIsPaid, Doc, Out
<1>3. /\ doc \in Doc /\ doc.status = "void" /\ doc.paid = 0 /\ doc.mailed = docs[d].mailed
  BY <1>1, <1>2, ReadFacts DEF Doc
<1>4. /\ entry \in [accrual : {"none", "pending_review", "posted", "reversed"},
                     amount : Totals, cash : Nat]
      /\ entry.accrual = "reversed" /\ entry.amount = entries[d].amount /\ entry.cash = 0
  BY <1>1, <1>2, ReadFacts
<1>5. entries[d].amount > 0
  BY <1>1, <1>2, ReadFacts DEF Posted
<1> HIDE DEF doc, entry
<1> QED
  BY <1>1, <1>3, <1>4, <1>5, CommitKeeps DEF Out

-----------------------------------------------------------------------------

LEMMA DocumentsStep ==
  ASSUME DocumentsAssumption, DocumentsInv, [DocumentsNext]_documentsVars
  PROVE  DocumentsInv'
<1>1. CASE UNCHANGED documentsVars
  BY <1>1 DEF documentsVars, DocumentsInv, DocumentsTypeOK, DocInv, CallInv, Unposted, Posted,
              CashIsPaid, Sound, Holds, Edits, Mails
<1>2. CASE \E d \in Docs : Create(d) \/ Approve(d) \/ ReverseAccrual(d)
  BY <1>2, CreateKeeps, ApproveKeeps, ReverseAccrualKeeps
<1>3. CASE \E c \in Calls, d \in Docs : BeginEdit(c, d) \/ SelectForUpdate(c, d)
  BY <1>3, BeginEditKeeps, SelectKeeps
<1>4. CASE \E c \in Calls : EndEdit(c) \/ Send(c) \/ Pay(c) \/ Void(c) \/ RollBack(c) \/ Mail(c)
  BY <1>4, EndEditKeeps, SendKeeps, PayKeeps, VoidKeeps, RollBackKeeps, MailKeeps
<1> QED
  BY <1>1, <1>2, <1>3, <1>4 DEF DocumentsNext

\* For any invoices, bills and calls: whatever sends, payments, voids, edits and
\* failures overlap, control account, aging and mail agree on every document
\* that was not changed behind the back of the RPCs.
THEOREM DocumentsAlwaysTie ==
  ASSUME DocumentsAssumption PROVE DocumentsSpec => []DocumentsTie
<1>1. DocumentsInit => DocumentsInv
  BY DocumentsInitially
<1>2. DocumentsInv /\ [DocumentsNext]_documentsVars => DocumentsInv'
  BY DocumentsStep
<1>3. DocumentsInv => DocumentsTie
  BY InvTies
<1> QED
  BY <1>1, <1>2, <1>3, PTL DEF DocumentsSpec

-----------------------------------------------------------------------------
(* Penny's autonomy: what is filed *)

\* An original that is on the holding account has no copy; of those it has had, one
\* counts; when none does, an undo took it away.
Filing(e) ==
  /\ original[e] = "posted" => \A k \in Keys : reposts[e][k] = "absent"
  /\ \A j, k \in Keys : reposts[e][j] = "posted" /\ reposts[e][k] = "posted" => j = k
  /\ original[e] = "reversed" =>
       \/ \E k \in Keys : reposts[e][k] = "posted"
       \/ \E a \in Accounts : feed[e][a].undone

\* What Penny is about to file has an account to go to.
Proposed(t) == triages[t].stage = "high" => triages[t].account \in Accounts

FilingInv ==
  /\ AutonomyTypeOK /\ FeedFaithful
  /\ \A e \in Entries : Filing(e)
  /\ \A t \in Triages : Proposed(t)

(* and what is asked: the lock of the organisation keeps the count true. *)

Counts(t) == triages[t].stage = "counting" =>
  askLock = t /\ triages[t].spent = AsksSince(triages[t].since)

AskInv == (\A t \in Triages : Counts(t)) /\ AsksWithinBudget

AutonomyInv == FilingInv /\ AskInv

\* The row a triage answers with, as the type of triages has it.
LEMMA NoTriageTyped ==
  ASSUME AutonomyAssumption
  PROVE  NoTriage \in [stage : {"idle", "high", "low", "counting"}, entry : Entries,
                       account : Accounts \cup {NoAccount}, since : 1..Weeks, spent : Nat]
<1>1. (CHOOSE e \in Entries : TRUE) \in Entries
  BY DEF AutonomyAssumption
<1>2. 1 \in 1..Weeks
  BY DEF AutonomyAssumption
<1> QED
  BY <1>1, <1>2 DEF NoTriage

\* The replay of a repost changes nothing; a new one takes the original off the
\* holding account and is the only copy there is.
LEMMA RefileFacts ==
  ASSUME AutonomyTypeOK, NEW e \in Entries, NEW k \in Keys, Refile(e, k)
  PROVE  /\ original' \in [Entries -> {"posted", "reversed"}]
         /\ reposts' \in [Entries -> [Keys -> {"absent", "posted", "reversed"}]]
         /\ \A f \in Entries, j \in Keys :
              (reposts'[f][j] # "absent") <=> (reposts[f][j] # "absent" \/ (f = e /\ j = k))
<1>1. CASE Refiles(e, k)
  <2>1. /\ original' = [original EXCEPT ![e] = "reversed"]
        /\ reposts' = [reposts EXCEPT ![e][k] = "posted"]
        /\ reposts[e][k] = "absent"
    BY <1>1 DEF Refile, Refiles
  <2>2. reposts' \in [Entries -> [Keys -> {"absent", "posted", "reversed"}]]
    BY <2>1 DEF AutonomyTypeOK
  <2>3. \A f \in Entries, j \in Keys :
          reposts'[f][j] = IF f = e /\ j = k THEN "posted" ELSE reposts[f][j]
    BY <2>1 DEF AutonomyTypeOK
  <2> QED
    BY <2>1, <2>2, <2>3 DEF AutonomyTypeOK
<1>2. CASE ~Refiles(e, k)
  BY <1>2 DEF AutonomyTypeOK, Refile
<1> QED
  BY <1>1, <1>2

LEMMA RefileFiles ==
  ASSUME AutonomyTypeOK, NEW e \in Entries, NEW k \in Keys, Refile(e, k),
         \A f \in Entries : Filing(f),
         NEW f \in Entries
  PROVE  /\ original'[f] = "posted" => \A j \in Keys : reposts'[f][j] = "absent"
         /\ \A i, j \in Keys : reposts'[f][i] = "posted" /\ reposts'[f][j] = "posted" => i = j
         /\ original'[f] = "reversed" =>
              \/ \E j \in Keys : reposts'[f][j] = "posted"
              \/ \E a \in Accounts : feed[f][a].undone
<1>1. CASE Refiles(e, k) /\ f = e
  <2>1. original'[f] = "reversed"
    BY <1>1 DEF Refile, AutonomyTypeOK
  <2>2. \A j \in Keys : reposts'[f][j] = IF j = k THEN "posted" ELSE "absent"
    BY <1>1 DEF Refile, Refiles, AutonomyTypeOK, Filing
  <2> QED
    BY <2>1, <2>2
<1>2. CASE Refiles(e, k) /\ f # e
  <2>1. original'[f] = original[f] /\ reposts'[f] = reposts[f]
    BY <1>2 DEF Refile, AutonomyTypeOK
  <2> QED
    BY <2>1 DEF Filing
<1>3. CASE ~Refiles(e, k)
  BY <1>3 DEF Refile, Filing
<1> QED
  BY <1>1, <1>2, <1>3

\* The invariant of the filing, from that of the original, its copies and the
\* feed, when nothing but the triages has changed besides.
LEMMA FilingUnchanged ==
  ASSUME FilingInv, UNCHANGED <<original, reposts, feed>>, AutonomyTypeOK',
         \A t \in Triages : Proposed(t)'
  PROVE  FilingInv'
BY DEF FilingInv, FeedFaithful, Filing

LEMMA TriageKeepsTypes ==
  ASSUME AutonomyAssumption, AutonomyTypeOK, NEW t \in Triages,
         NEW r \in [stage : {"idle", "high", "low", "counting"}, entry : Entries,
                    account : Accounts \cup {NoAccount}, since : 1..Weeks, spent : Nat],
         triages' = [triages EXCEPT ![t] = r]
  PROVE  triages' \in [Triages -> [stage : {"idle", "high", "low", "counting"}, entry : Entries,
                         account : Accounts \cup {NoAccount}, since : 1..Weeks, spent : Nat]]
BY DEF AutonomyTypeOK

LEMMA TriageFiles ==
  ASSUME AutonomyAssumption, FilingInv, NEW t \in Triages, NEW e \in Entries,
         Triage(t, e) \/ TriageUnknown(t, e)
  PROVE  /\ FilingInv' 
         /\ triages'[t].stage # "counting"
         /\ \A u \in Triages : u # t => triages'[u] = triages[u]
<1> USE DEF FilingInv
<1>0. NoTriage.stage = "idle" /\ week \in 1..Weeks
  BY DEF NoTriage, AutonomyTypeOK
<1>1. PICK r \in [stage : {"idle", "high", "low"}, entry : Entries,
             account : Accounts \cup {NoAccount}, since : 1..Weeks, spent : Nat] :
        triages' = [triages EXCEPT ![t] = r] /\ (r.stage = "high" => r.account \in Accounts)
  <2>1. CASE Triage(t, e)
    <3>1. PICK a \in Accounts, s \in Sources, c \in Confidences :
            triages' = [triages EXCEPT ![t] =
              IF tierFor(c, s) = "high" \/ (tierFor(c, s) = "low" /\ a \notin Income)
              THEN [NoTriage EXCEPT !.stage = tierFor(c, s), !.entry = e, !.account = a, !.since = week]
              ELSE NoTriage]
      BY <2>1 DEF Triage
    <3>2. tierFor(c, s) \in {"high", "medium", "low"}
      BY DEF tierFor
    <3> DEFINE new == [NoTriage EXCEPT !.stage = tierFor(c, s), !.entry = e,
                                       !.account = a, !.since = week]
               r   == IF tierFor(c, s) = "high" \/ (tierFor(c, s) = "low" /\ a \notin Income)
                      THEN new ELSE NoTriage
    <3>3. tierFor(c, s) \in {"high", "low"} =>
            /\ new \in [stage : {"idle", "high", "low"}, entry : Entries,
                        account : Accounts \cup {NoAccount}, since : 1..Weeks, spent : Nat]
            /\ new.account = a
      BY <3>2, <1>0, NoTriageTyped
    <3>4. NoTriage \in [stage : {"idle", "high", "low"}, entry : Entries,
                       account : Accounts \cup {NoAccount}, since : 1..Weeks, spent : Nat]
      BY <1>0, NoTriageTyped
    <3> HIDE DEF new
    <3>5. /\ r \in [stage : {"idle", "high", "low"}, entry : Entries,
                    account : Accounts \cup {NoAccount}, since : 1..Weeks, spent : Nat]
          /\ r.stage = "high" => r.account \in Accounts
      BY <3>2, <3>3, <3>4, <1>0
    <3>6. triages' = [triages EXCEPT ![t] = r]
      BY <3>1 DEF new
    <3> HIDE DEF r
    <3> QED
      BY <3>5, <3>6
  <2>2. CASE TriageUnknown(t, e)
    <3>1. triages' = [triages EXCEPT ![t] =
            [NoTriage EXCEPT !.stage = "low", !.entry = e, !.since = week]]
      BY <2>2 DEF TriageUnknown
    <3> DEFINE r == [NoTriage EXCEPT !.stage = "low", !.entry = e, !.since = week]
    <3>2. /\ r \in [stage : {"idle", "high", "low"}, entry : Entries,
                    account : Accounts \cup {NoAccount}, since : 1..Weeks, spent : Nat]
          /\ r.stage = "low"
      BY <1>0, NoTriageTyped
    <3>3. triages' = [triages EXCEPT ![t] = r]
      BY <3>1
    <3> HIDE DEF r
    <3> QED
      BY <3>2, <3>3
  <2> QED
    BY <2>1, <2>2
<1>2. UNCHANGED <<original, reposts, feed, asks, week, askLock>>
  BY DEF Triage, TriageUnknown
<1>3. AutonomyTypeOK'
  <2>1. triages' \in [Triages -> [stage : {"idle", "high", "low", "counting"}, entry : Entries,
                         account : Accounts \cup {NoAccount}, since : 1..Weeks, spent : Nat]]
    BY <1>1, TriageKeepsTypes
  <2> QED
    BY <2>1, <1>2 DEF AutonomyTypeOK
<1>4. \A u \in Triages : Proposed(u)'
  BY <1>1 DEF AutonomyTypeOK, Proposed
<1> QED
  BY <1>1, <1>2, <1>3, <1>4, FilingUnchanged DEF AutonomyTypeOK

\* Penny's repost and its row in the feed are one transaction; a repost that is
\* there already has its row.
LEMMA FeedRowFacts ==
  ASSUME AutonomyTypeOK, FeedFaithful, NEW e \in Entries, NEW a \in Accounts,
         feed' = FeedRow(e, a)
  PROVE  /\ feed' \in [Entries -> [Accounts -> [rows : Nat, undone : BOOLEAN]]]
         /\ \A f \in Entries, b \in Accounts :
              /\ feed'[f][b].undone = feed[f][b].undone
              /\ feed'[f][b].rows = IF f = e /\ b = a THEN 1 ELSE feed[f][b].rows
<1> DEFINE new == [feed[e][a] EXCEPT !.rows = IF @ = 0 THEN 1 ELSE @]
           row == [feed[e] EXCEPT ![a] = new]
<1>0. feed[e] \in [Accounts -> [rows : Nat, undone : BOOLEAN]]
  BY DEF AutonomyTypeOK
<1>1. feed[e] \in [Accounts -> [rows : Nat, undone : BOOLEAN]] /\ feed[e][a].rows \in {0, 1}
  <2>1. feed[e][a].rows \in Nat
    BY <1>0
  <2>2. feed[e][a].rows <= 1
    BY DEF FeedFaithful
  <2> QED
    BY <1>0, <2>1, <2>2
<1>2. new \in [rows : Nat, undone : BOOLEAN] /\ new.rows = 1 /\ new.undone = feed[e][a].undone
  BY <1>1
<1>3. feed' = [feed EXCEPT ![e] = row]
  BY DEF FeedRow
<1> HIDE DEF new
<1>4. row \in [Accounts -> [rows : Nat, undone : BOOLEAN]] /\ row[a] = new
      /\ \A b \in Accounts : b # a => row[b] = feed[e][b]
  BY <1>1, <1>2
<1> HIDE DEF row
<1>5. feed' \in [Entries -> [Accounts -> [rows : Nat, undone : BOOLEAN]]]
  BY <1>3, <1>4 DEF AutonomyTypeOK
<1>6. feed'[e] = row /\ \A f \in Entries : f # e => feed'[f] = feed[f]
  BY <1>3 DEF AutonomyTypeOK
<1> QED
  BY <1>2, <1>4, <1>5, <1>6

LEMMA AutopostFiles ==
  ASSUME AutonomyAssumption, FilingInv, NEW t \in Triages, Autopost(t)
  PROVE  /\ FilingInv'
         /\ triages'[t].stage # "counting"
         /\ \A u \in Triages : u # t => triages'[u] = triages[u]
<1> USE DEF FilingInv
<1> DEFINE e == triages[t].entry
           a == triages[t].account
<1>0. a \in Accounts /\ e \in Entries /\ week \in 1..Weeks /\ NoTriage.stage = "idle"
  BY DEF AutonomyTypeOK, NoTriage, Autopost, Proposed
<1>1. PICK r \in [stage : {"idle", "low"}, entry : Entries,
             account : Accounts \cup {NoAccount}, since : 1..Weeks, spent : Nat] :
        triages' = [triages EXCEPT ![t] = r]
  <2>1. PICK ok \in BOOLEAN : triages' = [triages EXCEPT ![t] =
          IF ok \/ a \in Income THEN NoTriage ELSE [@ EXCEPT !.stage = "low", !.since = week]]
    BY DEF Autopost
  <2>2. triages[t] \in [stage : {"idle", "high", "low", "counting"}, entry : Entries,
                        account : Accounts \cup {NoAccount}, since : 1..Weeks, spent : Nat]
    BY DEF AutonomyTypeOK
  <2>3. NoTriage \in [stage : {"idle", "low"}, entry : Entries,
                     account : Accounts \cup {NoAccount}, since : 1..Weeks, spent : Nat]
    BY <1>0, NoTriageTyped
  <2> DEFINE low == [triages[t] EXCEPT !.stage = "low", !.since = week]
  <2>4. low \in [stage : {"idle", "low"}, entry : Entries,
                account : Accounts \cup {NoAccount}, since : 1..Weeks, spent : Nat]
    BY <2>2, <1>0
  <2>5. triages' = [triages EXCEPT ![t] = IF ok \/ a \in Income THEN NoTriage ELSE low]
    BY <2>1, <2>2 DEF AutonomyTypeOK
  <2> HIDE DEF low
  <2> QED
    BY <2>3, <2>4, <2>5
<1>2. triages' \in [Triages -> [stage : {"idle", "high", "low", "counting"}, entry : Entries,
                       account : Accounts \cup {NoAccount}, since : 1..Weeks, spent : Nat]]
  BY <1>1, TriageKeepsTypes
<1>3. UNCHANGED <<asks, week, askLock>>
  BY DEF Autopost
<1>4. triages'[t].stage # "counting" /\ \A u \in Triages : u # t => triages'[u] = triages[u]
  BY <1>1 DEF AutonomyTypeOK
<1>5. \A u \in Triages : Proposed(u)'
  BY <1>1 DEF AutonomyTypeOK, Proposed
<1>6. CASE UNCHANGED <<original, reposts, feed>>
  <2>1. AutonomyTypeOK'
    BY <1>2, <1>3, <1>6 DEF AutonomyTypeOK
  <2> QED
    BY <2>1, <1>4, <1>6, <1>5, FilingUnchanged
<1>7. CASE Refile(e, <<"autopost", a>>) /\ feed' = FeedRow(e, a)
  <2> DEFINE k == <<"autopost", a>>
  <2>0. k \in Keys /\ \A b \in Accounts : (<<"autopost", b>> = k) <=> (b = a)
    <3>1. k \in Keys
      BY <1>0 DEF Keys
    <3>2. ASSUME NEW b \in Accounts
          PROVE  (<<"autopost", b>> = k) <=> (b = a)
      OBVIOUS
    <3> QED
      BY <3>1, <3>2
  <2>1. /\ original' \in [Entries -> {"posted", "reversed"}]
        /\ reposts' \in [Entries -> [Keys -> {"absent", "posted", "reversed"}]]
        /\ \A f \in Entries, j \in Keys :
             (reposts'[f][j] # "absent") <=> (reposts[f][j] # "absent" \/ (f = e /\ j = k))
    BY <1>0, <1>7, <2>0, RefileFacts
  <2>2. /\ feed' \in [Entries -> [Accounts -> [rows : Nat, undone : BOOLEAN]]]
        /\ \A f \in Entries, b \in Accounts :
             /\ feed'[f][b].undone = feed[f][b].undone
             /\ feed'[f][b].rows = IF f = e /\ b = a THEN 1 ELSE feed[f][b].rows
    BY ZenonT(40), <1>0, <1>7, FeedRowFacts
  <2>3. AutonomyTypeOK'
    BY <1>2, <1>3, <2>1, <2>2 DEF AutonomyTypeOK
  <2>4. FeedFaithful'
    <3> SUFFICES ASSUME NEW f \in Entries, NEW b \in Accounts
                 PROVE  /\ (feed'[f][b].rows = 1) <=> (reposts'[f][<<"autopost", b>>] # "absent")
                        /\ feed'[f][b].rows <= 1
      BY DEF FeedFaithful
    <3>1. <<"autopost", b>> \in Keys
      BY DEF Keys
    <3>2. /\ (feed[f][b].rows = 1) <=> (reposts[f][<<"autopost", b>>] # "absent")
          /\ feed[f][b].rows <= 1
      BY DEF FeedFaithful
    <3>3. (<<"autopost", b>> = k) <=> (b = a)
      BY <2>0
    <3> DEFINE j == <<"autopost", b>>
    <3>4. (reposts'[f][j] # "absent") <=> (reposts[f][j] # "absent" \/ (f = e /\ j = k))
      BY <3>1, <2>1
    <3>5. feed'[f][b].rows = IF f = e /\ b = a THEN 1 ELSE feed[f][b].rows
      BY <2>2
    <3> HIDE DEF j, k
    <3>6. ((feed[f][b].rows = 1) <=> (reposts[f][j] # "absent")) /\ ((j = k) <=> (b = a))
      BY <3>2, <3>3 DEF j
    <3>7. ((feed'[f][b].rows = 1) <=> (reposts'[f][j] # "absent")) /\ feed'[f][b].rows <= 1
      BY <3>2, <3>4, <3>5, <3>6
    <3> QED
      BY <3>7 DEF j
  <2>5. \A f \in Entries : Filing(f)'
    <3> SUFFICES ASSUME NEW f \in Entries
                 PROVE  Filing(f)'
      OBVIOUS
    <3>1. /\ original'[f] = "posted" => \A j \in Keys : reposts'[f][j] = "absent"
          /\ \A i, j \in Keys : reposts'[f][i] = "posted" /\ reposts'[f][j] = "posted" => i = j
          /\ original'[f] = "reversed" =>
               \/ \E j \in Keys : reposts'[f][j] = "posted"
               \/ \E b \in Accounts : feed[f][b].undone
      BY <1>0, <1>7, <2>0, RefileFiles
    <3> QED
      BY <3>1, <2>2 DEF Filing
  <2> QED
    BY <2>3, <2>4, <2>5, <1>4, <1>5
<1> QED
  BY <1>6, <1>7 DEF Autopost

\* The owner's approval has a key of its own: Penny's feed has nothing to tell.
LEMMA ApproveFiles ==
  ASSUME FilingInv, NEW e \in Entries, NEW a \in Accounts, ApproveCategory(e, a)
  PROVE  FilingInv'
<1> DEFINE k == <<"categorize", a>>
<1>0. k \in Keys /\ \A b \in Accounts : <<"autopost", b>> \in Keys /\ <<"autopost", b>> # k
  BY DEF Keys
<1>1. Refile(e, k) /\ UNCHANGED <<feed, asks, week, askLock, triages>>
  BY DEF ApproveCategory
<1> HIDE DEF k
<1>2. /\ original' \in [Entries -> {"posted", "reversed"}]
      /\ reposts' \in [Entries -> [Keys -> {"absent", "posted", "reversed"}]]
      /\ \A f \in Entries, j \in Keys :
           (reposts'[f][j] # "absent") <=> (reposts[f][j] # "absent" \/ (f = e /\ j = k))
  BY <1>0, <1>1, RefileFacts DEF FilingInv
<1>3. AutonomyTypeOK'
  BY <1>1, <1>2 DEF FilingInv, AutonomyTypeOK
<1>4. FeedFaithful'
  BY <1>0, <1>1, <1>2 DEF FilingInv, FeedFaithful
<1>5. \A f \in Entries : Filing(f)'
  <2> SUFFICES ASSUME NEW f \in Entries
               PROVE  Filing(f)'
    OBVIOUS
  <2>1. /\ original'[f] = "posted" => \A j \in Keys : reposts'[f][j] = "absent"
        /\ \A i, j \in Keys : reposts'[f][i] = "posted" /\ reposts'[f][j] = "posted" => i = j
        /\ original'[f] = "reversed" =>
             \/ \E j \in Keys : reposts'[f][j] = "posted"
             \/ \E b \in Accounts : feed[f][b].undone
    BY <1>0, <1>1, RefileFiles DEF FilingInv
  <2> QED
    BY <2>1, <1>1 DEF Filing
<1> QED
  BY <1>1, <1>3, <1>4, <1>5 DEF FilingInv, Proposed

\* An undo leaves the original where it is, off the holding account, and says so.
LEMMA UndoFiles ==
  ASSUME FilingInv, NEW e \in Entries, NEW a \in Accounts, UndoActivity(e, a)
  PROVE  FilingInv'
<1> DEFINE k == <<"autopost", a>>
<1>0. k \in Keys /\ \A b \in Accounts : <<"autopost", b>> \in Keys
  BY DEF Keys
<1>1. /\ reposts[e][k] = "posted"
      /\ reposts' = [reposts EXCEPT ![e][k] = "reversed"]
      /\ feed' = [feed EXCEPT ![e][a].undone = TRUE]
      /\ UNCHANGED <<original, asks, week, askLock, triages>>
  BY DEF UndoActivity
<1> HIDE DEF k
<1>2. /\ reposts' \in [Entries -> [Keys -> {"absent", "posted", "reversed"}]]
      /\ \A f \in Entries, j \in Keys :
           reposts'[f][j] = IF f = e /\ j = k THEN "reversed" ELSE reposts[f][j]
  BY <1>0, <1>1 DEF FilingInv, AutonomyTypeOK
<1>3. /\ feed' \in [Entries -> [Accounts -> [rows : Nat, undone : BOOLEAN]]]
      /\ \A f \in Entries, b \in Accounts :
           /\ feed'[f][b].rows = feed[f][b].rows
           /\ feed[f][b].undone => feed'[f][b].undone
      /\ feed'[e][a].undone
  <2> DEFINE new == [feed[e][a] EXCEPT !.undone = TRUE]
             row == [feed[e] EXCEPT ![a] = new]
  <2>1. feed[e] \in [Accounts -> [rows : Nat, undone : BOOLEAN]]
        /\ feed[e][a] \in [rows : Nat, undone : BOOLEAN]
    BY DEF FilingInv, AutonomyTypeOK
  <2>2. new \in [rows : Nat, undone : BOOLEAN] /\ new.rows = feed[e][a].rows /\ new.undone
    BY <2>1
  <2>3. feed' = [feed EXCEPT ![e] = row]
    BY <1>1
  <2> HIDE DEF new
  <2>4. row \in [Accounts -> [rows : Nat, undone : BOOLEAN]] /\ row[a] = new
        /\ \A b \in Accounts : b # a => row[b] = feed[e][b]
    BY <2>1, <2>2
  <2> HIDE DEF row
  <2>5. feed' \in [Entries -> [Accounts -> [rows : Nat, undone : BOOLEAN]]]
    BY <2>3, <2>4 DEF FilingInv, AutonomyTypeOK
  <2>6. feed'[e] = row /\ \A f \in Entries : f # e => feed'[f] = feed[f]
    BY <2>3 DEF FilingInv, AutonomyTypeOK
  <2>7. \A b \in Accounts : row[b].rows = feed[e][b].rows /\ (feed[e][b].undone => row[b].undone)
    BY <2>2, <2>4
  <2>8. row[a].undone
    BY <2>2, <2>4
  <2> QED
    BY <2>5, <2>6, <2>7, <2>8
<1>4. AutonomyTypeOK'
  BY <1>1, <1>2, <1>3 DEF FilingInv, AutonomyTypeOK
<1>5. FeedFaithful'
  <2> SUFFICES ASSUME NEW f \in Entries, NEW b \in Accounts
               PROVE  /\ (feed'[f][b].rows = 1) <=> (reposts'[f][<<"autopost", b>>] # "absent")
                      /\ feed'[f][b].rows <= 1
    BY DEF FeedFaithful
  <2> DEFINE j == <<"autopost", b>>
  <2>1. j \in Keys
    BY <1>0
  <2>2. ((feed[f][b].rows = 1) <=> (reposts[f][j] # "absent")) /\ feed[f][b].rows <= 1
    BY DEF FilingInv, FeedFaithful
  <2> HIDE DEF j
  <2>3. (reposts'[f][j] # "absent") <=> (reposts[f][j] # "absent")
    BY <1>1, <1>2, <2>1
  <2>4. feed'[f][b].rows = feed[f][b].rows
    BY <1>3
  <2>5. ((feed'[f][b].rows = 1) <=> (reposts'[f][j] # "absent")) /\ feed'[f][b].rows <= 1
    BY <2>2, <2>3, <2>4
  <2> QED
    BY <2>5 DEF j
<1>6. ASSUME NEW f \in Entries
      PROVE  Filing(f)'
  <2>1. Filing(f)
    BY DEF FilingInv
  <2>2. CASE f = e
    <3>1. original'[f] # "posted"
      BY <2>1, <2>2, <1>0, <1>1 DEF Filing
    <3>2. \A i, j \in Keys : reposts'[f][i] = "posted" /\ reposts'[f][j] = "posted" => i = j
      BY <2>1, <1>2 DEF Filing
    <3>3. \E b \in Accounts : feed'[f][b].undone
      BY <2>2, <1>3
    <3> QED
      BY <3>1, <3>2, <3>3 DEF Filing
  <2>3. CASE f # e
    <3>1. original'[f] = original[f] /\ \A j \in Keys : reposts'[f][j] = reposts[f][j]
      BY <2>3, <1>1, <1>2
    <3>2. original'[f] = "posted" => \A j \in Keys : reposts'[f][j] = "absent"
      BY <3>1, <2>1 DEF Filing
    <3>3. \A i, j \in Keys : reposts'[f][i] = "posted" /\ reposts'[f][j] = "posted" => i = j
      BY <3>1, <2>1 DEF Filing
    <3>4. (\E j \in Keys : reposts[f][j] = "posted") => \E j \in Keys : reposts'[f][j] = "posted"
      BY <3>1
    <3>5. (\E b \in Accounts : feed[f][b].undone) => \E b \in Accounts : feed'[f][b].undone
      BY <1>3
    <3>6. original'[f] = "reversed" =>
            \/ \E j \in Keys : reposts'[f][j] = "posted"
            \/ \E b \in Accounts : feed'[f][b].undone
      BY <3>1, <3>4, <3>5, <2>1 DEF Filing
    <3> QED
      BY <3>2, <3>3, <3>6 DEF Filing
  <2> QED
    BY <2>2, <2>3
<1> QED
  BY <1>1, <1>4, <1>5, <1>6 DEF FilingInv, Proposed

\* The rows of a week, or of a week and later, are finitely many.
LEMMA AsksFinite ==
  ASSUME asks \in Seq([entry : Entries, week : 1..Weeks]), NEW S, S \subseteq DOMAIN asks
  PROVE  IsFiniteSet(S) /\ Cardinality(S) \in Nat
<1>1. Len(asks) \in Nat /\ DOMAIN asks = 1..Len(asks)
  OBVIOUS
<1>2. IsFiniteSet(1..Len(asks))
  BY <1>1, FS_Interval
<1> QED
  BY <1>1, <1>2, FS_Subset, FS_CardinalityType

\* While the rows and the lock stay as they are, so does what was counted.
LEMMA AskUnchanged ==
  ASSUME AskInv, UNCHANGED <<asks, askLock>>,
         \A t \in Triages : triages'[t].stage # "counting" \/ triages'[t] = triages[t]
  PROVE  AskInv'
<1>1. \A w : AsksSince(w)' = AsksSince(w)
  BY DEF AsksSince
<1>2. AsksWithinBudget'
  BY DEF AskInv, AsksWithinBudget
<1>3. ASSUME NEW t \in Triages
      PROVE  Counts(t)'
  BY <1>1 DEF AskInv, Counts, AsksSince
<1> QED
  BY <1>2, <1>3 DEF AskInv

\* With the lock of the organisation, nobody else is counting.
LEMMA CountAsksKeeps ==
  ASSUME AutonomyAssumption, AutonomyInv, NEW t \in Triages, CountAsks(t)
  PROVE  AutonomyInv'
<1> DEFINE n == AsksSince(triages[t].since)
<1>1. /\ askLock = Free /\ askLock' = t
      /\ triages' = [triages EXCEPT ![t].stage = "counting", ![t].spent = n]
      /\ UNCHANGED <<original, reposts, feed, asks, week>>
  BY DEF CountAsks
<1>2. AutonomyTypeOK
  BY DEF AutonomyInv, FilingInv
<1>3. n \in Nat
  BY <1>2, AsksFinite DEF AsksSince, AutonomyTypeOK
<1> HIDE DEF n
<1>4. /\ triages'[t].stage = "counting" /\ triages'[t].spent = n
      /\ triages'[t].since = triages[t].since
      /\ \A u \in Triages : u # t => triages'[u] = triages[u]
  BY <1>1, <1>2 DEF AutonomyTypeOK
<1>5. triages' \in [Triages -> [stage : {"idle", "high", "low", "counting"}, entry : Entries,
                       account : Accounts \cup {NoAccount}, since : 1..Weeks, spent : Nat]]
  BY ZenonT(40), <1>1, <1>2, <1>3 DEF AutonomyTypeOK
<1>6. FilingInv'
  <2>1. AutonomyTypeOK'
    BY <1>1, <1>2, <1>5 DEF AutonomyTypeOK
  <2>2. \A u \in Triages : Proposed(u)'
    BY <1>4 DEF AutonomyInv, FilingInv, Proposed
  <2> QED
    BY <1>1, <2>1, <2>2, FilingUnchanged DEF AutonomyInv
<1>7. \A u \in Triages : Counts(u)'
  <2> SUFFICES ASSUME NEW u \in Triages, triages'[u].stage = "counting"
               PROVE  askLock' = u /\ triages'[u].spent = Cardinality(
                        {i \in DOMAIN asks' : asks'[i].week >= triages'[u].since})
    BY DEF Counts, AsksSince
  <2>1. u = t
    BY <1>1, <1>4 DEF AutonomyInv, AskInv, Counts, AutonomyAssumption, Free
  <2> QED
    BY <2>1, <1>1, <1>4 DEF n, AsksSince
<1>8. AsksWithinBudget'
  BY <1>1 DEF AutonomyInv, AskInv, AsksWithinBudget
<1> QED
  BY <1>6, <1>7, <1>8 DEF AutonomyInv, AskInv

\* One more row, for a week whose count was still below the budget, and for an
\* entry that has none of that week.
LEMMA AppendWithinBudget ==
  ASSUME AutonomyAssumption, AutonomyTypeOK, AsksWithinBudget,
         NEW e \in Entries, NEW w \in 1..Weeks,
         AsksSince(w) < Budget,
         ~ \E i \in DOMAIN asks : asks[i].entry = e /\ asks[i].week >= w,
         asks' = Append(asks, [entry |-> e, week |-> w])
  PROVE  AsksWithinBudget'
<1> DEFINE n == Len(asks)
<1>1. n \in Nat /\ DOMAIN asks = 1..n /\ DOMAIN asks' = 1..(n + 1)
      /\ (\A i \in 1..n : asks'[i] = asks[i] /\ asks[i] \in [entry : Entries, week : 1..Weeks])
      /\ asks'[n + 1] = [entry |-> e, week |-> w]
  <2> DEFINE AskRow == [entry : Entries, week : 1..Weeks]
             row == [entry |-> e, week |-> w]
  <2>1. asks \in Seq(AskRow) /\ asks' = Append(asks, row)
    BY DEF AutonomyTypeOK
  <2> HIDE DEF AskRow, row
  <2>2. \A i \in 1..Len(asks) : asks[i] \in AskRow
    BY <2>1
  <2>3. Len(asks) \in Nat /\ DOMAIN asks = 1..Len(asks)
    BY <2>1
  <2>4. /\ DOMAIN asks' = 1..(Len(asks) + 1)
        /\ \A i \in 1..Len(asks) : asks'[i] = asks[i]
        /\ asks'[Len(asks) + 1] = row
    BY <2>1
  <2> QED
    BY <2>2, <2>3, <2>4 DEF AskRow, row
<1> HIDE DEF n
<1>2. ASSUME NEW v \in 1..Weeks
      PROVE  Cardinality({i \in DOMAIN asks' : asks'[i].week = v}) <= Budget
  <2> DEFINE Old == {i \in DOMAIN asks : asks[i].week = v}
             New == {i \in DOMAIN asks' : asks'[i].week = v}
             Since == {i \in DOMAIN asks : asks[i].week >= w}
  <2>1. CASE v # w
    <3>1. New = Old
      BY <2>1, <1>1
    <3> QED
      BY <3>1 DEF AsksWithinBudget
  <2>2. CASE v = w
    <3>1. New = Old \cup {n + 1} /\ n + 1 \notin Old
      BY <2>2, <1>1
    <3>2. IsFiniteSet(Old) /\ IsFiniteSet(Since) /\ Cardinality(Old) \in Nat /\ Cardinality(Since) \in Nat
      <4>1. Old \subseteq DOMAIN asks /\ Since \subseteq DOMAIN asks
        OBVIOUS
      <4>2. asks \in Seq([entry : Entries, week : 1..Weeks])
        BY DEF AutonomyTypeOK
      <4> HIDE DEF Old, Since
      <4> QED
        BY <4>1, <4>2, AsksFinite
    <3>3. Old \subseteq Since
      BY <2>2, <1>1
    <3>4. Cardinality(Since) < Budget
      BY DEF AsksSince
    <3> HIDE DEF Old, New, Since
    <3>5. Cardinality(Old) <= Cardinality(Since)
      BY <3>2, <3>3, FS_Subset
    <3>6. Cardinality(New) = Cardinality(Old) + 1
      BY <3>1, <3>2, FS_AddElement
    <3>7. Cardinality(New) <= Budget
      BY <3>2, <3>4, <3>5, <3>6 DEF AutonomyAssumption
    <3> QED
      BY <3>7 DEF New
  <2> QED
    BY <2>1, <2>2
<1>3. ASSUME NEW i \in DOMAIN asks', NEW j \in DOMAIN asks', asks'[i] = asks'[j]
      PROVE  i = j
  <2>1. ASSUME NEW k \in 1..n
        PROVE  asks'[k] # [entry |-> e, week |-> w]
    BY SMTT(30), <1>1
  <2>2. i \in 1..n \/ i = n + 1
    BY <1>1
  <2>3. j \in 1..n \/ j = n + 1
    BY <1>1
  <2>4. CASE i \in 1..n /\ j \in 1..n
    BY <2>4, <1>1, <1>3 DEF AsksWithinBudget
  <2> QED
    BY <2>1, <2>2, <2>3, <2>4, <1>1, <1>3
<1> QED
  BY <1>2, <1>3 DEF AsksWithinBudget

LEMMA RecordAskKeeps ==
  ASSUME AutonomyAssumption, AutonomyInv, NEW t \in Triages, RecordAsk(t)
  PROVE  AutonomyInv'
<1> DEFINE e == triages[t].entry
           w == triages[t].since
           repeat == \E i \in DOMAIN asks : asks[i].entry = e /\ asks[i].week >= w
<1>1. /\ triages[t].stage = "counting"
      /\ asks' = IF repeat \/ triages[t].spent >= Budget
                 THEN asks ELSE Append(asks, [entry |-> e, week |-> w])
      /\ askLock' = Free
      /\ triages' = [triages EXCEPT ![t] = NoTriage]
      /\ UNCHANGED <<original, reposts, feed, week>>
  BY DEF RecordAsk
<1>2. AutonomyTypeOK /\ AsksWithinBudget /\ \A u \in Triages : Counts(u)
  BY DEF AutonomyInv, FilingInv, AskInv
<1>3. e \in Entries /\ w \in 1..Weeks /\ triages[t].spent \in Nat
  BY <1>2 DEF AutonomyTypeOK
<1>4. triages[t].spent = AsksSince(w) /\ askLock = t
  BY <1>1, <1>2 DEF Counts
<1>5. /\ triages' \in [Triages -> [stage : {"idle", "high", "low", "counting"}, entry : Entries,
                         account : Accounts \cup {NoAccount}, since : 1..Weeks, spent : Nat]]
      /\ triages'[t].stage = "idle"
      /\ \A u \in Triages : u # t => triages'[u] = triages[u]
  <2>1. NoTriage.stage = "idle"
    BY DEF NoTriage
  <2> QED
    BY <2>1, <1>1, <1>2, NoTriageTyped DEF AutonomyTypeOK
<1>6. \A u \in Triages : triages'[u].stage # "counting"
  BY <1>2, <1>4, <1>5 DEF Counts
<1>7. asks' \in Seq([entry : Entries, week : 1..Weeks])
  <2>1. [entry |-> e, week |-> w] \in [entry : Entries, week : 1..Weeks]
    BY <1>3
  <2>2. asks \in Seq([entry : Entries, week : 1..Weeks])
    BY <1>2 DEF AutonomyTypeOK
  <2> DEFINE row == [entry |-> e, week |-> w]
             AskRow == [entry : Entries, week : 1..Weeks]
  <2>3. asks' = asks \/ asks' = Append(asks, row)
    BY <1>1
  <2> HIDE DEF row, AskRow
  <2>4. Append(asks, row) \in Seq(AskRow)
    BY <2>1, <2>2 DEF row, AskRow
  <2> QED
    BY <2>2, <2>3, <2>4 DEF AskRow
<1>8. AsksWithinBudget'
  <2>1. CASE repeat \/ triages[t].spent >= Budget
    BY <2>1, <1>1, <1>2 DEF AsksWithinBudget
  <2>2. CASE ~(repeat \/ triages[t].spent >= Budget)
    <3>1. AsksSince(w) < Budget
      BY <2>2, <1>3, <1>4 DEF AutonomyAssumption
    <3>2. asks' = Append(asks, [entry |-> e, week |-> w])
      BY <2>2, <1>1
    <3> QED
      BY <3>1, <3>2, <2>2, <1>2, <1>3, AppendWithinBudget
  <2> QED
    BY <2>1, <2>2
<1>9. FilingInv'
  <2>1. AutonomyTypeOK'
    BY <1>1, <1>2, <1>5, <1>7 DEF AutonomyTypeOK
  <2>2. \A u \in Triages : Proposed(u)'
    BY <1>5 DEF AutonomyInv, FilingInv, Proposed
  <2> QED
    BY <2>1, <2>2, <1>1, FilingUnchanged DEF AutonomyInv
<1> QED
  BY <1>6, <1>8, <1>9 DEF AutonomyInv, AskInv, Counts

LEMMA AutonomyStep ==
  ASSUME AutonomyAssumption, AutonomyInv, [AutonomyNext]_autonomyVars
  PROVE  AutonomyInv'
<1>1. ASSUME NEW t \in Triages, NEW e \in Entries, Triage(t, e) \/ TriageUnknown(t, e)
      PROVE  AutonomyInv'
  <2>1. UNCHANGED <<asks, askLock>>
    BY <1>1 DEF Triage, TriageUnknown
  <2> QED
    BY <1>1, <2>1, TriageFiles, AskUnchanged DEF AutonomyInv
<1>2. ASSUME NEW t \in Triages, Autopost(t)
      PROVE  AutonomyInv'
  <2>1. UNCHANGED <<asks, askLock>>
    BY <1>2 DEF Autopost
  <2> QED
    BY <1>2, <2>1, AutopostFiles, AskUnchanged DEF AutonomyInv
<1>3. ASSUME NEW e \in Entries, NEW a \in Accounts, ApproveCategory(e, a) \/ UndoActivity(e, a)
      PROVE  AutonomyInv'
  <2>1. UNCHANGED <<asks, askLock, triages>>
    BY <1>3 DEF ApproveCategory, UndoActivity
  <2> QED
    BY <1>3, <2>1, ApproveFiles, UndoFiles, AskUnchanged DEF AutonomyInv
<1>4. CASE NextWeek \/ UNCHANGED autonomyVars
  <2>1. UNCHANGED <<original, reposts, feed, asks, askLock, triages>>
    BY <1>4 DEF NextWeek, autonomyVars
  <2>2. AutonomyTypeOK'
    BY <1>4 DEF NextWeek, autonomyVars, AutonomyInv, FilingInv, AutonomyTypeOK, AutonomyAssumption
  <2>3. \A t \in Triages : Proposed(t)'
    BY <2>1 DEF AutonomyInv, FilingInv, Proposed
  <2> QED
    BY <2>1, <2>2, <2>3, FilingUnchanged, AskUnchanged DEF AutonomyInv
<1>5. CASE \E t \in Triages : CountAsks(t) \/ RecordAsk(t)
  BY <1>5, CountAsksKeeps, RecordAskKeeps
<1> QED
  BY <1>1, <1>2, <1>3, <1>4, <1>5 DEF AutonomyNext

LEMMA AutonomyInitially ==
  ASSUME AutonomyAssumption, AutonomyInit
  PROVE  AutonomyInv
<1>1. NoTriage.stage = "idle"
  BY DEF NoTriage
<1>2. AutonomyTypeOK
  <2>1. triages \in [Triages -> [stage : {"idle", "high", "low", "counting"}, entry : Entries,
                        account : Accounts \cup {NoAccount}, since : 1..Weeks, spent : Nat]]
    BY NoTriageTyped DEF AutonomyInit
  <2>2. asks \in Seq([entry : Entries, week : 1..Weeks])
    BY DEF AutonomyInit
  <2> QED
    BY <2>1, <2>2 DEF AutonomyInit, AutonomyTypeOK, AutonomyAssumption
<1>3. FeedFaithful
  <2>1. \A a \in Accounts : <<"autopost", a>> \in Keys
    BY DEF Keys
  <2> SUFFICES ASSUME NEW e \in Entries, NEW a \in Accounts
               PROVE  /\ (feed[e][a].rows = 1) <=> (reposts[e][<<"autopost", a>>] # "absent")
                      /\ feed[e][a].rows <= 1
    BY DEF FeedFaithful
  <2> DEFINE k == <<"autopost", a>>
  <2>2. k \in Keys
    BY <2>1
  <2> HIDE DEF k
  <2>3. feed[e][a].rows = 0 /\ reposts[e][k] = "absent"
    BY <2>2 DEF AutonomyInit
  <2>4. ((feed[e][a].rows = 1) <=> (reposts[e][k] # "absent")) /\ feed[e][a].rows <= 1
    BY <2>3
  <2> QED
    BY <2>4 DEF k
<1>4. \A e \in Entries : Filing(e)
  BY DEF AutonomyInit, Filing
<1>5. \A t \in Triages : Proposed(t) /\ Counts(t)
  BY <1>1 DEF AutonomyInit, Proposed, Counts
<1>6. AsksWithinBudget
  <2>1. asks = << >> /\ DOMAIN asks = {}
    BY DEF AutonomyInit
  <2>2. \A w \in 1..Weeks : {i \in DOMAIN asks : asks[i].week = w} = {}
    BY <2>1
  <2> QED
    BY <2>1, <2>2, FS_EmptySet DEF AsksWithinBudget, AutonomyAssumption
<1> QED
  BY <1>2, <1>3, <1>4, <1>5, <1>6 DEF AutonomyInv, FilingInv, AskInv

LEMMA AutonomyInvHolds ==
  ASSUME AutonomyInv
  PROVE  AutonomyHolds
<1>1. ASSUME NEW e \in Entries
      PROVE  /\ Cardinality(Counting(e)) + (IF original[e] = "posted" THEN 1 ELSE 0) <= 1
             /\ (Counting(e) = {} /\ original[e] = "reversed")
                  => \E a \in Accounts : feed[e][a].undone
  <2>0. Filing(e) /\ original[e] \in {"posted", "reversed"}
    BY DEF AutonomyInv, FilingInv, AutonomyTypeOK
  <2>1. CASE Counting(e) = {}
    <3>1. Cardinality(Counting(e)) = 0
      BY <2>1, FS_EmptySet
    <3> QED
      BY <3>1, <2>0, <2>1 DEF Filing, Counting
  <2>2. CASE Counting(e) # {}
    <3>1. PICK k \in Keys : k \in Counting(e)
      BY <2>2 DEF Counting
    <3>2. Counting(e) = {k}
      BY <3>1, <2>0 DEF Filing, Counting
    <3>3. Cardinality(Counting(e)) = 1
      BY <3>2, FS_Singleton
    <3>4. original[e] # "posted"
      BY <3>1, <2>0 DEF Filing, Counting
    <3> QED
      BY <2>2, <3>3, <3>4
  <2> QED
    BY <2>1, <2>2
<1>2. FiledOnce
  BY <1>1 DEF FiledOnce
<1> QED
  BY <1>2 DEF AutonomyHolds, FiledAndToldOnce, AutonomyInv, FilingInv, AskInv

\* For any entries, accounts, weeks, budget and triage requests in flight: Penny
\* interrupts the owner at most Budget times a week and once for an entry, and
\* what she and the owner file is filed once and told once.
THEOREM AutonomyAlwaysHolds ==
  ASSUME AutonomyAssumption PROVE AutonomySpec => []AutonomyHolds
<1>1. AutonomyInit => AutonomyInv
  BY AutonomyInitially
<1>2. AutonomyInv /\ [AutonomyNext]_autonomyVars => AutonomyInv'
  BY AutonomyStep
<1>3. AutonomyInv => AutonomyHolds
  BY AutonomyInvHolds
<1> QED
  BY <1>1, <1>2, <1>3, PTL DEF AutonomySpec

-----------------------------------------------------------------------------
(* Memberships *)

\* An active owner of the business, or admin of a firm.
Owns(o, u) == staff[o][u].role = OwnerRole(o) /\ staff[o][u].active

\* What a request carries, and the lock of the invitation it answers.
Carries(r) ==
  /\ requests[r].op # "none" => requests[r].user \in Users
  /\ requests[r].op \in Invites =>
       tokenLock[requests[r].op] = r /\ invites[requests[r].op].status = "sent"

InviteInv ==
  /\ MembershipTypeOK /\ InviteGrantsOnce
  /\ \A r \in Requests : Carries(r)

\* A removal leaves another owner, while it is the only one.
LeavesAnOwner(r) == requests[r].op = "remove" =>
  \E v \in Users : v # requests[r].user /\ Owns(requests[r].org, v)

OneRemoves == \A q, r \in Requests :
  requests[q].op = "remove" /\ requests[r].op = "remove" => q = r

OwnerInv == raced \/
  /\ OneRemoves
  /\ \A o \in Orgs : Exists(o) => \E u \in Users : Owns(o, u)
  /\ \A r \in Requests : LeavesAnOwner(r)

MembershipInv == InviteInv /\ OwnerInv

RequestRow == [op : {"none", "remove", "transfer"} \cup Invites, org : Orgs,
            user : Users \cup {NoUser}, firm : Firms \cup {NoFirm}]

LEMMA OwnersAre ==
  ASSUME MembershipTypeOK, NEW o \in Orgs, NEW u \in Users
  PROVE  u \in Owners(o) <=> Owns(o, u)
<1>1. staff[o][u] \in [role : Roles, active : BOOLEAN]
  BY DEF MembershipTypeOK
<1> DEFINE m == staff[o][u]
           x == OwnerRole(o)
<1> HIDE DEF x
<1>2. m = [role |-> x, active |-> TRUE] <=> (m.role = x /\ m.active)
  <2>1. ASSUME m = [role |-> x, active |-> TRUE]
        PROVE  m.role = x /\ m.active
    BY <2>1
  <2>2. ASSUME m.role = x, m.active
        PROVE  m = [role |-> x, active |-> TRUE]
    <3>1. m.active = TRUE
      BY <1>1, <2>2
    <3>2. m = [role |-> m.role, active |-> m.active]
      BY <1>1
    <3> QED
      BY <2>2, <3>1, <3>2
  <2> QED
    BY <2>1, <2>2
<1> QED
  BY <1>2 DEF Owners, Owns, x

LEMMA NoRequestTyped == NoRequest \in RequestRow /\ NoRequest.op = "none"
BY DEF NoRequest, RequestRow, Orgs

\* A step that takes no owner away, removes nobody new and brings a firm to be
\* with its admin keeps an owner everywhere.
LEMMA OwnersKept ==
  ASSUME MembershipTypeOK, OwnerInv, raced' = raced,
         \A o \in Orgs, u \in Users : Owns(o, u) => Owns(o, u)',
         \A o \in Orgs : Exists(o)' => Exists(o) \/ \E u \in Users : Owns(o, u)',
         \A q \in Requests : requests'[q].op = "remove" => requests'[q] = requests[q]
  PROVE  OwnerInv'
<1> SUFFICES ASSUME ~raced
             PROVE  /\ OneRemoves'
                    /\ \A o \in Orgs : Exists(o)' => \E u \in Users : Owns(o, u)'
                    /\ \A r \in Requests : LeavesAnOwner(r)'
  BY DEF OwnerInv
<1>1. OneRemoves'
  BY DEF OwnerInv, OneRemoves
<1>2. \A o \in Orgs : Exists(o)' => \E u \in Users : Owns(o, u)'
  BY DEF OwnerInv
<1>3. ASSUME NEW r \in Requests, requests'[r].op = "remove"
      PROVE  \E v \in Users : v # requests'[r].user
                /\ staff'[requests'[r].org][v].role = OwnerRole(requests'[r].org)
                /\ staff'[requests'[r].org][v].active
  <2>1. requests'[r] = requests[r] /\ requests[r].org \in Orgs
    BY <1>3 DEF MembershipTypeOK
  <2>2. PICK v \in Users : v # requests[r].user /\ Owns(requests[r].org, v)
    BY <1>3, <2>1 DEF OwnerInv, LeavesAnOwner
  <2>3. PICK o \in Orgs : o = requests[r].org
    BY <2>1
  <2>4. Owns(o, v)'
    BY <2>2, <2>3
  <2>5. staff'[o][v].role = OwnerRole(o) /\ staff'[o][v].active
    BY <2>4 DEF Owns
  <2> QED
    BY <2>1, <2>2, <2>3, <2>5
<1>4. \A r \in Requests : LeavesAnOwner(r)'
  BY <1>3 DEF LeavesAnOwner, Owns
<1> QED
  BY <1>1, <1>2, <1>4

\* A request that begins or ends, and a token lock with it, as the types have them.
LEMMA RequestTyped ==
  ASSUME MembershipTypeOK, NEW r \in Requests, NEW q \in RequestRow,
         requests' = [requests EXCEPT ![r] = q]
  PROVE  /\ requests' \in [Requests -> RequestRow]
         /\ requests'[r] = q
         /\ \A p \in Requests : p # r => requests'[p] = requests[p]
BY DEF MembershipTypeOK, RequestRow

LEMMA BeginKeeps ==
  ASSUME MembershipAssumption, MembershipInv,
         NEW r \in Requests, NEW o \in Orgs, NEW a \in Users, NEW u \in Users,
         BeginRemove(r, a, o, u) \/ BeginTransfer(r, a, o, u)
  PROVE  MembershipInv'
<1> DEFINE q(op) == [op |-> op, org |-> o, user |-> u, firm |-> NoFirm]
<1>0. MembershipTypeOK
  BY DEF MembershipInv, InviteInv
<1>1. PICK op \in {"remove", "transfer"} :
        /\ requests' = [requests EXCEPT ![r] = q(op)]
        /\ UNCHANGED <<staff, creator, invites, engaged, assigned, tokenLock>>
        /\ op = "remove" => BeginRemove(r, a, o, u)
        /\ op = "transfer" => BeginTransfer(r, a, o, u)
  BY DEF BeginRemove, BeginTransfer, Waiting
<1>2. q(op) \in RequestRow
  BY DEF RequestRow
<1>3. /\ requests' \in [Requests -> RequestRow] /\ requests'[r] = q(op)
      /\ \A p \in Requests : p # r => requests'[p] = requests[p]
  BY <1>0, <1>1, <1>2, RequestTyped
<1>4. InviteInv'
  <2>1. MembershipTypeOK'
    <3>1. raced' \in BOOLEAN
      BY <1>0 DEF BeginRemove, BeginTransfer, MembershipTypeOK
    <3> QED
      BY <1>0, <1>1, <1>3, <3>1 DEF MembershipTypeOK, RequestRow
  <2>2. InviteGrantsOnce'
    BY <1>1 DEF MembershipInv, InviteInv, InviteGrantsOnce
  <2>3. ASSUME NEW p \in Requests
        PROVE  Carries(p)'
    <3>1. CASE p = r
      <4>1. requests'[p].op = op /\ requests'[p].user = u
        BY <3>1, <1>3
      <4>2. op \notin Invites
        BY DEF MembershipAssumption, Invites
      <4> QED
        BY <4>1, <4>2 DEF Carries
    <3>2. CASE p # r
      <4>1. requests'[p] = requests[p] /\ Carries(p)
        BY <3>2, <1>3 DEF MembershipInv, InviteInv
      <4> QED
        BY <4>1, <1>1 DEF Carries
    <3> QED
      BY <3>1, <3>2
  <2> QED
    BY <2>1, <2>2, <2>3 DEF InviteInv
<1>5. \A x \in Orgs, v \in Users : Owns(x, v)' <=> Owns(x, v)
  BY <1>1 DEF Owns
<1>6. \A x \in Orgs : Exists(x)' <=> Exists(x)
  BY <1>1 DEF Exists
<1>7. CASE op = "transfer"
  <2>1. \A p \in Requests : requests'[p].op = "remove" => requests'[p] = requests[p]
    BY <1>3, <1>7
  <2>2. raced' = raced
    BY <1>1, <1>7 DEF BeginTransfer
  <2> QED
    BY <1>0, <1>4, <1>5, <1>6, <2>1, <2>2, OwnersKept DEF MembershipInv
<1>8. CASE op = "remove"
  <2>1. /\ a \in Owners(o) /\ u \in Active(o) /\ MayGo(o, u)
        /\ raced' = (raced \/ \E p \in Requests : requests[p].op = "remove")
    BY <1>1, <1>8 DEF BeginRemove
  <2>2. \E v \in Users : v # u /\ Owns(o, v)
    <3>1. CASE Owns(o, u)
      <4>1. Cardinality(Owners(o)) > 1
        BY <2>1, <3>1 DEF MayGo, Owns
      <4>2. ~(Owners(o) \subseteq {u})
        <5>1. IsFiniteSet({u}) /\ Cardinality({u}) = 1
          BY FS_Singleton
        <5> SUFFICES ASSUME Owners(o) \subseteq {u}
                     PROVE  FALSE
          OBVIOUS
        <5>2. Cardinality(Owners(o)) <= 1
          BY <5>1, FS_Subset
        <5>3. Cardinality(Owners(o)) \in Nat
          BY <5>1, FS_Subset, FS_CardinalityType
        <5> QED
          BY <4>1, <5>2, <5>3
      <4>3. Owners(o) \subseteq Users
        BY DEF Owners
      <4> QED
        BY <4>2, <4>3, <1>0, OwnersAre
    <3>2. CASE ~Owns(o, u)
      BY <3>2, <2>1, <1>0, OwnersAre
    <3> QED
      BY <3>1, <3>2
  <2>3. CASE raced'
    BY <2>3, <1>4 DEF MembershipInv, OwnerInv
  <2>4. CASE ~raced'
    <3>1. ~raced /\ \A p \in Requests : requests[p].op # "remove"
      BY <2>1, <2>4
    <3>2. \A p \in Requests : requests'[p].op = "remove" => p = r
      BY <3>1, <1>3
    <3>3. OneRemoves'
      BY <3>2 DEF OneRemoves
    <3>4. \A x \in Orgs : Exists(x)' => \E v \in Users : Owns(x, v)'
      BY <3>1, <1>5, <1>6 DEF MembershipInv, OwnerInv
    <3>5. \A p \in Requests : LeavesAnOwner(p)'
      <4> SUFFICES ASSUME NEW p \in Requests, requests'[p].op = "remove"
                   PROVE  \E v \in Users : v # requests'[p].user
                            /\ staff'[requests'[p].org][v].role = OwnerRole(requests'[p].org)
                            /\ staff'[requests'[p].org][v].active
        BY DEF LeavesAnOwner, Owns
      <4>1. requests'[p].org = o /\ requests'[p].user = u /\ staff' = staff
        BY <3>2, <1>1, <1>3
      <4> QED
        BY <4>1, <2>2 DEF Owns
    <3> QED
      BY <3>3, <3>4, <3>5, <1>4 DEF MembershipInv, OwnerInv
  <2> QED
    BY <2>3, <2>4
<1> QED
  BY <1>7, <1>8

\* Once a request is over it carries nothing; the others carry what they did.
LEMMA FinishedRequests ==
  ASSUME MembershipTypeOK, NEW r \in Requests, Finish(r)
  PROVE  /\ requests' \in [Requests -> RequestRow]
         /\ requests'[r].op = "none"
         /\ \A p \in Requests : p # r => requests'[p] = requests[p]
<1>1. requests' = [requests EXCEPT ![r] = NoRequest]
  BY DEF Finish
<1> QED
  BY <1>1, NoRequestTyped, RequestTyped

LEMMA EndKeeps ==
  ASSUME MembershipAssumption, MembershipInv, NEW r \in Requests,
         EndRemove(r) \/ EndTransfer(r)
  PROVE  MembershipInv'
<1> DEFINE o == requests[r].org
           u == requests[r].user
<1>0. MembershipTypeOK
  BY DEF MembershipInv, InviteInv
<1>1. /\ Finish(r) /\ UNCHANGED <<creator, invites, engaged, assigned, tokenLock, raced>>
      /\ o \in Orgs /\ u \in Users
  BY <1>0 DEF EndRemove, EndTransfer, MembershipInv, InviteInv, Carries, MembershipTypeOK
<1>2. /\ requests' \in [Requests -> RequestRow] /\ requests'[r].op = "none"
      /\ \A p \in Requests : p # r => requests'[p] = requests[p]
  BY <1>0, <1>1, FinishedRequests
<1>3. /\ staff' \in [Orgs -> [Users -> [role : Roles, active : BOOLEAN]]]
      /\ \A x \in Orgs, v \in Users : (x # o \/ v # u) => staff'[x][v] = staff[x][v]
      /\ EndTransfer(r) => staff'[o][u].role = OwnerRole(o) /\ staff'[o][u].active = staff[o][u].active
  <2>1. PICK m \in [role : Roles, active : BOOLEAN] :
          /\ staff' = [staff EXCEPT ![o][u] = m]
          /\ EndTransfer(r) => m.role = OwnerRole(o) /\ m.active = staff[o][u].active
    <3>1. staff[o][u] \in [role : Roles, active : BOOLEAN]
      BY <1>0, <1>1 DEF MembershipTypeOK
    <3>2. CASE EndTransfer(r)
      <4> DEFINE m == [staff[o][u] EXCEPT !.role = OwnerRole(o)]
      <4>1. OwnerRole(o) \in Roles
        BY DEF OwnerRole, Roles
      <4>2. m \in [role : Roles, active : BOOLEAN] /\ m.role = OwnerRole(o)
            /\ m.active = staff[o][u].active
        BY <3>1, <4>1
      <4>3. staff' = [staff EXCEPT ![o][u] = m]
        BY <3>2 DEF EndTransfer
      <4> HIDE DEF m
      <4> QED
        BY <4>2, <4>3
    <3>3. CASE ~EndTransfer(r)
      <4> DEFINE m == [staff[o][u] EXCEPT !.active = FALSE]
      <4>1. m \in [role : Roles, active : BOOLEAN]
        BY <3>1
      <4>2. staff' = [staff EXCEPT ![o][u] = m]
        BY <3>3 DEF EndRemove
      <4> HIDE DEF m
      <4> QED
        BY <3>3, <4>1, <4>2
    <3> QED
      BY <3>2, <3>3
  <2> QED
    BY <2>1, <1>0, <1>1 DEF MembershipTypeOK
<1>4. InviteInv'
  <2>1. MembershipTypeOK'
    BY <1>0, <1>1, <1>2, <1>3 DEF MembershipTypeOK, RequestRow
  <2>2. InviteGrantsOnce'
    BY <1>1 DEF MembershipInv, InviteInv, InviteGrantsOnce
  <2>3. ASSUME NEW p \in Requests
        PROVE  Carries(p)'
    <3>1. CASE p = r
      <4>1. "none" \notin Invites
        BY DEF MembershipAssumption, Invites
      <4> QED
        BY <3>1, <4>1, <1>2 DEF Carries
    <3>2. CASE p # r
      <4>1. requests'[p] = requests[p] /\ Carries(p)
        BY <3>2, <1>2 DEF MembershipInv, InviteInv
      <4> QED
        BY <4>1, <1>1 DEF Carries
    <3> QED
      BY <3>1, <3>2
  <2> QED
    BY <2>1, <2>2, <2>3 DEF InviteInv
<1>5. \A x \in Orgs : Exists(x)' <=> Exists(x)
  BY <1>1 DEF Exists
<1>6. CASE EndTransfer(r)
  <2>1. ASSUME NEW x \in Orgs, NEW v \in Users, Owns(x, v)
        PROVE  Owns(x, v)'
    <3>1. CASE x = o /\ v = u
      BY <3>1, <2>1, <1>3, <1>6 DEF Owns
    <3>2. CASE x # o \/ v # u
      BY <3>2, <2>1, <1>3 DEF Owns
    <3> QED
      BY <3>1, <3>2
  <2>2. \A p \in Requests : requests'[p].op = "remove" => requests'[p] = requests[p]
    BY <1>2
  <2> QED
    BY <1>0, <1>1, <1>4, <1>5, <2>1, <2>2, OwnersKept DEF MembershipInv
<1>7. CASE EndRemove(r) /\ ~raced
  <2>0. requests[r].op = "remove"
    BY <1>7 DEF EndRemove
  <2>1. PICK w \in Users : w # u /\ Owns(o, w)
    BY <2>0, <1>7 DEF MembershipInv, OwnerInv, LeavesAnOwner
  <2>2. \A p \in Requests : requests'[p].op # "remove"
    BY <2>0, <1>2, <1>7 DEF MembershipInv, OwnerInv, OneRemoves
  <2>3. ASSUME NEW x \in Orgs, Exists(x)'
        PROVE  \E v \in Users : Owns(x, v)'
    <3>1. CASE x = o
      <4>1. staff'[x][w] = staff[x][w]
        BY <3>1, <2>1, <1>1, <1>3
      <4>2. Owns(x, w)'
        BY <3>1, <4>1, <2>1 DEF Owns
      <4> QED
        BY <4>2
    <3>2. CASE x # o
      <4>1. PICK v \in Users : Owns(x, v)
        BY <2>3, <1>5, <1>7 DEF MembershipInv, OwnerInv
      <4>2. staff'[x][v] = staff[x][v]
        BY <3>2, <1>3
      <4>3. Owns(x, v)'
        BY <4>1, <4>2 DEF Owns
      <4> QED
        BY <4>3
    <3> QED
      BY <3>1, <3>2
  <2>4. OneRemoves' /\ \A p \in Requests : LeavesAnOwner(p)'
    BY <2>2 DEF OneRemoves, LeavesAnOwner
  <2> QED
    BY <2>3, <2>4, <1>4 DEF MembershipInv, OwnerInv
<1>8. CASE raced
  BY <1>8, <1>1, <1>4 DEF MembershipInv, OwnerInv
<1> QED
  BY <1>6, <1>7, <1>8

\* Engagements and assignments change nobody's role.
LEMMA EngagementKeeps ==
  ASSUME MembershipAssumption, MembershipInv,
         NEW a \in Users, NEW u \in Users, NEW f \in Firms,
         AssignCpa(a, f, u) \/ UnassignCpa(a, f, u) \/ RevokeEngagement(a, f)
  PROVE  MembershipInv'
<1>0. MembershipTypeOK
  BY DEF MembershipInv, InviteInv
<1>1. UNCHANGED <<staff, creator, invites, tokenLock, requests, raced>>
  BY DEF AssignCpa, UnassignCpa, RevokeEngagement
<1>2. MembershipTypeOK'
  <2>1. engaged' \in [Firms -> {"none", "active", "revoked"}] /\ assigned' \in SUBSET (Firms \X Users)
    <3>1. CASE AssignCpa(a, f, u)
      BY <3>1, <1>0 DEF AssignCpa, MembershipTypeOK
    <3>2. CASE UnassignCpa(a, f, u)
      BY <3>2, <1>0 DEF UnassignCpa, MembershipTypeOK
    <3>3. CASE RevokeEngagement(a, f)
      BY <3>3, <1>0 DEF RevokeEngagement, MembershipTypeOK
    <3> QED
      BY <3>1, <3>2, <3>3
  <2> QED
    BY <2>1, <1>0, <1>1 DEF MembershipTypeOK
<1>3. InviteInv'
  BY <1>1, <1>2 DEF MembershipInv, InviteInv, InviteGrantsOnce, Carries
<1>4. OwnerInv'
  <2>1. /\ \A o \in Orgs, v \in Users : Owns(o, v) => Owns(o, v)'
        /\ \A o \in Orgs : Exists(o)' => Exists(o) \/ \E v \in Users : Owns(o, v)'
    BY <1>1 DEF Owns, Exists
  <2> QED
    BY <2>1, <1>0, <1>1, OwnersKept DEF MembershipInv
<1> QED
  BY <1>3, <1>4 DEF MembershipInv

LEMMA InviteKeeps ==
  ASSUME MembershipAssumption, MembershipInv, NEW i \in Invites, NEW o \in Orgs, Invite(i, o)
  PROVE  MembershipInv'
<1>0. MembershipTypeOK /\ InviteGrantsOnce
  BY DEF MembershipInv, InviteInv
<1>1. /\ invites[i].status = "unsent"
      /\ invites' = [invites EXCEPT ![i].status = "sent", ![i].org = o]
      /\ UNCHANGED <<staff, creator, engaged, assigned, tokenLock, requests, raced>>
  BY DEF Invite
<1>2. /\ invites' \in [Invites -> [status : {"unsent", "sent", "accepted"}, org : Orgs, grants : Nat]]
      /\ invites'[i].status = "sent" /\ invites'[i].grants = invites[i].grants
      /\ \A j \in Invites : j # i => invites'[j] = invites[j]
  <2> DEFINE Invitation == [status : {"unsent", "sent", "accepted"}, org : Orgs, grants : Nat]
             sent       == [invites EXCEPT ![i].status = "sent"]
  <2>1. /\ sent \in [Invites -> Invitation]
        /\ sent[i].status = "sent" /\ sent[i].grants = invites[i].grants
        /\ \A j \in Invites : j # i => sent[j] = invites[j]
    <3>1. invites \in [Invites -> Invitation]
      BY <1>0 DEF MembershipTypeOK
    <3> DEFINE x == [invites[i] EXCEPT !.status = "sent"]
    <3>2. invites[i] \in Invitation
      BY <3>1
    <3>3. x \in Invitation /\ x.status = "sent" /\ x.grants = invites[i].grants
      BY <3>2
    <3> HIDE DEF x, Invitation
    <3>4. sent = [invites EXCEPT ![i] = x]
      BY DEF x
    <3> QED
      BY <3>1, <3>3, <3>4
  <2>2. invites' = [sent EXCEPT ![i].org = o]
    BY <1>1
  <2> HIDE DEF sent
  <2>3. invites' \in [Invites -> Invitation]
    BY <2>1, <2>2
  <2> QED
    BY <2>1, <2>2, <2>3
<1>3. InviteInv'
  <2>1. MembershipTypeOK'
    BY <1>0, <1>1, <1>2 DEF MembershipTypeOK
  <2>2. ASSUME NEW j \in Invites
        PROVE  invites'[j].grants <= 1 /\ (invites'[j].grants = 1 <=> invites'[j].status = "accepted")
    <3>1. invites[j].grants <= 1 /\ (invites[j].grants = 1 <=> invites[j].status = "accepted")
      BY <1>0 DEF InviteGrantsOnce
    <3>2. CASE j = i
      BY <3>1, <3>2, <1>1, <1>2
    <3>3. CASE j # i
      BY <3>1, <3>3, <1>2
    <3> QED
      BY <3>2, <3>3
  <2>3. InviteGrantsOnce'
    BY <2>2 DEF InviteGrantsOnce
  <2>4. ASSUME NEW r \in Requests
        PROVE  Carries(r)'
    <3>1. Carries(r)
      BY DEF MembershipInv, InviteInv
    <3> QED
      BY <3>1, <1>1, <1>2 DEF Carries
  <2> QED
    BY <2>1, <2>3, <2>4 DEF InviteInv
<1>4. OwnerInv'
  <2>1. /\ \A x \in Orgs, v \in Users : Owns(x, v) => Owns(x, v)'
        /\ \A x \in Orgs : Exists(x)' => Exists(x) \/ \E v \in Users : Owns(x, v)'
    BY <1>1 DEF Owns, Exists
  <2> QED
    BY <2>1, <1>0, <1>1, OwnersKept DEF MembershipInv
<1> QED
  BY <1>3, <1>4 DEF MembershipInv

\* The lock makes the reader of an invitation the only one.
LEMMA LockTokenKeeps ==
  ASSUME MembershipAssumption, MembershipInv, NEW i \in Invites, NEW r \in Requests, LockToken(r, i)
  PROVE  MembershipInv'
<1>0. MembershipTypeOK /\ InviteGrantsOnce
  BY DEF MembershipInv, InviteInv
<1>1. PICK f \in Firms \cup {NoFirm} : requests' = [requests EXCEPT ![r] =
        [op |-> i, org |-> invites[i].org, user |-> Recipient[i], firm |-> f]]
  BY DEF LockToken
<1>2. /\ tokenLock[i] = "free" /\ invites[i].status = "sent"
      /\ tokenLock' = [tokenLock EXCEPT ![i] = r]
      /\ UNCHANGED <<staff, creator, invites, engaged, assigned, raced>>
  BY DEF LockToken
<1> DEFINE q == [op |-> i, org |-> invites[i].org, user |-> Recipient[i], firm |-> f]
<1>3. q \in RequestRow /\ q.op = i /\ q.user \in Users
  BY <1>0 DEF RequestRow, MembershipTypeOK, MembershipAssumption, Invites
<1> HIDE DEF q
<1>4. /\ requests' \in [Requests -> RequestRow] /\ requests'[r] = q
      /\ \A p \in Requests : p # r => requests'[p] = requests[p]
  BY <1>0, <1>1, <1>3, RequestTyped DEF q
<1>5. /\ tokenLock' \in [Invites -> Requests \cup {"free"}] /\ tokenLock'[i] = r
      /\ \A j \in Invites : j # i => tokenLock'[j] = tokenLock[j]
  BY <1>0, <1>2 DEF MembershipTypeOK
<1>6. InviteInv'
  <2>1. MembershipTypeOK'
    BY <1>0, <1>2, <1>4, <1>5 DEF MembershipTypeOK, RequestRow
  <2>2. InviteGrantsOnce'
    BY <1>0, <1>2 DEF InviteGrantsOnce
  <2>3. ASSUME NEW p \in Requests
        PROVE  Carries(p)'
    <3>1. CASE p = r
      BY <3>1, <1>2, <1>3, <1>4, <1>5 DEF Carries
    <3>2. CASE p # r
      <4>1. requests'[p] = requests[p] /\ Carries(p)
        BY <3>2, <1>4 DEF MembershipInv, InviteInv
      <4>2. requests[p].op # i
        BY <4>1, <1>2 DEF Carries, MembershipAssumption
      <4> QED
        BY <4>1, <4>2, <1>2, <1>5 DEF Carries
    <3> QED
      BY <3>1, <3>2
  <2> QED
    BY <2>1, <2>2, <2>3 DEF InviteInv
<1>7. OwnerInv'
  <2>0. i # "remove"
    BY DEF MembershipAssumption, Invites
  <2>1. /\ \A x \in Orgs, v \in Users : Owns(x, v) => Owns(x, v)'
        /\ \A x \in Orgs : Exists(x)' => Exists(x) \/ \E v \in Users : Owns(x, v)'
    BY <1>2 DEF Owns, Exists
  <2>2. \A p \in Requests : requests'[p].op = "remove" => requests'[p] = requests[p]
    BY <2>0, <1>3, <1>4
  <2> QED
    BY <2>1, <2>2, <1>0, <1>2, OwnersKept DEF MembershipInv
<1> QED
  BY <1>6, <1>7 DEF MembershipInv

\* The invitation a request carries is answered or refused: the lock goes with it.
LEMMA AnswerInvites ==
  ASSUME MembershipAssumption, MembershipInv, NEW r \in Requests, NEW i \in Invites,
         requests[r].op = i, Finish(r),
         tokenLock' = [tokenLock EXCEPT ![i] = "free"],
         \/ UNCHANGED invites
         \/ invites' = [invites EXCEPT ![i].status = "accepted", ![i].grants = @ + 1],
         MembershipTypeOK'
  PROVE  InviteInv'
<1>0. MembershipTypeOK /\ InviteGrantsOnce
  BY DEF MembershipInv, InviteInv
<1>1. tokenLock[i] = r /\ invites[i].status = "sent"
  BY DEF MembershipInv, InviteInv, Carries
<1>2. /\ requests'[r].op = "none"
      /\ \A p \in Requests : p # r => requests'[p] = requests[p]
  BY <1>0, FinishedRequests
<1>3. \A j \in Invites : j # i => tokenLock'[j] = tokenLock[j] /\ invites'[j] = invites[j]
  BY <1>0 DEF MembershipTypeOK
<1>4. ASSUME NEW j \in Invites
      PROVE  invites'[j].grants <= 1 /\ (invites'[j].grants = 1 <=> invites'[j].status = "accepted")
  <2>1. /\ invites[j].grants <= 1 /\ invites[j].grants \in Nat
        /\ invites[j].grants = 1 <=> invites[j].status = "accepted"
    BY <1>0 DEF InviteGrantsOnce, MembershipTypeOK
  <2>2. CASE j = i /\ invites' = [invites EXCEPT ![i].status = "accepted", ![i].grants = @ + 1]
    <3>1. invites'[i].status = "accepted" /\ invites'[i].grants = invites[i].grants + 1
      BY <2>2, <1>0 DEF MembershipTypeOK
    <3>2. invites[i].grants = 0
      BY <2>1, <2>2, <1>1
    <3> QED
      BY <2>2, <3>1, <3>2
  <2>3. CASE invites'[j] = invites[j]
    BY <2>1, <2>3
  <2> QED
    BY <2>2, <2>3, <1>3
<1>5. InviteGrantsOnce'
  BY <1>4 DEF InviteGrantsOnce
<1>6. ASSUME NEW p \in Requests
      PROVE  Carries(p)'
  <2>1. CASE p = r
    <3>1. "none" \notin Invites
      BY DEF MembershipAssumption, Invites
    <3> QED
      BY <2>1, <3>1, <1>2 DEF Carries
  <2>2. CASE p # r
    <3>1. requests'[p] = requests[p] /\ Carries(p)
      BY <2>2, <1>2 DEF MembershipInv, InviteInv
    <3>2. requests[p].op # i
      BY <2>2, <3>1, <1>1 DEF Carries
    <3> QED
      BY <3>1, <3>2, <1>3 DEF Carries
  <2> QED
    BY <2>1, <2>2
<1> QED
  BY <1>5, <1>6 DEF InviteInv

LEMMA RefuseKeeps ==
  ASSUME MembershipAssumption, MembershipInv, NEW r \in Requests, NEW i \in Invites, RefuseClient(r, i)
  PROVE  MembershipInv'
<1>0. MembershipTypeOK
  BY DEF MembershipInv, InviteInv
<1>1. /\ requests[r].op = i /\ Finish(r)
      /\ tokenLock' = [tokenLock EXCEPT ![i] = "free"]
      /\ UNCHANGED <<staff, creator, invites, engaged, assigned, raced>>
  BY DEF RefuseClient
<1>2. /\ requests' \in [Requests -> RequestRow] /\ requests'[r].op = "none"
      /\ \A p \in Requests : p # r => requests'[p] = requests[p]
  BY <1>0, <1>1, FinishedRequests
<1>3. MembershipTypeOK'
  BY <1>0, <1>1, <1>2 DEF MembershipTypeOK, RequestRow
<1>4. InviteInv'
  BY <1>1, <1>3, AnswerInvites
<1>5. OwnerInv'
  <2>1. /\ \A x \in Orgs, v \in Users : Owns(x, v) => Owns(x, v)'
        /\ \A x \in Orgs : Exists(x)' => Exists(x) \/ \E v \in Users : Owns(x, v)'
    BY <1>1 DEF Owns, Exists
  <2>2. \A p \in Requests : requests'[p].op = "remove" => requests'[p] = requests[p]
    BY <1>2
  <2> QED
    BY <2>1, <2>2, <1>0, <1>1, OwnersKept DEF MembershipInv
<1> QED
  BY <1>4, <1>5 DEF MembershipInv

LEMMA AcceptedTyped ==
  ASSUME MembershipTypeOK, NEW i \in Invites,
         invites' = [invites EXCEPT ![i].status = "accepted", ![i].grants = @ + 1]
  PROVE  invites' \in [Invites -> [status : {"unsent", "sent", "accepted"}, org : Orgs, grants : Nat]]
<1> DEFINE Invitation == [status : {"unsent", "sent", "accepted"}, org : Orgs, grants : Nat]
           answered   == [invites EXCEPT ![i].status = "accepted"]
<1>1. answered \in [Invites -> Invitation]
  BY DEF MembershipTypeOK
<1>2. invites' = [answered EXCEPT ![i].grants = @ + 1]
  OBVIOUS
<1> HIDE DEF answered
<1> QED
  BY <1>1, <1>2

LEMMA AcceptMemberKeeps ==
  ASSUME MembershipAssumption, MembershipInv,
         NEW r \in Requests, NEW i \in MemberInvites, AcceptMember(r, i)
  PROVE  MembershipInv'
<1> DEFINE o == requests[r].org
           u == requests[r].user
           m == Joined(o, u)
<1>0. MembershipTypeOK /\ i \in Invites
  BY DEF MembershipInv, InviteInv, Invites
<1>1. /\ requests[r].op = i /\ Finish(r)
      /\ tokenLock' = [tokenLock EXCEPT ![i] = "free"]
      /\ invites' = [invites EXCEPT ![i].status = "accepted", ![i].grants = @ + 1]
      /\ staff' = [staff EXCEPT ![o][u] = m]
      /\ UNCHANGED <<creator, engaged, assigned, raced>>
  BY DEF AcceptMember, Accepted
<1>2. o \in Orgs /\ u \in Users
  BY <1>0, <1>1 DEF MembershipInv, InviteInv, Carries, MembershipTypeOK, MembershipAssumption, Invites
<1>3. /\ m \in [role : Roles, active : BOOLEAN] /\ m.active
      /\ staff[o][u].role = OwnerRole(o) => m.role = OwnerRole(o)
  <2>1. staff[o][u].role \in Roles
    BY <1>0, <1>2 DEF MembershipTypeOK
  <2> QED
    BY <2>1 DEF Joined, Roles, OwnerRole
<1> HIDE DEF m
<1>4. /\ staff' \in [Orgs -> [Users -> [role : Roles, active : BOOLEAN]]]
      /\ staff'[o][u] = m
      /\ \A x \in Orgs, v \in Users : (x # o \/ v # u) => staff'[x][v] = staff[x][v]
  BY <1>0, <1>1, <1>2, <1>3 DEF MembershipTypeOK
<1>5. /\ requests' \in [Requests -> RequestRow] /\ requests'[r].op = "none"
      /\ \A p \in Requests : p # r => requests'[p] = requests[p]
  BY <1>0, <1>1, FinishedRequests
<1>6. MembershipTypeOK'
  <2>1. invites' \in [Invites -> [status : {"unsent", "sent", "accepted"}, org : Orgs, grants : Nat]]
    BY <1>0, <1>1, AcceptedTyped
  <2> QED
    BY <2>1, <1>0, <1>1, <1>4, <1>5 DEF MembershipTypeOK, RequestRow
<1>7. InviteInv'
  BY <1>0, <1>1, <1>6, AnswerInvites
<1>8. OwnerInv'
  <2>1. ASSUME NEW x \in Orgs, NEW v \in Users, Owns(x, v)
        PROVE  Owns(x, v)'
    <3>1. CASE x = o /\ v = u
      BY <3>1, <2>1, <1>3, <1>4 DEF Owns
    <3>2. CASE x # o \/ v # u
      BY <3>2, <2>1, <1>4 DEF Owns
    <3> QED
      BY <3>1, <3>2
  <2>2. \A x \in Orgs : Exists(x)' => Exists(x)
    BY <1>1 DEF Exists
  <2>3. \A p \in Requests : requests'[p].op = "remove" => requests'[p] = requests[p]
    BY <1>5
  <2> QED
    BY <2>1, <2>2, <2>3, <1>0, <1>1, OwnersKept DEF MembershipInv
<1> QED
  BY <1>7, <1>8 DEF MembershipInv

\* The CPA who founds a firm is its admin; one who has a firm keeps the role.
LEMMA AcceptClientKeeps ==
  ASSUME MembershipAssumption, MembershipInv,
         NEW r \in Requests, NEW i \in ClientInvites, AcceptClient(r, i)
  PROVE  MembershipInv'
<1> DEFINE u == requests[r].user
           founds == requests[r].firm = NoFirm
           Admin == [role |-> "firm_admin", active |-> TRUE]
<1>0. MembershipTypeOK /\ i \in Invites
  BY DEF MembershipInv, InviteInv, Invites
<1>1. /\ requests[r].op = i /\ Finish(r)
      /\ tokenLock' = [tokenLock EXCEPT ![i] = "free"]
      /\ invites' = [invites EXCEPT ![i].status = "accepted", ![i].grants = @ + 1]
      /\ UNCHANGED raced
  BY DEF AcceptClient, Accepted
<1>2. u \in Users /\ requests[r].firm \in Firms \cup {NoFirm}
  BY <1>0, <1>1 DEF MembershipInv, InviteInv, Carries, MembershipTypeOK, MembershipAssumption, Invites
<1>3. PICK f \in Firms :
        /\ creator' = [creator EXCEPT ![f] = IF founds THEN u ELSE @]
        /\ staff' = [staff EXCEPT ![f][u] = IF founds THEN Admin ELSE @]
        /\ engaged' = [engaged EXCEPT ![f] = "active"]
        /\ assigned' = assigned \cup {<<f, u>>}
  <2>1. PICK f \in IF requests[r].firm # NoFirm THEN {requests[r].firm}
                   ELSE {x \in Firms : creator[x] = NoUser} :
          /\ creator' = [creator EXCEPT ![f] = IF founds THEN u ELSE @]
          /\ staff' = [staff EXCEPT ![f][u] = IF founds THEN Admin ELSE @]
          /\ engaged' = [engaged EXCEPT ![f] = "active"]
          /\ assigned' = assigned \cup {<<f, u>>}
    BY DEF AcceptClient
  <2>2. f \in Firms
    BY <1>2
  <2> QED
    BY <2>1, <2>2
<1>4. f \in Orgs /\ OwnerRole(f) = "firm_admin"
  BY DEF Orgs, OwnerRole, Business, MembershipAssumption
<1> DEFINE m == IF founds THEN Admin ELSE staff[f][u]
<1>5. /\ m \in [role : Roles, active : BOOLEAN]
      /\ founds => m.role = "firm_admin" /\ m.active
      /\ ~founds => m = staff[f][u]
  <2>1. staff[f][u] \in [role : Roles, active : BOOLEAN]
    BY <1>0, <1>2, <1>4 DEF MembershipTypeOK
  <2>2. Admin \in [role : Roles, active : BOOLEAN]
    BY DEF Roles
  <2> QED
    BY <2>1, <2>2
<1>6. staff' = [staff EXCEPT ![f][u] = m]
  BY <1>3
<1> HIDE DEF m
<1>7. /\ staff' \in [Orgs -> [Users -> [role : Roles, active : BOOLEAN]]]
      /\ staff'[f][u] = m
      /\ \A x \in Orgs, v \in Users : (x # f \/ v # u) => staff'[x][v] = staff[x][v]
  BY <1>0, <1>2, <1>4, <1>5, <1>6 DEF MembershipTypeOK
<1>8. /\ requests' \in [Requests -> RequestRow] /\ requests'[r].op = "none"
      /\ \A p \in Requests : p # r => requests'[p] = requests[p]
  BY <1>0, <1>1, FinishedRequests
<1>9. /\ creator' \in [Firms -> Users \cup {NoUser}]
      /\ \A x \in Firms : x # f \/ ~founds => creator'[x] = creator[x]
  BY <1>0, <1>2, <1>3 DEF MembershipTypeOK
<1>10. MembershipTypeOK'
  <2>1. invites' \in [Invites -> [status : {"unsent", "sent", "accepted"}, org : Orgs, grants : Nat]]
        /\ tokenLock' \in [Invites -> Requests \cup {"free"}]
    BY <1>0, <1>1, AcceptedTyped DEF MembershipTypeOK
  <2>2. engaged' \in [Firms -> {"none", "active", "revoked"}]
    BY <1>0, <1>3 DEF MembershipTypeOK
  <2>3. assigned' \in SUBSET (Firms \X Users)
    BY <1>0, <1>2, <1>3 DEF MembershipTypeOK
  <2> QED
    BY <2>1, <2>2, <2>3, <1>0, <1>1, <1>7, <1>8, <1>9 DEF MembershipTypeOK, RequestRow
<1>11. InviteInv'
  BY <1>0, <1>1, <1>10, AnswerInvites
<1>12. OwnerInv'
  <2>1. ASSUME NEW x \in Orgs, NEW v \in Users, Owns(x, v)
        PROVE  Owns(x, v)'
    <3>1. CASE x = f /\ v = u
      BY <3>1, <2>1, <1>4, <1>5, <1>7 DEF Owns
    <3>2. CASE x # f \/ v # u
      BY <3>2, <2>1, <1>7 DEF Owns
    <3> QED
      BY <3>1, <3>2
  <2>2. ASSUME NEW x \in Orgs, Exists(x)'
        PROVE  Exists(x) \/ \E v \in Users : Owns(x, v)'
    <3>1. CASE x = f /\ founds
      <4>1. staff'[f][u].role = "firm_admin" /\ staff'[f][u].active
        BY <3>1, <1>5, <1>7
      <4>2. PICK v \in Users : v = u
        BY <1>2
      <4>3. Owns(x, v)'
        BY <3>1, <4>1, <4>2, <1>4 DEF Owns
      <4> QED
        BY <4>3
    <3>2. CASE x # f \/ ~founds
      BY <3>2, <2>2, <1>9 DEF Exists, Orgs
    <3> QED
      BY <3>1, <3>2
  <2>3. \A p \in Requests : requests'[p].op = "remove" => requests'[p] = requests[p]
    BY <1>8
  <2> QED
    BY <2>1, <2>2, <2>3, <1>0, <1>1, OwnersKept DEF MembershipInv
<1> QED
  BY <1>11, <1>12 DEF MembershipInv

LEMMA MembershipInitially ==
  ASSUME MembershipAssumption, MembershipInit
  PROVE  MembershipInv
<1>1. MembershipTypeOK
  <2>1. staff \in [Orgs -> [Users -> [role : Roles, active : BOOLEAN]]]
    BY DEF MembershipInit, Roles, Nobody
  <2>2. requests \in [Requests -> RequestRow]
    BY NoRequestTyped DEF MembershipInit
  <2>3. invites \in [Invites -> [status : {"unsent", "sent", "accepted"}, org : Orgs, grants : Nat]]
    BY DEF MembershipInit, Orgs
  <2> QED
    BY <2>1, <2>2, <2>3 DEF MembershipInit, MembershipTypeOK, RequestRow
<1>2. InviteGrantsOnce
  BY DEF MembershipInit, InviteGrantsOnce
<1>3. \A r \in Requests : requests[r].op = "none"
  BY NoRequestTyped DEF MembershipInit
<1>4. \A r \in Requests : Carries(r)
  BY <1>3 DEF Carries, MembershipAssumption, Invites
<1>5. OneRemoves /\ \A r \in Requests : LeavesAnOwner(r)
  BY <1>3 DEF OneRemoves, LeavesAnOwner
<1>6. ASSUME NEW o \in Orgs, Exists(o)
      PROVE  \E u \in Users : Owns(o, u)
  <2>1. o = Business
    BY <1>6 DEF Exists, MembershipInit, Orgs
  <2>2. Owns(o, Founder)
    BY <2>1 DEF Owns, OwnerRole, MembershipInit, MembershipAssumption
  <2> QED
    BY <2>2 DEF MembershipAssumption
<1> QED
  BY <1>1, <1>2, <1>4, <1>5, <1>6 DEF MembershipInv, InviteInv, OwnerInv

LEMMA MembershipStep ==
  ASSUME MembershipAssumption, MembershipInv, [MembershipNext]_membershipVars
  PROVE  MembershipInv'
<1>1. CASE UNCHANGED membershipVars
  <2>1. UNCHANGED <<staff, creator, invites, engaged, assigned, tokenLock, requests, raced>>
    BY <1>1 DEF membershipVars
  <2>2. MembershipTypeOK'
    BY <2>1 DEF MembershipInv, InviteInv, MembershipTypeOK
  <2>3. InviteInv'
    BY <2>1, <2>2 DEF MembershipInv, InviteInv, InviteGrantsOnce, Carries
  <2>4. /\ \A o \in Orgs, v \in Users : Owns(o, v) => Owns(o, v)'
        /\ \A o \in Orgs : Exists(o)' => Exists(o) \/ \E v \in Users : Owns(o, v)'
    BY <2>1 DEF Owns, Exists
  <2> QED
    BY <2>1, <2>3, <2>4, OwnersKept DEF MembershipInv, InviteInv
<1>2. CASE \E r \in Requests, o \in Orgs, a, u \in Users :
             BeginRemove(r, a, o, u) \/ BeginTransfer(r, a, o, u)
  BY <1>2, BeginKeeps
<1>3. CASE \E r \in Requests : EndRemove(r) \/ EndTransfer(r)
  BY <1>3, EndKeeps
<1>4. CASE \E i \in Invites, o \in Orgs : Invite(i, o)
  BY <1>4, InviteKeeps
<1>5. CASE \E r \in Requests, i \in Invites : LockToken(r, i)
  BY <1>5, LockTokenKeeps
<1>6. CASE \E r \in Requests, i \in MemberInvites : AcceptMember(r, i)
  BY <1>6, AcceptMemberKeeps
<1>7. CASE \E r \in Requests, i \in ClientInvites : AcceptClient(r, i) \/ RefuseClient(r, i)
  BY <1>7, AcceptClientKeeps, RefuseKeeps DEF Invites
<1>8. CASE \/ \E a, u \in Users, f \in Firms : AssignCpa(a, f, u) \/ UnassignCpa(a, f, u)
           \/ \E a \in Users, f \in Firms : RevokeEngagement(a, f)
  BY <1>8, EngagementKeeps
<1> QED
  BY <1>1, <1>2, <1>3, <1>4, <1>5, <1>6, <1>7, <1>8 DEF MembershipNext

LEMMA MembershipInvHolds ==
  ASSUME MembershipInv
  PROVE  MembershipHolds
<1>1. MembershipTypeOK
  BY DEF MembershipInv, InviteInv
<1>2. KeepsAnOwnerAlone
  BY <1>1, OwnersAre DEF KeepsAnOwnerAlone, MembershipInv, OwnerInv
<1> QED
  BY <1>2 DEF MembershipHolds, MembershipInv, InviteInv

\* For any users, firms, invitations and calls in flight: while no two removals
\* have overlapped, every organisation keeps an active owner or admin, whatever
\* is transferred, accepted or revoked in between; and an invitation grants once.
THEOREM MembershipAlwaysHolds ==
  ASSUME MembershipAssumption PROVE MembershipSpec => []MembershipHolds
<1>1. MembershipInit => MembershipInv
  BY MembershipInitially
<1>2. MembershipInv /\ [MembershipNext]_membershipVars => MembershipInv'
  BY MembershipStep
<1>3. MembershipInv => MembershipHolds
  BY MembershipInvHolds
<1> QED
  BY <1>1, <1>2, <1>3, PTL DEF MembershipSpec

-----------------------------------------------------------------------------
(* Payouts: the deposits of the provider's own windows and the transfers they  *)
(* hold correspond one to one, so their sums are the same whatever the split   *)
(* of a window comes to.                                                       *)

\* A payout of the provider's own window with one transfer carries the id of
\* that transfer and what it moved.
MovesOne(p) ==
  p.path = "api" /\ Cardinality(p.transfers) = 1 =>
    \E t \in ToSet(history) : /\ IsOutboundTransfer(t)
                              /\ p.transfers = {t.id} /\ p.id = t.id
                              /\ p.net = Magnitude(t.gross)

\* An id names one transfer.
TransfersDiffer ==
  \A t, u \in ToSet(history) : t.event = "transfer" /\ t.id = u.id => t = u

\* An id was posted once, whatever became of the entry.
PostedOnce ==
  /\ \E S : payoutEntries \in Seq(S)
  /\ \A i \in DOMAIN payoutEntries :
       DOMAIN payoutEntries[i] = {"id", "path", "gross", "net", "transfers", "status"}
  /\ \A i, j \in DOMAIN payoutEntries : payoutEntries[i].id = payoutEntries[j].id => i = j

PayoutsInv ==
  /\ history \in Seq(Txns) /\ TransfersDiffer /\ PostedOnce
  /\ DOMAIN payoutSessions = PayoutSessions
  /\ \A s \in PayoutSessions : MovesOne(payoutSessions[s])
  /\ \A i \in DOMAIN payoutEntries : MovesOne(payoutEntries[i])

LEMMA TxnShape ==
  ASSUME PayoutsAssumption, NEW t \in Txns
  PROVE  t.gross \in Int /\ (t.event = "transfer" <=> t.id # NoId)
  BY DEF PayoutsAssumption, Txns

\* The members of a sequence.
LEMMA MembersOf ==
  ASSUME NEW S, NEW q \in Seq(S)
  PROVE  /\ DOMAIN q = 1..Len(q) /\ Len(q) \in Nat
         /\ ToSet(q) = {q[i] : i \in DOMAIN q} /\ ToSet(q) \subseteq S
         /\ IsFiniteSet(ToSet(q))
<1>1. DOMAIN q = 1..Len(q) /\ Len(q) \in Nat
  OBVIOUS
<1>2. ToSet(q) = {q[i] : i \in DOMAIN q} /\ ToSet(q) \subseteq S
  BY DEF ToSet
<1>3. IsFiniteSet(DOMAIN q)
  BY <1>1, FS_Interval
<1>4. q \in Surjection(DOMAIN q, ToSet(q))
  BY <1>2 DEF Surjection
<1> QED
  BY <1>1, <1>2, <1>3, <1>4, FS_Surjection

LEMMA PayoutsInitially ==
  ASSUME PayoutsAssumption, PayoutsInit
  PROVE  PayoutsInv
<1>1. history = <<>> /\ payoutEntries = <<>> /\ ToSet(history) = {}
  BY DEF PayoutsInit, ToSet
<1>2. \A s \in PayoutSessions : payoutSessions[s].path = "none"
  BY DEF PayoutsInit, NoPayout
<1>3. PostedOnce
  <2>1. payoutEntries \in Seq({})
    BY <1>1
  <2> QED
    BY <1>1, <2>1 DEF PostedOnce
<1> QED
  BY <1>1, <1>2, <1>3 DEF PayoutsInit, PayoutsInv, TransfersDiffer, MovesOne

\* A longer history takes nothing from what was read of a shorter one.
LEMMA PayoutsTransact ==
  ASSUME PayoutsAssumption, PayoutsInv, NEW t \in Txns, Transact(t)
  PROVE  PayoutsInv'
<1>1. /\ history' \in Seq(Txns) /\ ToSet(history') = ToSet(history) \cup {t}
      /\ UNCHANGED <<payoutSessions, payoutEntries>>
  <2>1. history \in Seq(Txns) /\ history' = Append(history, t) /\ UNCHANGED <<payoutSessions, payoutEntries>>
    BY DEF PayoutsInv, Transact
  <2>2. history' \in Seq(Txns)
    BY <2>1
  <2>3. /\ Len(history') = Len(history) + 1 /\ history'[Len(history) + 1] = t
        /\ \A i \in 1..Len(history) : history'[i] = history[i]
    BY <2>1
  <2>4. /\ DOMAIN history = 1..Len(history) /\ Len(history) \in Nat /\ DOMAIN history' = 1..(Len(history) + 1)
        /\ ToSet(history) = {history[i] : i \in DOMAIN history}
        /\ ToSet(history') = {history'[i] : i \in DOMAIN history'}
    BY <2>1, <2>2, <2>3 DEF ToSet
  <2>5. ToSet(history') = ToSet(history) \cup {t}
    BY <2>3, <2>4
  <2> QED
    BY <2>1, <2>2, <2>5
<1>2. TransfersDiffer'
  <2> SUFFICES ASSUME NEW x \in ToSet(history'), NEW y \in ToSet(history'),
                      x.event = "transfer", x.id = y.id
               PROVE  x = y
    BY DEF TransfersDiffer
  <2>1. x \in Txns /\ y \in Txns
    BY <1>1, MembersOf
  <2>2. y.event = "transfer"
    BY <2>1, TxnShape
  <2>3. \A h \in ToSet(history) : h.event = "transfer" => h.id # t.id
    BY DEF Transact
  <2>4. CASE x \in ToSet(history) /\ y \in ToSet(history)
    BY <2>4 DEF PayoutsInv, TransfersDiffer
  <2> QED
    BY <1>1, <2>2, <2>3, <2>4
<1>3. \A p : MovesOne(p) => MovesOne(p)'
  BY <1>1 DEF MovesOne
<1>4. PostedOnce'
  BY <1>1 DEF PayoutsInv, PostedOnce
<1> QED
  BY <1>1, <1>2, <1>3, <1>4 DEF PayoutsInv, MovesOne

\* What the provider's own window reports is what its transfers moved.
LEMMA PulledMovesOne ==
  ASSUME PayoutsAssumption, PayoutsInv, NEW to \in DOMAIN history, NEW from \in 1..to,
         NEW window, window = SubSeq(history, from, to),
         Reconciles("api", window), Transfers(window) # {},
         Cardinality({t.id : t \in Transfers(window)}) = 1
  PROVE  \E t \in ToSet(history) :
            /\ IsOutboundTransfer(t) /\ {u.id : u \in Transfers(window)} = {t.id}
            /\ paypalCanonicalPayoutId(window) = t.id
            /\ NetOf(componentsFromRows("api", window)) = Magnitude(t.gross)
<1>1. history \in Seq(Txns) /\ DOMAIN history = 1..Len(history) /\ Len(history) \in Nat
  BY MembersOf DEF PayoutsInv
<1>2. window \in Seq(Txns) /\ ToSet(window) \subseteq ToSet(history)
  <2>1. from \in Int /\ to \in Int /\ \A i \in from..to : history[i] \in ToSet(history) /\ i \in DOMAIN history
    <3>1. ToSet(history) = {history[i] : i \in DOMAIN history}
      BY <1>1, MembersOf
    <3> QED
      BY <1>1, <3>1
  <2>2. window \in Seq(ToSet(history))
    BY <2>1, SubSeqProperties
  <2>3. ToSet(window) \subseteq ToSet(history) /\ ToSet(history) \subseteq Txns
    BY <1>1, <2>2, MembersOf
  <2>4. window \in Seq(Txns)
    BY <1>1, <2>1, SubSeqProperties
  <2> QED
    BY <2>3, <2>4
<1> DEFINE Ids == {u.id : u \in Transfers(window)}
<1>3. PICK t \in Transfers(window) : TRUE
  OBVIOUS
<1>4. t \in ToSet(window) /\ t \in ToSet(history) /\ IsOutboundTransfer(t) /\ t \in Txns
  BY <1>1, <1>2, <1>3, MembersOf DEF Transfers
<1>5. Ids = {t.id}
  <2>1. PICK i : Ids = {i}
    <3>1. IsFiniteSet(Transfers(window))
      <4>1. IsFiniteSet(ToSet(window)) /\ Transfers(window) \subseteq ToSet(window)
        BY <1>2, MembersOf DEF Transfers
      <4> QED
        BY <4>1, FS_Subset
    <3>2. [u \in Transfers(window) |-> u.id] \in Surjection(Transfers(window), Ids)
      BY DEF Surjection
    <3>3. IsFiniteSet(Ids)
      BY <3>1, <3>2, FS_Surjection
    <3> QED
      BY <3>3, FS_Singleton
  <2> QED
    BY <1>3, <2>1
<1>6. Transfers(window) = {t}
  <2> SUFFICES ASSUME NEW u \in Transfers(window) PROVE u = t
    BY <1>3
  <2>1. u \in ToSet(history) /\ u.event = "transfer" /\ u.id = t.id
    BY <1>2, <1>5 DEF Transfers, IsOutboundTransfer
  <2> QED
    BY <1>4, <2>1 DEF PayoutsInv, TransfersDiffer
<1>7. paypalCanonicalPayoutId(window) = t.id
  <2>1. t.id \in Nat
    BY <1>4 DEF Txns, PayoutsAssumption, NoId
  <2> HIDE DEF Ids
  <2>2. paypalCanonicalPayoutId(window) = CHOOSE i \in Ids : \A j \in Ids : i <= j
    BY DEF paypalCanonicalPayoutId, Ids
  <2> QED
    BY <1>5, <2>1, <2>2
<1>8. Left({t}) = Magnitude(t.gross)
  <2> DEFINE f == [u \in {t} |-> Magnitude(u.gross)]
  <2>1. t.gross \in Int
    BY <1>4, TxnShape
  <2>2. f[t] = Magnitude(t.gross) /\ Magnitude(t.gross) \in Int /\ DOMAIN f = {t}
    BY <2>1 DEF Magnitude
  <2> HIDE DEF f
  <2>3. SumFunctionOnSet(f, {t}) = Magnitude(t.gross)
    BY <2>2, SumOfSingle
  <2>4. Left({t}) = SumFunctionOnSet(f, {t})
    BY <2>2 DEF Left, SumFunction, f
  <2> QED
    BY <2>3, <2>4
<1>9. NetOf(componentsFromRows("api", window)) = Magnitude(t.gross)
  BY <1>6, <1>8 DEF Reconciles, ReportedNet
<1> QED
  BY <1>4, <1>5, <1>7, <1>9

LEMMA PayoutsPull ==
  ASSUME PayoutsAssumption, PayoutsInv, NEW s \in PayoutSessions, NEW path \in Paths,
         NEW to \in DOMAIN history, NEW from \in 1..to, Pull(s, path, from, to)
  PROVE  PayoutsInv'
<1> DEFINE window == SubSeq(history, from, to)
           split  == componentsFromRows(path, window)
           p      == [path |-> path, id |-> paypalCanonicalPayoutId(window), gross |-> split.gross,
                      net |-> NetOf(split), transfers |-> {t.id : t \in Transfers(window)}]
<1>1. /\ Transfers(window) # {} /\ Reconciles(path, window)
      /\ payoutSessions' = [payoutSessions EXCEPT ![s] = p]
      /\ UNCHANGED <<history, payoutEntries>>
  BY DEF Pull
<1>2. p.path = path /\ p.id = paypalCanonicalPayoutId(window) /\ p.net = NetOf(split)
      /\ p.transfers = {t.id : t \in Transfers(window)}
  OBVIOUS
<1>3. \A w, d : w = window /\ d = split => d = componentsFromRows(path, w)
  OBVIOUS
<1>4. MovesOne(p)
  <2> SUFFICES ASSUME path = "api", Cardinality({t.id : t \in Transfers(window)}) = 1
               PROVE  \E t \in ToSet(history) : /\ IsOutboundTransfer(t)
                         /\ {u.id : u \in Transfers(window)} = {t.id}
                         /\ paypalCanonicalPayoutId(window) = t.id
                         /\ NetOf(split) = Magnitude(t.gross)
    <3> HIDE DEF window, split, p
    <3> QED
      BY <1>2 DEF MovesOne
  <2> HIDE DEF window
  <2> QED
    BY <1>1, PulledMovesOne DEF window
<1> HIDE DEF p, window, split
<1>5. /\ DOMAIN payoutSessions' = PayoutSessions
      /\ \A r \in PayoutSessions : payoutSessions'[r] = IF r = s THEN p ELSE payoutSessions[r]
  BY <1>1 DEF PayoutsInv
<1> QED
  BY <1>1, <1>4, <1>5 DEF PayoutsInv, TransfersDiffer, PostedOnce, MovesOne

LEMMA PayoutsPost ==
  ASSUME PayoutsAssumption, PayoutsInv, NEW s \in PayoutSessions, PostPayout(s)
  PROVE  PayoutsInv'
<1> DEFINE p == payoutSessions[s]
           e == [id |-> p.id, path |-> p.path, gross |-> p.gross, net |-> p.net,
                 transfers |-> p.transfers, status |-> "posted"]
<1>1. /\ payoutSessions' = [payoutSessions EXCEPT ![s] = NoPayout] /\ history' = history
      /\ \/ payoutEntries' = payoutEntries
         \/ ~ Recorded(p.id) /\ payoutEntries' = Append(payoutEntries, e)
  BY DEF PostPayout
<1>2. /\ DOMAIN e = {"id", "path", "gross", "net", "transfers", "status"}
      /\ e.id = p.id /\ e.path = p.path /\ e.net = p.net /\ e.transfers = p.transfers
  OBVIOUS
<1>3. MovesOne(e)
  <2>1. MovesOne(p)
    BY DEF PayoutsInv
  <2> HIDE DEF p, e
  <2> QED
    BY <1>2, <2>1 DEF MovesOne
<1> HIDE DEF p, e
<1>4. /\ DOMAIN payoutSessions' = PayoutSessions
      /\ \A r \in PayoutSessions : payoutSessions'[r] = IF r = s THEN NoPayout ELSE payoutSessions[r]
  BY <1>1 DEF PayoutsInv
<1>5. NoPayout.path = "none"
  BY DEF NoPayout
<1>6. PostedOnce' /\ \A i \in DOMAIN payoutEntries' : MovesOne(payoutEntries'[i])
  <2>1. CASE payoutEntries' = payoutEntries
    BY <2>1 DEF PayoutsInv, PostedOnce
  <2>2. CASE ~ Recorded(p.id) /\ payoutEntries' = Append(payoutEntries, e)
    <3>1. PICK S : payoutEntries \in Seq(S)
      BY DEF PayoutsInv, PostedOnce
    <3>2. payoutEntries \in Seq(S \cup {e}) /\ payoutEntries' \in Seq(S \cup {e})
      BY <2>2, <3>1
    <3>3. /\ Len(payoutEntries') = Len(payoutEntries) + 1 /\ payoutEntries'[Len(payoutEntries) + 1] = e
          /\ \A i \in 1..Len(payoutEntries) : payoutEntries'[i] = payoutEntries[i]
      BY <2>2, <3>1
    <3>4. /\ DOMAIN payoutEntries = 1..Len(payoutEntries) /\ Len(payoutEntries) \in Nat
          /\ DOMAIN payoutEntries' = 1..(Len(payoutEntries) + 1)
      BY <3>1, <3>2, <3>3, MembersOf
    <3>5. \A i \in DOMAIN payoutEntries : payoutEntries[i].id # e.id
      <4>1. ToSet(payoutEntries) = {payoutEntries[i] : i \in DOMAIN payoutEntries}
        BY <3>1, MembersOf
      <4> QED
        BY <1>2, <2>2, <4>1 DEF Recorded
    <3>6. \A i \in DOMAIN payoutEntries' :
             \/ i = Len(payoutEntries) + 1 /\ payoutEntries'[i] = e
             \/ i \in DOMAIN payoutEntries /\ payoutEntries'[i] = payoutEntries[i]
      BY <3>3, <3>4
    <3>7. \A i, j \in DOMAIN payoutEntries' : payoutEntries'[i].id = payoutEntries'[j].id => i = j
      BY <3>5, <3>6 DEF PayoutsInv, PostedOnce
    <3>8. \A i \in DOMAIN payoutEntries' :
             /\ DOMAIN payoutEntries'[i] = {"id", "path", "gross", "net", "transfers", "status"}
             /\ MovesOne(payoutEntries'[i])
      BY <1>2, <1>3, <3>6 DEF PayoutsInv, PostedOnce
    <3> QED
      BY <3>2, <3>7, <3>8 DEF PostedOnce
  <2> QED
    BY <1>1, <2>1, <2>2
<1> QED
  BY <1>1, <1>4, <1>5, <1>6 DEF PayoutsInv, TransfersDiffer, MovesOne

LEMMA PayoutsReverse ==
  ASSUME PayoutsAssumption, PayoutsInv, NEW i \in DOMAIN payoutEntries, ReversePayout(i)
  PROVE  PayoutsInv'
<1> DEFINE e == [payoutEntries[i] EXCEPT !.status = "reversed"]
<1>1. payoutEntries' = [payoutEntries EXCEPT ![i] = e] /\ UNCHANGED <<history, payoutSessions>>
  BY DEF ReversePayout
<1>2. DOMAIN payoutEntries[i] = {"id", "path", "gross", "net", "transfers", "status"}
  BY DEF PayoutsInv, PostedOnce
<1>3. /\ DOMAIN e = {"id", "path", "gross", "net", "transfers", "status"}
      /\ e.id = payoutEntries[i].id /\ e.path = payoutEntries[i].path
      /\ e.net = payoutEntries[i].net /\ e.transfers = payoutEntries[i].transfers
  BY <1>2
<1> HIDE DEF e
<1>4. MovesOne(e)
  BY <1>3 DEF PayoutsInv, MovesOne
<1>5. /\ DOMAIN payoutEntries' = DOMAIN payoutEntries
      /\ \A j \in DOMAIN payoutEntries : payoutEntries'[j] = IF j = i THEN e ELSE payoutEntries[j]
  BY <1>1
<1>6. \E S : payoutEntries' \in Seq(S)
  <2>1. PICK S : payoutEntries \in Seq(S)
    BY DEF PayoutsInv, PostedOnce
  <2>2. payoutEntries \in Seq(S \cup {e})
    BY <2>1
  <2>3. payoutEntries' \in Seq(S \cup {e})
    BY <1>1, <2>2
  <2> QED
    BY <2>3
<1>7. PostedOnce'
  BY <1>3, <1>5, <1>6 DEF PayoutsInv, PostedOnce
<1> QED
  BY <1>1, <1>4, <1>5, <1>7 DEF PayoutsInv, TransfersDiffer, MovesOne

LEMMA PayoutsDie ==
  ASSUME PayoutsAssumption, PayoutsInv, NEW s \in PayoutSessions, Die(s)
  PROVE  PayoutsInv'
<1>1. payoutSessions' = [payoutSessions EXCEPT ![s] = NoPayout] /\ UNCHANGED <<history, payoutEntries>>
  BY DEF Die
<1>2. /\ DOMAIN payoutSessions' = PayoutSessions
      /\ \A r \in PayoutSessions : payoutSessions'[r] = IF r = s THEN NoPayout ELSE payoutSessions[r]
  BY <1>1 DEF PayoutsInv
<1>3. NoPayout.path = "none"
  BY DEF NoPayout
<1> QED
  BY <1>1, <1>2, <1>3 DEF PayoutsInv, TransfersDiffer, PostedOnce, MovesOne

LEMMA PayoutsStep ==
  ASSUME PayoutsAssumption, PayoutsInv, [PayoutsNext]_payoutsVars
  PROVE  PayoutsInv'
<1>1. CASE UNCHANGED payoutsVars
  BY <1>1 DEF payoutsVars, PayoutsInv, TransfersDiffer, PostedOnce, MovesOne
<1> QED
  BY <1>1, PayoutsTransact, PayoutsPull, PayoutsPost, PayoutsReverse, PayoutsDie DEF PayoutsNext

\* A payout that was read is the payout of a transfer of its window, and no sale
\* of it takes from its gross.
PayoutTyped(p) ==
  /\ DOMAIN p = DOMAIN NoPayout /\ p.path \in Paths \cup {"none"} /\ p.gross \in Nat
  /\ p.path \in Paths => p.id \in p.transfers

EntryTyped(e) == e.status \in {"posted", "reversed"} /\ e.gross \in Nat

PayoutsTyped ==
  /\ Len(history) <= MaxTxns
  /\ \A s \in PayoutSessions : PayoutTyped(payoutSessions[s])
  /\ \A i \in DOMAIN payoutEntries : EntryTyped(payoutEntries[i])

LEMMA PayoutsTypesByInv ==
  ASSUME PayoutsAssumption, PayoutsInv, PayoutsTyped PROVE PayoutsTypeOK
<1>1. \A s \in PayoutSessions : PayoutTyped(payoutSessions[s])
  BY DEF PayoutsTyped
<1>2. \A i \in DOMAIN payoutEntries : payoutEntries[i].status \in {"posted", "reversed"}
                                      /\ payoutEntries[i].gross >= 0
  BY DEF PayoutsTyped, EntryTyped
<1>3. \A i, j \in DOMAIN payoutEntries : payoutEntries[i].id = payoutEntries[j].id => i = j
  BY DEF PayoutsInv, PostedOnce
<1>4. history \in Seq(Txns) /\ Len(history) <= MaxTxns
  BY DEF PayoutsInv, PayoutsTyped
<1> QED
  BY <1>1, <1>2, <1>3, <1>4 DEF PayoutsTypeOK, PayoutTyped

LEMMA NoPayoutTyped == PayoutTyped(NoPayout)
BY DEF PayoutTyped, NoPayout, Paths

LEMMA PayoutsTypedInitially ==
  ASSUME PayoutsAssumption, PayoutsInit PROVE PayoutsTyped
<1>1. Len(history) = 0 /\ DOMAIN payoutEntries = {} /\ MaxTxns \in Nat
  BY DEF PayoutsInit, PayoutsAssumption
<1>2. \A s \in PayoutSessions : payoutSessions[s] = NoPayout
  BY DEF PayoutsInit
<1> QED
  BY <1>1, <1>2, NoPayoutTyped DEF PayoutsTyped

\* The gross of a split is the sum of what its sales bring.
LEMMA GrossIsNatural ==
  ASSUME PayoutsAssumption, NEW path, NEW window \in Seq(Txns)
  PROVE  componentsFromRows(path, window).gross \in Nat
<1> DEFINE S == {i \in DOMAIN window : IsComponent(window[i])}
           f == [i \in S |-> splitSignedGrossFee(KindOf(path, window[i]), window[i]).gross]
<1>1. componentsFromRows(path, window).gross = SumFunctionOnSet(f, S)
  <2>1. componentsFromRows(path, window)["gross"]
          = SumFunction([i \in S |-> splitSignedGrossFee(KindOf(path, window[i]), window[i])["gross"]])
    BY DEF componentsFromRows
  <2>2. DOMAIN f = S
    OBVIOUS
  <2> QED
    BY <2>1, <2>2 DEF SumFunction
<1>2. IsFiniteSet(S)
  <2>1. DOMAIN window = 1..Len(window) /\ Len(window) \in Nat
    OBVIOUS
  <2>2. IsFiniteSet(DOMAIN window) /\ S \subseteq DOMAIN window
    BY <2>1, FS_Interval
  <2> HIDE DEF S
  <2> QED
    BY <2>2, FS_Subset
<1>3. ASSUME NEW i \in S PROVE f[i] \in Nat
  <2>1. window[i].gross \in Int
    BY TxnShape
  <2>2. Magnitude(window[i].gross) \in Nat
    BY <2>1 DEF Magnitude
  <2>3. f[i] = splitSignedGrossFee(KindOf(path, window[i]), window[i]).gross
    OBVIOUS
  <2>4. KindOf(path, window[i]) \in {"refund", "adjustment", "sale"}
    BY DEF KindOf
  <2> HIDE DEF f, S
  <2> QED
    BY <2>2, <2>3, <2>4 DEF splitSignedGrossFee
<1> HIDE DEF f, S
<1>4. SumFunctionOnSet(f, S) \in Nat
  BY <1>2, <1>3, SumIsNatural
<1> QED
  BY <1>1, <1>4

LEMMA PulledIsTyped ==
  ASSUME PayoutsAssumption, PayoutsInv, NEW path \in Paths, NEW to \in DOMAIN history,
         NEW from \in 1..to, NEW window, window = SubSeq(history, from, to), Transfers(window) # {}
  PROVE  /\ componentsFromRows(path, window).gross \in Nat
         /\ paypalCanonicalPayoutId(window) \in {t.id : t \in Transfers(window)}
<1>1. history \in Seq(Txns) /\ DOMAIN history = 1..Len(history) /\ Len(history) \in Nat
  BY MembersOf DEF PayoutsInv
<1>2. window \in Seq(Txns)
  <2>1. from \in Int /\ to \in Int /\ \A i \in from..to : history[i] \in Txns
    BY <1>1
  <2> QED
    BY <1>1, <2>1, SubSeqProperties
<1>3. PICK ids : ids = {t.id : t \in Transfers(window)}
  OBVIOUS
<1>4. ids \in SUBSET Nat /\ ids # {}
  <2>1. \A t \in Transfers(window) : t \in Txns
    BY <1>2, MembersOf DEF Transfers
  <2>2. \A t \in Txns : t.id \in Nat
    BY DEF Txns, PayoutsAssumption, NoId
  <2> QED
    BY <1>3, <2>1, <2>2
<1>5. \E i \in ids : \A j \in ids : i <= j
  BY <1>4, LeastExists
<1>6. paypalCanonicalPayoutId(window) = CHOOSE i \in ids : \A j \in ids : i <= j
  BY <1>3 DEF paypalCanonicalPayoutId
<1> QED
  BY <1>2, <1>3, <1>5, <1>6, GrossIsNatural

LEMMA PayoutsTypedStep ==
  ASSUME PayoutsAssumption, PayoutsInv, PayoutsTyped, [PayoutsNext]_payoutsVars
  PROVE  PayoutsTyped'
<1>1. ASSUME NEW s \in PayoutSessions, NEW p, PayoutTyped(p), UNCHANGED history,
             payoutSessions' = [payoutSessions EXCEPT ![s] = p],
             \A i \in DOMAIN payoutEntries' : EntryTyped(payoutEntries'[i])
      PROVE  PayoutsTyped'
  <2>1. \A r \in PayoutSessions : payoutSessions'[r] = p \/ payoutSessions'[r] = payoutSessions[r]
    BY <1>1 DEF PayoutsInv
  <2> QED
    BY <1>1, <2>1 DEF PayoutsTyped
<1>2. ASSUME NEW t \in Txns, Transact(t) PROVE PayoutsTyped'
  <2>1. /\ history' = Append(history, t) /\ Len(history) < MaxTxns /\ MaxTxns \in Nat
        /\ history \in Seq(Txns) /\ UNCHANGED <<payoutSessions, payoutEntries>>
    BY <1>2 DEF Transact, PayoutsAssumption, PayoutsInv
  <2>2. Len(history') = Len(history) + 1 /\ Len(history) \in Nat
    BY <2>1
  <2> QED
    BY <2>1, <2>2 DEF PayoutsTyped
<1>3. ASSUME NEW s \in PayoutSessions, NEW path \in Paths, NEW to \in DOMAIN history, NEW from \in 1..to,
             Pull(s, path, from, to)
      PROVE  PayoutsTyped'
  <2>1. PICK window, id, split, p :
             /\ window = SubSeq(history, from, to) /\ id = paypalCanonicalPayoutId(window)
             /\ split = componentsFromRows(path, window)
             /\ p = [path |-> path, id |-> id, gross |-> split.gross, net |-> NetOf(split),
                     transfers |-> {t.id : t \in Transfers(window)}]
    OBVIOUS
  <2>2. /\ Transfers(window) # {} /\ payoutSessions' = [payoutSessions EXCEPT ![s] = p]
        /\ UNCHANGED <<history, payoutEntries>>
    BY <1>3, <2>1 DEF Pull
  <2>3. split.gross \in Nat /\ id \in {t.id : t \in Transfers(window)}
    BY <2>1, <2>2, PulledIsTyped
  <2>4. PayoutTyped(p)
    BY <2>1, <2>3 DEF PayoutTyped, NoPayout
  <2> QED
    BY <1>1, <2>2, <2>4 DEF PayoutsTyped
<1>4. ASSUME NEW s \in PayoutSessions, PostPayout(s) PROVE PayoutsTyped'
  <2>1. PICK p, e : /\ p = payoutSessions[s]
                    /\ e = [id |-> p.id, path |-> p.path, gross |-> p.gross, net |-> p.net,
                            transfers |-> p.transfers, status |-> "posted"]
    OBVIOUS
  <2>2. /\ payoutSessions' = [payoutSessions EXCEPT ![s] = NoPayout] /\ UNCHANGED history
        /\ payoutEntries' = payoutEntries \/ payoutEntries' = Append(payoutEntries, e)
    BY <1>4, <2>1 DEF PostPayout
  <2>3. EntryTyped(e)
    BY <2>1 DEF PayoutsTyped, PayoutTyped, EntryTyped
  <2>4. PICK S : payoutEntries \in Seq(S)
    BY DEF PayoutsInv, PostedOnce
  <2>5. \A i \in DOMAIN payoutEntries' : EntryTyped(payoutEntries'[i])
    <3>1. CASE payoutEntries' = Append(payoutEntries, e)
      <4>1. \A i \in DOMAIN payoutEntries' :
               payoutEntries'[i] = e \/ (i \in DOMAIN payoutEntries /\ payoutEntries'[i] = payoutEntries[i])
        BY <2>4, <3>1
      <4> QED
        BY <2>3, <4>1 DEF PayoutsTyped
    <3> QED
      BY <2>2, <3>1 DEF PayoutsTyped
  <2> QED
    BY <1>1, <2>2, <2>5, NoPayoutTyped
<1>5. ASSUME NEW s \in PayoutSessions, Die(s) PROVE PayoutsTyped'
  BY <1>1, <1>5, NoPayoutTyped DEF Die, PayoutsTyped
<1>6. ASSUME NEW i \in DOMAIN payoutEntries, ReversePayout(i) PROVE PayoutsTyped'
  <2>1. PICK e : e = [payoutEntries[i] EXCEPT !.status = "reversed"]
    OBVIOUS
  <2>2. payoutEntries' = [payoutEntries EXCEPT ![i] = e] /\ UNCHANGED <<history, payoutSessions>>
    BY <1>6, <2>1 DEF ReversePayout
  <2>3. DOMAIN payoutEntries[i] = {"id", "path", "gross", "net", "transfers", "status"}
    BY DEF PayoutsInv, PostedOnce
  <2>4. e.status = "reversed" /\ e.gross = payoutEntries[i].gross
    BY <2>1, <2>3
  <2>5. EntryTyped(e)
    BY <2>4 DEF PayoutsTyped, EntryTyped
  <2>6. /\ DOMAIN payoutEntries' = DOMAIN payoutEntries
        /\ \A j \in DOMAIN payoutEntries : payoutEntries'[j] = IF j = i THEN e ELSE payoutEntries[j]
    BY <2>2
  <2> QED
    BY <2>2, <2>5, <2>6 DEF PayoutsTyped
<1>7. CASE UNCHANGED payoutsVars
  BY <1>7 DEF payoutsVars, PayoutsTyped
<1> QED
  BY <1>2, <1>3, <1>4, <1>5, <1>6, <1>7 DEF PayoutsNext

\* Each deposit holds a transfer of its own, and every transfer that is held is held by one.
LEMMA DepositsMatch ==
  ASSUME PayoutsAssumption, PayoutsInv
  PROVE  DepositsAreTransfers
<1> DEFINE es   == Deposits({"api"})
           Deposited(e, t) == /\ IsOutboundTransfer(t) /\ e.transfers = {t.id} /\ e.id = t.id
                          /\ e.net = Magnitude(t.gross)
           held == [e \in es |-> CHOOSE t \in ToSet(history) : Deposited(e, t)]
           ts   == {held[e] : e \in es}
           moved == [t \in ts |-> Magnitude(t.gross)]
<1>1. /\ ToSet(history) \subseteq Txns
      /\ \E S : payoutEntries \in Seq(S)
      /\ \A e \in ToSet(payoutEntries) : MovesOne(e)
      /\ \A d, e \in ToSet(payoutEntries) : d.id = e.id => d = e
      /\ IsFiniteSet(ToSet(payoutEntries))
  <2>1. PICK S : payoutEntries \in Seq(S)
    BY DEF PayoutsInv, PostedOnce
  <2>2. ToSet(payoutEntries) = {payoutEntries[i] : i \in DOMAIN payoutEntries} /\ IsFiniteSet(ToSet(payoutEntries))
    BY <2>1, MembersOf
  <2>3. ToSet(history) \subseteq Txns
    BY MembersOf DEF PayoutsInv
  <2> QED
    BY <2>1, <2>2, <2>3 DEF PayoutsInv, PostedOnce
<1>2. es \subseteq ToSet(payoutEntries) /\ \A e \in es : e.path = "api" /\ Cardinality(e.transfers) = 1
  BY DEF Deposits
<1>3. \A e \in es : held[e] \in ToSet(history) /\ Deposited(e, held[e])
  <2> SUFFICES ASSUME NEW e \in es PROVE \E t \in ToSet(history) : Deposited(e, t)
    OBVIOUS
  <2> HIDE DEF es
  <2> QED
    BY <1>1, <1>2 DEF MovesOne
<1>4. IsFiniteSet(es)
  BY <1>1, <1>2, FS_Subset
<1> HIDE DEF es, held
<1>5. \A d, e \in es : held[d] = held[e] => d = e
  BY <1>1, <1>2, <1>3
<1>6. ts = TransfersOf(es)
  <2>1. ts \subseteq TransfersOf(es)
    BY <1>3 DEF TransfersOf
  <2>2. ASSUME NEW t \in ToSet(history), NEW e \in es, t.id \in e.transfers
        PROVE  t = held[e]
    <3>1. held[e] \in ToSet(history) /\ held[e].event = "transfer" /\ held[e].id = t.id
      BY <1>3, <2>2 DEF IsOutboundTransfer
    <3> QED
      BY <3>1 DEF PayoutsInv, TransfersDiffer
  <2> QED
    BY <2>1, <2>2 DEF TransfersOf
<1>7. \A e \in es : /\ held[e] \in ts /\ moved[held[e]] = Magnitude(held[e].gross)
                    /\ moved[held[e]] \in Int /\ moved[held[e]] = e.net
  <2> SUFFICES ASSUME NEW e \in es
               PROVE  /\ held[e] \in ts /\ moved[held[e]] = Magnitude(held[e].gross)
                      /\ moved[held[e]] \in Int /\ moved[held[e]] = e.net
    OBVIOUS
  <2>1. held[e] \in ts /\ moved[held[e]] = Magnitude(held[e].gross)
    OBVIOUS
  <2>2. held[e].gross \in Int
    BY <1>1, <1>3, TxnShape
  <2> HIDE DEF ts, moved
  <2> QED
    BY <1>3, <2>1, <2>2 DEF Magnitude
<1> HIDE DEF Deposited
<1>8. SumFunctionOnSet(moved, ts) = SumFunctionOnSet([e \in es |-> moved[held[e]]], es)
  <2> HIDE DEF moved
  <2> QED
    BY <1>4, <1>5, <1>7, SumRenamed
<1>9. SumFunctionOnSet([e \in es |-> moved[held[e]]], es) = SumFunctionOnSet([e \in es |-> e.net], es)
  <2> DEFINE f == [e \in es |-> moved[held[e]]]
             g == [e \in es |-> e.net]
  <2> HIDE DEF moved
  <2>1. \A e \in es : f[e] = g[e]
    BY <1>7
  <2> HIDE DEF f, g
  <2>2. SumFunctionOnSet(f, es) = SumFunctionOnSet(g, es)
    BY <1>4, <2>1, SumsAgree
  <2> QED
    BY <2>2 DEF f, g
<1>10. Booked(es) = SumFunctionOnSet([e \in es |-> e.net], es)
  <2>1. DOMAIN [e \in es |-> e.net] = es
    OBVIOUS
  <2> QED
    BY <2>1 DEF Booked, SumFunction
<1>11. Left(ts) = SumFunctionOnSet(moved, ts)
  <2>1. DOMAIN moved = ts
    OBVIOUS
  <2>2. Left(ts) = SumFunction(moved)
    BY DEF Left
  <2> HIDE DEF moved
  <2> QED
    BY <2>1, <2>2 DEF SumFunction
<1> QED
  BY <1>6, <1>8, <1>9, <1>10, <1>11 DEF DepositsAreTransfers, es

\* For any transactions of the provider, any overlapping windows and any requests
\* that race or die: the posted payouts of the provider's own windows that hold one
\* transfer each add up to what those transfers took out of the balance.  A payout
\* is posted under the id of its transfer, and an id is posted once.
THEOREM DepositsAlwaysMatch ==
  ASSUME PayoutsAssumption
  PROVE  PayoutsSpec => []DepositsAreTransfers
<1>1. PayoutsInit => PayoutsInv
  BY PayoutsInitially
<1>2. PayoutsInv /\ [PayoutsNext]_payoutsVars => PayoutsInv'
  BY PayoutsStep
<1>3. PayoutsInv => DepositsAreTransfers
  BY DepositsMatch
<1> QED
  BY <1>1, <1>2, <1>3, PTL DEF PayoutsSpec

-----------------------------------------------------------------------------
(* Month end: what a batch counted stays true until its month is closed, and  *)
(* while it stays closed.                                                     *)

\* A row, and what a session is in the middle of, have the fields they have.
RowShaped(r) == r =
  [client |-> r.client, month |-> r.month, key |-> r.key, trade |-> r.trade, of |-> r.of,
   face |-> r.face, base |-> r.base, status |-> r.status, sorted |-> r.sorted]
SessionShaped(x) == x =
  [at |-> x.at, call |-> x.call, queue |-> x.queue, rows |-> x.rows, month |-> x.month,
   delta |-> x.delta, share |-> x.share, excl |-> x.excl, made |-> x.made, shuts |-> x.shuts]

Serving(x, op) == x.at # "idle" /\ x.call.op = op

\* Only a post may add an entry that blocks a close, to a month it shares.
MakesFew(x) == \A r \in x.made :
  RowShaped(r) /\ (Blocks(r) => Serving(x, "post") /\ <<r.client, r.month>> \in x.share)

\* What is closed or reopened is locked, from the reading of its row on.
LocksFirst(x) ==
  /\ x.shuts \subseteq x.excl
  /\ x.at = "flip" => Serving(x, "close") \/ Serving(x, "reopen")
  /\ x.shuts # {} => Serving(x, "close") \/ Serving(x, "reopen") \/ Serving(x, "batch")
  /\ Serving(x, "batch") /\ x.at = "count" => <<Head(x.queue), x.month>> \in x.excl

\* A month that is shared is open, and one that a batch will close has nothing left to do.
SharesOpen(x) == \A c \in Clients, m \in Months :
  <<c, m>> \in x.share => periods[c][m].status # "closed"
CountsTrue(x) == Serving(x, "batch") /\ ~x.call.force =>
  \A r \in books : <<r.client, r.month>> \in x.shuts => ~Blocks(r)

SessionOK(x) ==
  SessionShaped(x) /\ MakesFew(x) /\ LocksFirst(x) /\ SharesOpen(x) /\ CountsTrue(x)

\* An update of a period row excludes everybody else from it.
Exclusive == \A s, q \in Sessions : s # q =>
  sessions[s].excl \cap (sessions[q].excl \cup sessions[q].share) = {}

MonthShape ==
  /\ periods = [c \in Clients |-> [m \in Months |-> periods[c][m]]]
  /\ sessions = [s \in Sessions |-> sessions[s]]
  /\ \A r \in books : RowShaped(r)
  /\ \A c \in Clients, m \in Months : periods[c][m].via = "batch" => periods[c][m].status = "closed"

MonthInv ==
  /\ MonthShape /\ Exclusive
  /\ \A s \in Sessions : SessionOK(sessions[s])
  /\ NothingBehindTheCount

\* A statement that writes nothing concerns the session it is of, and the locks it takes.
LEMMA SessionMoves ==
  ASSUME MonthInv, NEW s \in Sessions, NEW n,
         sessions' = [sessions EXCEPT ![s] = n], UNCHANGED <<periods, books>>,
         SessionOK(n),
         \A q \in Sessions : q # s =>
           /\ n.excl \cap (sessions[q].excl \cup sessions[q].share) = {}
           /\ n.share \cap sessions[q].excl = {}
  PROVE  MonthInv'
<1>1. /\ sessions' = [q \in Sessions |-> sessions'[q]] /\ sessions'[s] = n
      /\ \A q \in Sessions : q # s => sessions'[q] = sessions[q]
  BY DEF MonthInv, MonthShape
<1>2. MonthShape'
  BY <1>1 DEF MonthInv, MonthShape
<1>3. Exclusive'
  <2> SUFFICES ASSUME NEW p \in Sessions, NEW q \in Sessions, p # q
               PROVE  sessions'[p].excl \cap (sessions'[q].excl \cup sessions'[q].share) = {}
    BY DEF Exclusive
  <2>1. CASE p = s
    BY <2>1, <1>1
  <2>2. CASE q = s
    <3>1. sessions'[p] = sessions[p]
      BY <2>2, <1>1
    <3> QED
      BY <2>2, <3>1, <1>1
  <2>3. CASE p # s /\ q # s
    BY <2>3, <1>1 DEF MonthInv, Exclusive
  <2> QED
    BY <2>1, <2>2, <2>3
<1>4. ASSUME NEW q \in Sessions
      PROVE  SessionOK(sessions[q])'
  <2>1. PICK x : x = sessions'[q]
    OBVIOUS
  <2>2. SessionOK(x)
    BY <2>1, <1>1 DEF MonthInv
  <2>3. SharesOpen(x)' /\ CountsTrue(x)'
    BY <2>2 DEF SessionOK, SharesOpen, CountsTrue
  <2> QED
    BY <2>1, <2>2, <2>3 DEF SessionOK, SharesOpen, CountsTrue
<1>5. NothingBehindTheCount'
  BY DEF MonthInv, NothingBehindTheCount
<1> QED
  BY <1>2, <1>3, <1>4, <1>5 DEF MonthInv

\* The end of a call, whatever the end.
LEMMA QuitKeeps ==
  ASSUME MonthInv, NEW s \in Sessions, Quit(s), UNCHANGED <<periods, books>>
  PROVE  MonthInv'
<1>1. PICK n : n = IdleSession
  OBVIOUS
<1>2. sessions' = [sessions EXCEPT ![s] = n]
  BY <1>1 DEF Quit
<1>3. /\ n.at = "idle" /\ n.share = {} /\ n.excl = {} /\ n.made = {} /\ n.shuts = {}
      /\ SessionShaped(n)
  BY <1>1 DEF IdleSession, SessionShaped
<1>4. SessionOK(n)
  BY <1>3 DEF SessionOK, MakesFew, LocksFirst, SharesOpen, CountsTrue, Serving
<1>5. \A q \in Sessions : q # s =>
        /\ n.excl \cap (sessions[q].excl \cup sessions[q].share) = {}
        /\ n.share \cap sessions[q].excl = {}
  BY <1>3
<1> QED
  BY <1>2, <1>4, <1>5, SessionMoves

\* A statement that takes no lock and closes nothing.
LEMMA Moves ==
  ASSUME MonthInv, NEW s \in Sessions, NEW n,
         sessions' = [sessions EXCEPT ![s] = n], UNCHANGED <<periods, books>>,
         SessionShaped(n), MakesFew(n), n.call = sessions[s].call,
         ~At(s, "idle"), n.at \notin {"idle", "count"},
         n.at = "flip" => Serving(n, "close") \/ Serving(n, "reopen"),
         n.share \subseteq sessions[s].share,
         n.excl = sessions[s].excl, n.shuts = sessions[s].shuts
  PROVE  MonthInv'
<1>1. SessionOK(sessions[s])
  BY DEF MonthInv
<1>2. \A op : Serving(n, op) <=> Serving(sessions[s], op)
  BY DEF Serving, At
<1>3. SessionOK(n)
  BY <1>1, <1>2 DEF SessionOK, LocksFirst, SharesOpen, CountsTrue
<1>4. \A q \in Sessions : q # s =>
        /\ n.excl \cap (sessions[q].excl \cup sessions[q].share) = {}
        /\ n.share \cap sessions[q].excl = {}
  BY DEF MonthInv, Exclusive
<1> QED
  BY <1>3, <1>4, SessionMoves

\* A statement that has found a month open shares it.
LEMMA MovesSharing ==
  ASSUME MonthInv, NEW s \in Sessions, NEW n, NEW c, NEW m,
         sessions' = [sessions EXCEPT ![s] = n], UNCHANGED <<periods, books>>,
         \A q \in Sessions : ~ShareWaits(s, q, <<c, m>>), ~IsClosed(<<c, m>>),
         SessionShaped(n), MakesFew(n), n.call = sessions[s].call,
         ~At(s, "idle"), n.at \notin {"idle", "count"},
         n.at = "flip" => Serving(n, "close") \/ Serving(n, "reopen"),
         n.share = sessions[s].share \cup {<<c, m>>},
         n.excl = sessions[s].excl, n.shuts = sessions[s].shuts
  PROVE  MonthInv'
<1>1. SessionOK(sessions[s])
  BY DEF MonthInv
<1>2. \A op : Serving(n, op) <=> Serving(sessions[s], op)
  BY DEF Serving, At
<1>3. SharesOpen(n)
  <2> SUFFICES ASSUME NEW d \in Clients, NEW k \in Months, <<d, k>> \in n.share
               PROVE  periods[d][k].status # "closed"
    BY DEF SharesOpen
  <2>1. CASE <<d, k>> \in sessions[s].share
    BY <2>1, <1>1 DEF SessionOK, SharesOpen
  <2>2. CASE <<d, k>> = <<c, m>>
    BY <2>2 DEF IsClosed
  <2> QED
    BY <2>1, <2>2
<1>4. SessionOK(n)
  BY <1>1, <1>2, <1>3 DEF SessionOK, LocksFirst, CountsTrue
<1>5. \A q \in Sessions : q # s =>
        /\ n.excl \cap (sessions[q].excl \cup sessions[q].share) = {}
        /\ n.share \cap sessions[q].excl = {}
  BY DEF MonthInv, Exclusive, ShareWaits
<1> QED
  BY <1>4, <1>5, SessionMoves

\* A row a session makes has its fields, and blocks nothing as it is made.
LEMMA RowOfShaped ==
  ASSUME NEW c, NEW m, NEW key, NEW trade, NEW of, NEW face, NEW base
  PROVE  /\ RowShaped(RowOf(c, m, key, trade, of, face, base))
         /\ ~Blocks(RowOf(c, m, key, trade, of, face, base))
BY DEF RowOf, RowShaped, Blocks

LEMMA MonthBegin ==
  ASSUME MonthEndAssumption, MonthInv, NEW s \in Sessions, NEW r \in FirmRequests, Begin(s, r)
  PROVE  MonthInv'
<1>1. PICK n : n = [IdleSession EXCEPT !.at = FirstLabel(r.op), !.call = r,
                                       !.queue = r.clients, !.month = r.month]
  OBVIOUS
<1>2. sessions' = [sessions EXCEPT ![s] = n] /\ UNCHANGED <<periods, books>>
  BY <1>1 DEF Begin, Tables
<1>3. /\ n.at = FirstLabel(r.op) /\ n.call = r
      /\ n.share = {} /\ n.excl = {} /\ n.made = {} /\ n.shuts = {}
      /\ SessionShaped(n)
  BY <1>1 DEF IdleSession, SessionShaped
<1>4. r.op \in Ops
  BY DEF MonthEndAssumption, Request
<1>5. n.at # "count" /\ (n.at = "flip" => r.op = "reopen")
  BY <1>3, <1>4 DEF FirstLabel, Ops
<1>6. SessionOK(n)
  BY <1>3, <1>5 DEF SessionOK, MakesFew, LocksFirst, SharesOpen, CountsTrue, Serving
<1>7. \A q \in Sessions : q # s =>
        /\ n.excl \cap (sessions[q].excl \cup sessions[q].share) = {}
        /\ n.share \cap sessions[q].excl = {}
  BY <1>3
<1> QED
  BY <1>2, <1>6, <1>7, SessionMoves

LEMMA MonthPost ==
  ASSUME MonthInv, NEW s \in Sessions, Post(s)
  PROVE  MonthInv'
<1> DEFINE r   == Req(s)
           made == RowOf(Client(s), r.month, "trade", r.trade, r.month, r.face, r.face * rates[r.month])
<1>1. PICK row : row = [made EXCEPT !.status = IF r.held THEN "pending_review" ELSE "posted",
                                    !.sorted = r.sorted]
  OBVIOUS
<1>2. PICK n : n = [Sharing(s, <<Client(s), r.month>>) EXCEPT !.at = "commit", !.made = {row}]
  OBVIOUS
<1>3. RowShaped(row) /\ row.client = Client(s) /\ row.month = r.month
  <2>1. RowShaped(made) /\ made.client = Client(s) /\ made.month = r.month
    BY RowOfShaped DEF RowOf
  <2> HIDE DEF made
  <2> QED
    BY <2>1, <1>1 DEF RowShaped
<1>4. SessionShaped(sessions[s])
  BY DEF MonthInv, SessionOK
<1>5. /\ n.at = "commit" /\ n.made = {row} /\ n.call = sessions[s].call
      /\ n.share = sessions[s].share \cup {<<Client(s), r.month>>}
      /\ n.excl = sessions[s].excl /\ n.shuts = sessions[s].shuts /\ SessionShaped(n)
  BY <1>2, <1>4 DEF Sharing, SessionShaped
<1>6. /\ UNCHANGED <<periods, books>> /\ ~At(s, "idle") /\ r.op = "post"
      /\ \/ Quit(s)
         \/ /\ \A q \in Sessions : ~ShareWaits(s, q, <<Client(s), r.month>>)
            /\ ~IsClosed(<<Client(s), r.month>>)
            /\ sessions' = [sessions EXCEPT ![s] = n]
  BY <1>1, <1>2 DEF Post, EnsureOpen, Tables, Serves
<1> HIDE DEF made
<1>7. CASE Quit(s)
  BY <1>6, <1>7, QuitKeeps
<1>8. CASE ~Quit(s)
  <2>1. MakesFew(n)
    BY <1>3, <1>5, <1>6 DEF MakesFew, Serving, Req
  <2> HIDE DEF r
  <2> QED
    BY <2>1, <1>5, <1>6, <1>8, MovesSharing
<1> QED
  BY <1>7, <1>8

LEMMA MonthSortReads ==
  ASSUME MonthInv, NEW s \in Sessions, SortReads(s)
  PROVE  MonthInv'
<1>1. UNCHANGED <<periods, books>> /\ ~At(s, "idle") /\ SessionShaped(sessions[s]) /\ MakesFew(sessions[s])
  BY DEF SortReads, Tables, Serves, MonthInv, SessionOK
<1>2. CASE Quit(s)
  BY <1>1, <1>2, QuitKeeps
<1>3. CASE ~Quit(s)
  <2>1. PICK x : sessions' = [sessions EXCEPT ![s] =
          [@ EXCEPT !.at = "share", !.queue = <<x.client>>,
                    !.month = IF IsClosed(<<x.client, x.month>>) THEN Current ELSE x.month]]
    BY <1>3 DEF SortReads
  <2>2. PICK m : m = IF IsClosed(<<x.client, x.month>>) THEN Current ELSE x.month
    OBVIOUS
  <2>3. PICK n : n = [sessions[s] EXCEPT !.at = "share", !.queue = <<x.client>>, !.month = m]
    OBVIOUS
  <2>4. sessions' = [sessions EXCEPT ![s] = n]
    BY <2>1, <2>2, <2>3
  <2>5. /\ n.at = "share" /\ n.call = sessions[s].call /\ n.made = sessions[s].made
        /\ n.share = sessions[s].share /\ n.excl = sessions[s].excl /\ n.shuts = sessions[s].shuts
        /\ SessionShaped(n)
    BY <2>3, <1>1 DEF SessionShaped
  <2>6. MakesFew(n)
    BY <2>5, <1>1 DEF MakesFew, Serving, At
  <2> QED
    BY <2>4, <2>5, <2>6, <1>1, Moves
<1> QED
  BY <1>2, <1>3

LEMMA MonthSortPosts ==
  ASSUME MonthInv, NEW s \in Sessions, SortPosts(s)
  PROVE  MonthInv'
<1> DEFINE c == Client(s)
           m == sessions[s].month
<1>1. PICK undo, again :
        /\ RowShaped(undo) /\ ~Blocks(undo) /\ RowShaped(again) /\ ~Blocks(again)
        /\ EnsureOpen(s, <<c, m>>, [Sharing(s, <<c, m>>) EXCEPT !.at = "commit", !.made = {undo, again}])
  BY RowOfShaped DEF SortPosts
<1>2. PICK n : n = [Sharing(s, <<c, m>>) EXCEPT !.at = "commit", !.made = {undo, again}]
  OBVIOUS
<1>3. SessionShaped(sessions[s])
  BY DEF MonthInv, SessionOK
<1>4. /\ n.at = "commit" /\ n.made = {undo, again} /\ n.call = sessions[s].call
      /\ n.share = sessions[s].share \cup {<<c, m>>}
      /\ n.excl = sessions[s].excl /\ n.shuts = sessions[s].shuts /\ SessionShaped(n)
  BY <1>2, <1>3 DEF Sharing, SessionShaped
<1>5. /\ UNCHANGED <<periods, books>> /\ ~At(s, "idle")
      /\ \/ Quit(s)
         \/ /\ \A q \in Sessions : ~ShareWaits(s, q, <<c, m>>)
            /\ ~IsClosed(<<c, m>>) /\ sessions' = [sessions EXCEPT ![s] = n]
  BY <1>1, <1>2 DEF SortPosts, EnsureOpen, Tables, Serves
<1>6. MakesFew(n)
  BY <1>1, <1>4 DEF MakesFew
<1> HIDE DEF c, m
<1>7. CASE Quit(s)
  BY <1>5, <1>7, QuitKeeps
<1>8. CASE ~Quit(s)
  BY <1>4, <1>5, <1>6, <1>8, MovesSharing
<1> QED
  BY <1>7, <1>8

LEMMA MonthSum ==
  ASSUME MonthInv, NEW s \in Sessions, Sum(s)
  PROVE  MonthInv'
<1>1. PICK delta : delta = Delta(Client(s), Req(s).month)
  OBVIOUS
<1>2. PICK n : n = [sessions[s] EXCEPT !.delta = delta, !.at = IF delta = 0 THEN "flip" ELSE "post"]
  OBVIOUS
<1>3. /\ sessions' = [sessions EXCEPT ![s] = n] /\ UNCHANGED <<periods, books>>
      /\ ~At(s, "idle") /\ Req(s).op = "close"
  BY <1>1, <1>2 DEF Sum, Serves, Tables
<1>4. SessionShaped(sessions[s]) /\ MakesFew(sessions[s])
  BY DEF MonthInv, SessionOK
<1>5. /\ n.at \in {"flip", "post"} /\ n.call = sessions[s].call /\ n.made = sessions[s].made
      /\ n.share = sessions[s].share /\ n.excl = sessions[s].excl /\ n.shuts = sessions[s].shuts
      /\ SessionShaped(n)
  BY <1>2, <1>4 DEF SessionShaped
<1>6. MakesFew(n) /\ (n.at = "flip" => Serving(n, "close"))
  BY <1>3, <1>4, <1>5 DEF MakesFew, Serving, At, Req
<1> QED
  BY <1>3, <1>5, <1>6, Moves

LEMMA MonthRevalPosts ==
  ASSUME MonthInv, NEW s \in Sessions, RevalPosts(s)
  PROVE  MonthInv'
<1> DEFINE c == Client(s)
           m == Req(s).month
<1>1. /\ UNCHANGED <<periods, books>> /\ ~At(s, "idle") /\ Req(s).op = "close"
      /\ SessionShaped(sessions[s]) /\ MakesFew(sessions[s])
  BY DEF RevalPosts, Serves, Tables, MonthInv, SessionOK
<1>2. CASE Quit(s)
  BY <1>1, <1>2, QuitKeeps
<1>3. CASE Goto(s, "next")
  <2>1. PICK n : n = [sessions[s] EXCEPT !.at = "next"]
    OBVIOUS
  <2>2. sessions' = [sessions EXCEPT ![s] = n]
    BY <1>3, <2>1 DEF Goto
  <2>3. /\ n.at = "next" /\ n.call = sessions[s].call /\ n.made = sessions[s].made
        /\ n.share = sessions[s].share /\ n.excl = sessions[s].excl /\ n.shuts = sessions[s].shuts
        /\ SessionShaped(n)
    BY <2>1, <1>1 DEF SessionShaped
  <2>4. MakesFew(n)
    BY <1>1, <2>3 DEF MakesFew, Serving, At
  <2> QED
    BY <1>1, <2>2, <2>3, <2>4, Moves
<1>4. CASE ~Quit(s) /\ ~Goto(s, "next")
  <2>1. PICK n : n = [Sharing(s, <<c, m>>) EXCEPT !.at = "insert"]
    OBVIOUS
  <2>2. /\ \A q \in Sessions : ~ShareWaits(s, q, <<c, m>>)
        /\ ~IsClosed(<<c, m>>) /\ sessions' = [sessions EXCEPT ![s] = n]
    BY <1>4, <2>1 DEF RevalPosts, EnsureOpen
  <2>3. /\ n.at = "insert" /\ n.call = sessions[s].call /\ n.made = sessions[s].made
        /\ n.share = sessions[s].share \cup {<<c, m>>}
        /\ n.excl = sessions[s].excl /\ n.shuts = sessions[s].shuts /\ SessionShaped(n)
    BY <2>1, <1>1 DEF SessionShaped, Sharing
  <2>4. MakesFew(n)
    BY <1>1, <2>3 DEF MakesFew, Serving, At
  <2> HIDE DEF c, m
  <2> QED
    BY <1>1, <2>2, <2>3, <2>4, MovesSharing
<1> QED
  BY <1>2, <1>3, <1>4

LEMMA MonthRevalInserts ==
  ASSUME MonthInv, NEW s \in Sessions, RevalInserts(s)
  PROVE  MonthInv'
<1> DEFINE c == Client(s)
           m == Req(s).month
<1>1. /\ UNCHANGED <<periods, books>> /\ ~At(s, "idle") /\ Req(s).op = "close"
      /\ SessionShaped(sessions[s]) /\ MakesFew(sessions[s])
  BY DEF RevalInserts, Serves, Tables, MonthInv, SessionOK
<1>2. CASE Quit(s)
  BY <1>1, <1>2, QuitKeeps
<1>3. ASSUME NEW n, sessions' = [sessions EXCEPT ![s] = n],
             SessionShaped(n), n.at = "next", n.call = sessions[s].call,
             n.share \subseteq sessions[s].share, n.excl = sessions[s].excl,
             n.shuts = sessions[s].shuts,
             \A r \in n.made : r \in sessions[s].made \/ (RowShaped(r) /\ ~Blocks(r))
      PROVE  MonthInv'
  <2>1. MakesFew(n)
    BY <1>1, <1>3 DEF MakesFew, Serving, At, Req
  <2> QED
    BY <1>1, <1>3, <2>1, Moves
<1>4. CASE ~Quit(s) /\ \E x \in books : IsReval(x, c, m)
  <2>1. PICK n : n = [sessions[s] EXCEPT !.at = "next", !.share = @ \ {<<c, m>>}]
    OBVIOUS
  <2>2. sessions' = [sessions EXCEPT ![s] = n]
    BY <1>4, <2>1 DEF RevalInserts
  <2>3. /\ n.at = "next" /\ n.call = sessions[s].call /\ n.made = sessions[s].made
        /\ n.share = sessions[s].share \ {<<c, m>>}
        /\ n.excl = sessions[s].excl /\ n.shuts = sessions[s].shuts /\ SessionShaped(n)
    BY <2>1, <1>1 DEF SessionShaped
  <2> QED
    BY <2>2, <2>3, <1>3
<1>5. CASE ~Quit(s) /\ ~\E x \in books : IsReval(x, c, m)
  <2>1. PICK row : row = Reval(c, m, sessions[s].delta)
    OBVIOUS
  <2>2. RowShaped(row) /\ ~Blocks(row)
    <3>1. PICK made : RowShaped(made) /\ row = [made EXCEPT !.status = "reversed"]
      BY <2>1, RowOfShaped DEF Reval
    <3> QED
      BY <3>1 DEF RowShaped, Blocks
  <2>3. PICK n : n = [sessions[s] EXCEPT !.at = "next", !.made = {row}]
    OBVIOUS
  <2>4. sessions' = [sessions EXCEPT ![s] = n]
    BY <1>5, <2>1, <2>3 DEF RevalInserts
  <2>5. /\ n.at = "next" /\ n.call = sessions[s].call /\ n.made = {row}
        /\ n.share = sessions[s].share
        /\ n.excl = sessions[s].excl /\ n.shuts = sessions[s].shuts /\ SessionShaped(n)
    BY <2>3, <1>1 DEF SessionShaped
  <2> QED
    BY <2>2, <2>4, <2>5, <1>3
<1> QED
  BY <1>2, <1>4, <1>5

LEMMA MonthRevalBack ==
  ASSUME MonthInv, NEW s \in Sessions, RevalBack(s)
  PROVE  MonthInv'
<1> DEFINE c == Client(s)
           m == NextDay(Req(s).month)
<1>1. /\ UNCHANGED <<periods, books>> /\ ~At(s, "idle") /\ Req(s).op = "close"
      /\ SessionShaped(sessions[s]) /\ MakesFew(sessions[s])
  BY DEF RevalBack, Serves, Tables, MonthInv, SessionOK
<1>2. PICK row : row = Back(c, Req(s).month, sessions[s].delta)
  OBVIOUS
<1>3. RowShaped(row) /\ ~Blocks(row)
  BY <1>2, RowOfShaped DEF Back
<1>4. PICK made : made = IF sessions[s].made = {} THEN {} ELSE sessions[s].made \cup {row}
  OBVIOUS
<1>5. PICK n : n = [Sharing(s, <<c, m>>) EXCEPT !.at = "flip", !.made = made]
  OBVIOUS
<1>6. /\ n.at = "flip" /\ n.call = sessions[s].call /\ n.made = made
      /\ n.share = sessions[s].share \cup {<<c, m>>}
      /\ n.excl = sessions[s].excl /\ n.shuts = sessions[s].shuts /\ SessionShaped(n)
  BY <1>5, <1>1 DEF SessionShaped, Sharing
<1>7. \/ Quit(s)
      \/ /\ \A q \in Sessions : ~ShareWaits(s, q, <<c, m>>)
         /\ ~IsClosed(<<c, m>>) /\ sessions' = [sessions EXCEPT ![s] = n]
  <2>1. Sharing(s, <<c, m>>).made = sessions[s].made
    BY <1>1 DEF Sharing, SessionShaped
  <2>2. n = [Sharing(s, <<c, m>>) EXCEPT !.at = "flip",
               !.made = IF @ = {} THEN {} ELSE @ \cup {Back(c, Req(s).month, sessions[s].delta)}]
    BY <2>1, <1>2, <1>4, <1>5
  <2> QED
    BY <2>2 DEF RevalBack, EnsureOpen
<1>8. MakesFew(n) /\ Serving(n, "close")
  BY <1>1, <1>3, <1>4, <1>6 DEF MakesFew, Serving, At, Req
<1> HIDE DEF c, m
<1>9. CASE Quit(s)
  BY <1>1, <1>9, QuitKeeps
<1>10. CASE ~Quit(s)
  BY <1>1, <1>6, <1>7, <1>8, <1>10, MovesSharing
<1> QED
  BY <1>9, <1>10

\* The update of a period row waits for everybody who holds it in any way.
LEMMA MonthFlip ==
  ASSUME MonthInv, NEW s \in Sessions, Flip(s)
  PROVE  MonthInv'
<1>1. PICK p : p = <<Client(s), Req(s).month>>
  OBVIOUS
<1>2. PICK n : n = [sessions[s] EXCEPT !.at = "commit", !.excl = {p}, !.shuts = {p}]
  OBVIOUS
<1>3. /\ sessions' = [sessions EXCEPT ![s] = n] /\ UNCHANGED <<periods, books>>
      /\ \A q \in Sessions : q # s => p \notin sessions[q].excl \cup sessions[q].share
  BY <1>1, <1>2 DEF Flip, ExclWaits, Tables
<1>4. SessionOK(sessions[s]) /\ SessionShaped(sessions[s])
  BY DEF MonthInv, SessionOK
<1>5. Serving(sessions[s], "close") \/ Serving(sessions[s], "reopen")
  BY <1>4 DEF SessionOK, LocksFirst, Flip, At
<1>6. /\ n.at = "commit" /\ n.call = sessions[s].call /\ n.made = sessions[s].made
      /\ n.share = sessions[s].share /\ n.excl = {p} /\ n.shuts = {p} /\ SessionShaped(n)
  BY <1>2, <1>4 DEF SessionShaped
<1>7. Serving(n, "close") \/ Serving(n, "reopen")
  BY <1>5, <1>6 DEF Serving
<1>8. MakesFew(n)
  BY <1>4, <1>5, <1>6, <1>7 DEF SessionOK, MakesFew, Serving
<1>9. SharesOpen(n) /\ CountsTrue(n) /\ LocksFirst(n)
  BY <1>4, <1>6, <1>7 DEF SessionOK, SharesOpen, CountsTrue, LocksFirst, Serving
<1>10. \A q \in Sessions : q # s =>
         /\ n.excl \cap (sessions[q].excl \cup sessions[q].share) = {}
         /\ n.share \cap sessions[q].excl = {}
  <2> SUFFICES ASSUME NEW q \in Sessions, q # s
               PROVE  /\ {p} \cap (sessions[q].excl \cup sessions[q].share) = {}
                      /\ sessions[s].share \cap sessions[q].excl = {}
    BY <1>6
  <2> QED
    BY <1>3 DEF MonthInv, Exclusive
<1> QED
  BY <1>3, <1>6, <1>8, <1>9, <1>10, SessionMoves DEF SessionOK

LEMMA NextClientKeeps ==
  ASSUME NEW s, NEW x, SessionShaped(x), NEW n, n = NextClient(s, x)
  PROVE  /\ SessionShaped(n) /\ n.at \in {"commit", "resolve"}
         /\ n.call = x.call /\ n.made = x.made
         /\ n.share = x.share /\ n.excl = x.excl /\ n.shuts = x.shuts
<1>1. PICK queue, at : /\ n = [x EXCEPT !.queue = queue, !.at = at]
                       /\ at \in {"commit", "resolve"}
  <2>1. PICK at : at = IF Len(x.queue) = 1 THEN "commit" ELSE "resolve"
    OBVIOUS
  <2>2. PICK queue : queue = Tail(x.queue)
    OBVIOUS
  <2> QED
    BY <2>1, <2>2 DEF NextClient
<1> QED
  BY <1>1 DEF SessionShaped

LEMMA MonthResolve ==
  ASSUME MonthInv, NEW s \in Sessions, Resolve(s)
  PROVE  MonthInv'
<1>1. /\ UNCHANGED <<periods, books>> /\ ~At(s, "idle")
      /\ SessionShaped(sessions[s]) /\ MakesFew(sessions[s])
  BY DEF Resolve, Serves, Tables, MonthInv, SessionOK
<1>2. PICK rows : sessions' = [sessions EXCEPT ![s] =
                    IF rows = {} THEN NextClient(s, @) ELSE [@ EXCEPT !.rows = rows, !.at = "lock"]]
  BY DEF Resolve
<1>3. PICK n : n = IF rows = {} THEN NextClient(s, sessions[s])
                   ELSE [sessions[s] EXCEPT !.rows = rows, !.at = "lock"]
  OBVIOUS
<1>4. sessions' = [sessions EXCEPT ![s] = n]
  BY <1>2, <1>3
<1>5. /\ n.at \in {"commit", "resolve", "lock"} /\ n.call = sessions[s].call
      /\ n.made = sessions[s].made /\ n.share = sessions[s].share
      /\ n.excl = sessions[s].excl /\ n.shuts = sessions[s].shuts /\ SessionShaped(n)
  <2>1. CASE rows = {}
    BY <2>1, <1>1, <1>3, NextClientKeeps
  <2>2. CASE rows # {}
    BY <2>2, <1>1, <1>3 DEF SessionShaped
  <2> QED
    BY <2>1, <2>2
<1>6. MakesFew(n)
  BY <1>1, <1>5 DEF MakesFew, Serving, At
<1> QED
  BY <1>1, <1>4, <1>5, <1>6, Moves

LEMMA MonthLockRow ==
  ASSUME MonthInv, NEW s \in Sessions, LockRow(s)
  PROVE  MonthInv'
<1>1. /\ UNCHANGED <<periods, books>> /\ ~At(s, "idle") /\ Req(s).op = "batch"
      /\ SessionOK(sessions[s]) /\ SessionShaped(sessions[s]) /\ MakesFew(sessions[s])
  BY DEF LockRow, Serves, Tables, MonthInv, SessionOK
<1>2. CASE ~IsClosed(Target(s))
  <2>1. PICK m : Target(s) = <<Client(s), m>>
    BY DEF Target
  <2>2. PICK n : n = [sessions[s] EXCEPT !.at = "count", !.month = m, !.excl = @ \cup {Target(s)}]
    OBVIOUS
  <2>3. /\ sessions' = [sessions EXCEPT ![s] = n]
        /\ \A q \in Sessions : q # s => Target(s) \notin sessions[q].excl \cup sessions[q].share
    <3>1. Target(s)[2] = m
      BY <2>1
    <3> QED
      BY <1>2, <2>2, <3>1 DEF LockRow, ExclWaits
  <2>4. /\ n.at = "count" /\ n.call = sessions[s].call /\ n.made = sessions[s].made
        /\ n.queue = sessions[s].queue /\ n.month = m /\ n.share = sessions[s].share
        /\ n.excl = sessions[s].excl \cup {Target(s)} /\ n.shuts = sessions[s].shuts
        /\ SessionShaped(n)
    BY <2>2, <1>1 DEF SessionShaped
  <2>5. \A op : Serving(n, op) <=> Serving(sessions[s], op)
    BY <1>1, <2>4 DEF Serving, At
  <2>6. LocksFirst(n) /\ MakesFew(n)
    BY <1>1, <2>1, <2>4, <2>5 DEF SessionOK, LocksFirst, MakesFew, Client
  <2>7. SharesOpen(n) /\ CountsTrue(n)
    BY <1>1, <2>4, <2>5 DEF SessionOK, SharesOpen, CountsTrue
  <2>8. \A q \in Sessions : q # s =>
          /\ n.excl \cap (sessions[q].excl \cup sessions[q].share) = {}
          /\ n.share \cap sessions[q].excl = {}
    BY <2>3, <2>4 DEF MonthInv, Exclusive
  <2> QED
    BY <1>1, <2>3, <2>4, <2>6, <2>7, <2>8, SessionMoves DEF SessionOK
<1>3. CASE IsClosed(Target(s)) /\ Cardinality(sessions[s].rows) = 1
  <2>1. PICK n : n = NextClient(s, sessions[s])
    OBVIOUS
  <2>2. sessions' = [sessions EXCEPT ![s] = n]
    BY <1>3, <2>1 DEF LockRow
  <2>3. /\ n.at \in {"commit", "resolve"} /\ n.call = sessions[s].call /\ n.made = sessions[s].made
        /\ n.share = sessions[s].share /\ n.excl = sessions[s].excl
        /\ n.shuts = sessions[s].shuts /\ SessionShaped(n)
    BY <1>1, <2>1, NextClientKeeps
  <2>4. MakesFew(n)
    BY <1>1, <2>3 DEF MakesFew, Serving, At
  <2> QED
    BY <1>1, <2>2, <2>3, <2>4, Moves
<1>4. CASE IsClosed(Target(s)) /\ Cardinality(sessions[s].rows) # 1
  <2>2. PICK n : n = [sessions[s] EXCEPT !.rows = @ \ {Target(s)[2]}]
    OBVIOUS
  <2>3. sessions' = [sessions EXCEPT ![s] = n]
    BY <1>4, <2>2 DEF LockRow
  <2>4. /\ n.at = "lock" /\ n.call = sessions[s].call /\ n.made = sessions[s].made
        /\ n.share = sessions[s].share /\ n.excl = sessions[s].excl
        /\ n.shuts = sessions[s].shuts /\ SessionShaped(n)
    BY <1>1, <2>2 DEF SessionShaped, LockRow, At
  <2>5. MakesFew(n)
    BY <1>1, <2>4 DEF MakesFew, Serving, At
  <2> QED
    BY <1>1, <2>3, <2>4, <2>5, Moves
<1> QED
  BY <1>2, <1>3, <1>4

\* What is counted was locked before: it stays so until the commit.
LEMMA MonthCount ==
  ASSUME MonthInv, NEW s \in Sessions, Count(s)
  PROVE  MonthInv'
<1> DEFINE p == <<Client(s), sessions[s].month>>
           counted == ~Req(s).force /\ Blocked(p[1], p[2])
<1>1. /\ UNCHANGED <<periods, books>> /\ ~At(s, "idle") /\ Req(s).op = "batch"
      /\ SessionOK(sessions[s]) /\ SessionShaped(sessions[s]) /\ MakesFew(sessions[s])
      /\ p \in sessions[s].excl /\ sessions[s].shuts \subseteq sessions[s].excl
  BY DEF Count, Serves, Tables, MonthInv, SessionOK, LocksFirst, Serving, At, Req, Client
<1>2. PICK x : x = IF counted THEN sessions[s]
                   ELSE [sessions[s] EXCEPT !.shuts = @ \cup {p}, !.excl = @ \cup {p}]
  OBVIOUS
<1>3. PICK n : n = NextClient(s, x)
  OBVIOUS
<1>4. sessions' = [sessions EXCEPT ![s] = n]
  BY <1>2, <1>3 DEF Count
<1>5. /\ x.call = sessions[s].call /\ x.made = sessions[s].made
      /\ x.share = sessions[s].share /\ x.excl = sessions[s].excl
      /\ x.shuts = IF counted THEN sessions[s].shuts ELSE sessions[s].shuts \cup {p}
      /\ SessionShaped(x)
  <2> HIDE DEF p
  <2>1. CASE counted
    BY <2>1, <1>1, <1>2
  <2>2. CASE ~counted
    <3>1. /\ x.excl = sessions[s].excl \cup {p} /\ x.shuts = sessions[s].shuts \cup {p}
          /\ x.call = sessions[s].call /\ x.made = sessions[s].made
          /\ x.share = sessions[s].share /\ SessionShaped(x)
      BY <2>2, <1>1, <1>2 DEF SessionShaped
    <3> QED
      BY <3>1, <2>2, <1>1
  <2> QED
    BY <2>1, <2>2
<1>6. /\ n.at \in {"commit", "resolve"} /\ n.call = sessions[s].call /\ n.made = sessions[s].made
      /\ n.share = sessions[s].share /\ n.excl = sessions[s].excl
      /\ n.shuts = IF counted THEN sessions[s].shuts ELSE sessions[s].shuts \cup {p}
      /\ SessionShaped(n)
  BY <1>3, <1>5, NextClientKeeps
<1>7. \A op : Serving(n, op) <=> Serving(sessions[s], op)
  BY <1>1, <1>6 DEF Serving, At
<1>8. MakesFew(n) /\ SharesOpen(n)
  BY <1>1, <1>6, <1>7 DEF SessionOK, MakesFew, SharesOpen
<1>9. LocksFirst(n)
  BY <1>1, <1>6, <1>7 DEF LocksFirst, Serving, At, Req
<1>10. CountsTrue(n)
  <2> SUFFICES ASSUME ~sessions[s].call.force, NEW r \in books, <<r.client, r.month>> \in n.shuts
               PROVE  ~Blocks(r)
    BY <1>6 DEF CountsTrue
  <2>1. CASE <<r.client, r.month>> \in sessions[s].shuts
    BY <2>1, <1>1 DEF SessionOK, CountsTrue, Serving, At, Req
  <2>2. CASE <<r.client, r.month>> \notin sessions[s].shuts
    BY <2>2, <1>6 DEF Blocked, Req
  <2> QED
    BY <2>1, <2>2
<1>11. \A q \in Sessions : q # s =>
         /\ n.excl \cap (sessions[q].excl \cup sessions[q].share) = {}
         /\ n.share \cap sessions[q].excl = {}
  BY <1>6 DEF MonthInv, Exclusive
<1> QED
  BY <1>1, <1>4, <1>6, <1>8, <1>9, <1>10, <1>11, SessionMoves DEF SessionOK

\* What a commit leaves in the books: what it made, and what was there, only ever
\* taken out of the count.
LEMMA RowsAfterCommit ==
  ASSUME MonthInv, NEW s \in Sessions, CommitCall(s), NEW r \in books'
  PROVE  /\ RowShaped(r)
         /\ Blocks(r) => \/ r \in sessions[s].made
                         \/ \E x \in books : x.client = r.client /\ x.month = r.month /\ Blocks(x)
<1>1. CASE r \in sessions[s].made
  BY <1>1 DEF MonthInv, SessionOK, MakesFew
<1>2. CASE r \notin sessions[s].made
  <2>1. PICK x \in books : r = x \/ r = [x EXCEPT !.status = "reversed"]
    BY <1>2 DEF CommitCall
  <2>2. RowShaped(x)
    BY DEF MonthInv, MonthShape
  <2>3. CASE r = x
    BY <2>2, <2>3
  <2>4. CASE r = [x EXCEPT !.status = "reversed"]
    BY <2>2, <2>4 DEF RowShaped, Blocks
  <2> QED
    BY <2>1, <2>3, <2>4
<1> QED
  BY <1>1, <1>2

\* A commit closes or reopens what the session excluded, and leaves the rest.
LEMMA PeriodsAfterCommit ==
  ASSUME MonthEndAssumption, MonthInv, NEW s \in Sessions, CommitCall(s)
  PROVE  /\ periods' = [c \in Clients |-> [m \in Months |-> periods'[c][m]]]
         /\ \A c \in Clients, m \in Months :
              /\ <<c, m>> \notin sessions[s].excl => periods'[c][m] = periods[c][m]
              /\ periods'[c][m] = periods[c][m] \/ <<c, m>> \in sessions[s].shuts
              /\ <<c, m>> \in sessions[s].shuts /\ periods'[c][m].via = "batch" =>
                   /\ Serving(sessions[s], "batch") /\ ~sessions[s].call.force
                   /\ periods'[c][m] = Closed(s)
<1>1. /\ periods' = [c \in Clients |-> [m \in Months |-> periods'[c][m]]]
      /\ \A c \in Clients, m \in Months :
           periods'[c][m] = IF <<c, m>> \notin sessions[s].shuts THEN periods[c][m]
                            ELSE IF Serves(s, "reopen") THEN OpenPeriod ELSE Closed(s)
  <2> DEFINE new(c, m) == IF <<c, m>> \notin sessions[s].shuts THEN periods[c][m]
                          ELSE IF Serves(s, "reopen") THEN OpenPeriod ELSE Closed(s)
  <2>1. periods' = [c \in Clients |-> [m \in Months |-> new(c, m)]]
    BY DEF CommitCall
  <2> HIDE DEF new
  <2>2. \A c \in Clients, m \in Months : periods'[c][m] = new(c, m)
    BY <2>1
  <2>3. periods' = [c \in Clients |-> [m \in Months |-> periods'[c][m]]]
    BY <2>1, <2>2
  <2> QED
    BY <2>2, <2>3 DEF new
<1>2. LocksFirst(sessions[s])
  BY DEF MonthInv, SessionOK
<1>3. OpenPeriod.via # "batch" /\ None # "batch" /\ None # "close" /\ None # "forced"
  BY DEF OpenPeriod, MonthEndAssumption
<1>4. Closed(s).via = "batch" => Req(s).op # "close" /\ ~Req(s).force
  BY DEF Closed
<1>5. ASSUME NEW c \in Clients, NEW m \in Months, <<c, m>> \in sessions[s].shuts, periods'[c][m].via = "batch"
      PROVE  Serving(sessions[s], "batch") /\ ~sessions[s].call.force /\ periods'[c][m] = Closed(s)
  <2>1. ~Serves(s, "reopen") /\ periods'[c][m] = Closed(s)
    BY <1>1, <1>3, <1>5
  <2>2. Req(s).op # "close" /\ ~Req(s).force
    BY <1>4, <1>5, <2>1
  <2> QED
    BY <1>2, <1>5, <2>1, <2>2 DEF LocksFirst, Serving, Serves, Req, At
<1> QED
  BY <1>1, <1>2, <1>5 DEF LocksFirst

LEMMA MonthCommit ==
  ASSUME MonthEndAssumption, MonthInv, NEW s \in Sessions, CommitCall(s)
  PROVE  MonthInv'
<1> DEFINE x == sessions[s]
<1>1. /\ SessionOK(x) /\ MakesFew(x) /\ LocksFirst(x) /\ SharesOpen(x) /\ CountsTrue(x)
      /\ \A q \in Sessions : SessionOK(sessions[q])
  BY DEF MonthInv, SessionOK
<1>2. /\ sessions' = [q \in Sessions |-> sessions'[q]] /\ sessions'[s] = IdleSession
      /\ \A q \in Sessions : q # s => sessions'[q] = sessions[q]
  BY DEF CommitCall, Quit, MonthInv, MonthShape
<1>3. /\ SessionShaped(IdleSession) /\ IdleSession.at = "idle" /\ IdleSession.share = {}
      /\ IdleSession.excl = {} /\ IdleSession.made = {} /\ IdleSession.shuts = {}
  BY DEF IdleSession, SessionShaped
<1>4. \A r \in books' : RowShaped(r)
  BY RowsAfterCommit
<1>5. ASSUME NEW c \in Clients, NEW m \in Months, periods'[c][m].via = "batch"
      PROVE  /\ periods'[c][m].status = "closed"
             /\ \A r \in books' : ~(r.client = c /\ r.month = m /\ Blocks(r))
  <2>1. CASE <<c, m>> \in x.shuts
    <3>1. Serving(x, "batch") /\ ~x.call.force /\ periods'[c][m] = Closed(s)
      BY <1>5, <2>1, PeriodsAfterCommit
    <3>2. Closed(s).status = "closed"
      BY DEF Closed
    <3>3. ASSUME NEW r \in books', r.client = c, r.month = m, Blocks(r)
          PROVE  FALSE
      <4>1. CASE r \in x.made
        BY <4>1, <3>1, <3>3, <1>1 DEF MakesFew, Serving
      <4>2. CASE r \notin x.made
        <5>1. PICK y \in books : y.client = c /\ y.month = m /\ Blocks(y)
          BY <4>2, <3>3, RowsAfterCommit
        <5> QED
          BY <5>1, <3>1, <2>1, <1>1 DEF CountsTrue
      <4> QED
        BY <4>1, <4>2
    <3> QED
      BY <3>1, <3>2, <3>3
  <2>2. CASE <<c, m>> \notin x.shuts
    <3>1. periods'[c][m] = periods[c][m]
      BY <2>2, PeriodsAfterCommit
    <3>2. periods[c][m].via = "batch" /\ periods[c][m].status = "closed"
      BY <1>5, <3>1 DEF MonthInv, MonthShape
    <3>3. ASSUME NEW r \in books', r.client = c, r.month = m, Blocks(r)
          PROVE  FALSE
      <4>1. CASE r \in x.made
        BY <4>1, <3>2, <3>3, <1>1 DEF MakesFew, SharesOpen
      <4>2. CASE r \notin x.made
        BY <4>2, <3>2, <3>3, RowsAfterCommit DEF MonthInv, NothingBehindTheCount
      <4> QED
        BY <4>1, <4>2
    <3> QED
      BY <3>1, <3>2, <3>3
  <2> QED
    BY <2>1, <2>2
<1>6. MonthShape'
  <2>1. periods' = [c \in Clients |-> [m \in Months |-> periods'[c][m]]]
    BY PeriodsAfterCommit
  <2> QED
    BY <2>1, <1>2, <1>4, <1>5 DEF MonthShape
<1>7. NothingBehindTheCount'
  BY <1>5 DEF NothingBehindTheCount
<1>8. Exclusive'
  <2> SUFFICES ASSUME NEW p \in Sessions, NEW q \in Sessions, p # q
               PROVE  sessions'[p].excl \cap (sessions'[q].excl \cup sessions'[q].share) = {}
    BY DEF Exclusive
  <2>1. CASE p = s \/ q = s
    BY <2>1, <1>2, <1>3
  <2>2. CASE p # s /\ q # s
    BY <2>2, <1>2 DEF MonthInv, Exclusive
  <2> QED
    BY <2>1, <2>2
<1>9. ASSUME NEW q \in Sessions
      PROVE  SessionOK(sessions[q])'
  <2>1. PICK y : y = sessions'[q]
    OBVIOUS
  <2>2. CASE q = s
    <3>1. /\ SessionShaped(y) /\ y.at = "idle" /\ y.share = {}
          /\ y.excl = {} /\ y.made = {} /\ y.shuts = {}
      BY <2>1, <2>2, <1>2, <1>3
    <3>2. SessionShaped(y) /\ MakesFew(y) /\ LocksFirst(y) /\ SharesOpen(y)' /\ CountsTrue(y)'
      BY <3>1 DEF MakesFew, LocksFirst, SharesOpen, CountsTrue, Serving
    <3> QED
      BY <2>1, <3>2 DEF SessionOK, SharesOpen, CountsTrue
  <2>3. CASE q # s
    <3>1. y = sessions[q] /\ SessionShaped(y) /\ MakesFew(y) /\ LocksFirst(y) /\ SharesOpen(y) /\ CountsTrue(y)
      BY <2>1, <2>3, <1>1, <1>2 DEF SessionOK
    <3>2. y.excl \cap (x.excl \cup x.share) = {} /\ x.excl \cap (y.excl \cup y.share) = {}
      BY <2>3, <3>1 DEF MonthInv, Exclusive
    <3>3. SharesOpen(y)'
      <4> SUFFICES ASSUME NEW c \in Clients, NEW m \in Months, <<c, m>> \in y.share
                   PROVE  periods'[c][m].status # "closed"
        BY DEF SharesOpen
      <4>1. <<c, m>> \notin x.excl
        BY <3>2
      <4>2. periods'[c][m] = periods[c][m]
        BY <4>1, PeriodsAfterCommit
      <4> QED
        BY <4>2, <3>1 DEF SharesOpen
    <3>4. CountsTrue(y)'
      <4> SUFFICES ASSUME Serving(y, "batch"), ~y.call.force, NEW r \in books',
                          <<r.client, r.month>> \in y.shuts, Blocks(r)
                   PROVE  FALSE
        BY DEF CountsTrue
      <4>1. <<r.client, r.month>> \in y.excl
        BY <3>1 DEF LocksFirst
      <4>2. CASE r \in x.made
        BY <4>1, <4>2, <3>2, <1>1 DEF MakesFew
      <4>3. CASE r \notin x.made
        <5>1. PICK z \in books : z.client = r.client /\ z.month = r.month /\ Blocks(z)
          BY <4>3, RowsAfterCommit
        <5> QED
          BY <5>1, <3>1 DEF CountsTrue
      <4> QED
        BY <4>2, <4>3
    <3> QED
      BY <2>1, <3>1, <3>3, <3>4 DEF SessionOK, SharesOpen, CountsTrue
  <2> QED
    BY <2>2, <2>3
<1> QED
  BY <1>6, <1>7, <1>8, <1>9 DEF MonthInv

LEMMA MonthStep ==
  ASSUME MonthEndAssumption, MonthInv, [MonthEndNext]_monthEndVars
  PROVE  MonthInv'
<1>1. ASSUME UNCHANGED <<periods, books, sessions>>
      PROVE  MonthInv'
  <2>1. MonthShape' /\ Exclusive' /\ NothingBehindTheCount'
    BY <1>1 DEF MonthInv, MonthShape, Exclusive, NothingBehindTheCount
  <2>2. ASSUME NEW s \in Sessions
        PROVE  SessionOK(sessions[s])'
    BY <1>1 DEF MonthInv, SessionOK, SharesOpen, CountsTrue
  <2> QED
    BY <2>1, <2>2 DEF MonthInv
<1>2. ASSUME NEW s \in Sessions, NEW r \in FirmRequests, Begin(s, r)
      PROVE  MonthInv'
  BY <1>2, MonthBegin
<1>3. ASSUME NEW s \in Sessions, Post(s) \/ SortReads(s) \/ SortPosts(s)
      PROVE  MonthInv'
  BY <1>3, MonthPost, MonthSortReads, MonthSortPosts
<1>4. ASSUME NEW s \in Sessions, Sum(s) \/ RevalPosts(s) \/ RevalInserts(s) \/ RevalBack(s) \/ Flip(s)
      PROVE  MonthInv'
  BY <1>4, MonthSum, MonthRevalPosts, MonthRevalInserts, MonthRevalBack, MonthFlip
<1>5. ASSUME NEW s \in Sessions, Resolve(s) \/ LockRow(s) \/ Count(s) \/ CommitCall(s)
      PROVE  MonthInv'
  BY <1>5, MonthResolve, MonthLockRow, MonthCount, MonthCommit
<1>6. ASSUME NEW s \in Sessions, Victim(s)
      PROVE  MonthInv'
  BY <1>6, QuitKeeps DEF Victim, Tables
<1>7. ASSUME NEW c \in Clients, Annotate(c)
      PROVE  MonthInv'
  BY <1>7, <1>1 DEF Annotate
<1>8. ASSUME NEW m \in 1..NMonths, NEW rate \in Rates, NewRate(m, rate)
      PROVE  MonthInv'
  BY <1>8, <1>1 DEF NewRate
<1>9. CASE UNCHANGED monthEndVars
  BY <1>9, <1>1 DEF monthEndVars
<1> QED
  BY <1>2, <1>3, <1>4, <1>5, <1>6, <1>7, <1>8, <1>9 DEF MonthEndNext

LEMMA MonthInitially ==
  ASSUME MonthEndAssumption, MonthEndInit
  PROVE  MonthInv
<1>1. /\ periods = [c \in Clients |-> [m \in Months |-> OpenPeriod]]
      /\ sessions = [s \in Sessions |-> IdleSession] /\ books = {}
  BY DEF MonthEndInit
<1>2. \A c \in Clients, m \in Months : periods[c][m] = OpenPeriod
  BY <1>1
<1>3. OpenPeriod.via # "batch"
  BY DEF OpenPeriod, MonthEndAssumption
<1>4. MonthShape /\ NothingBehindTheCount
  <2>1. periods = [c \in Clients |-> [m \in Months |-> periods[c][m]]]
    BY <1>1, <1>2
  <2> QED
    BY <2>1, <1>1, <1>2, <1>3 DEF MonthShape, NothingBehindTheCount
<1>5. PICK n : n = IdleSession
  OBVIOUS
<1>6. /\ n.at = "idle" /\ n.share = {} /\ n.excl = {} /\ n.made = {} /\ n.shuts = {}
      /\ SessionShaped(n)
  BY <1>5 DEF IdleSession, SessionShaped
<1>7. SessionOK(n)
  BY <1>6 DEF SessionOK, MakesFew, LocksFirst, SharesOpen, CountsTrue, Serving
<1>8. \A s \in Sessions : sessions[s] = n
  BY <1>1, <1>5
<1>9. Exclusive
  BY <1>6, <1>8 DEF Exclusive
<1> QED
  BY <1>4, <1>7, <1>8, <1>9 DEF MonthInv

\* For any clients, sessions, months and requests: as long as a month stays closed
\* by a batch that nobody forced, no entry of it waits for approval or a category.
\* A blocker can come from a post alone, which shares the month it found open, and
\* the count is made and its month closed under a lock no sharer outlives.
THEOREM NothingSlipsBehind ==
  ASSUME MonthEndAssumption
  PROVE  MonthEndSpec => []NothingBehindTheCount
<1>1. MonthEndInit => MonthInv
  BY MonthInitially
<1>2. MonthInv /\ [MonthEndNext]_monthEndVars => MonthInv'
  BY MonthStep
<1>3. MonthInv => NothingBehindTheCount
  BY DEF MonthInv
<1> QED
  BY <1>1, <1>2, <1>3, PTL DEF MonthEndSpec

-----------------------------------------------------------------------------
(* Month end: a month is revalued at most once, and what revalues it is taken  *)
(* back at the start of the next.                                              *)

\* A row has a month and amounts.
RowTyped(r) == r.month \in Months /\ r.of \in Months /\ r.face \in Int /\ r.base \in Int

\* b takes back what revalues the month and the client of r.
Pair(r, b) == b.key = "back" /\ b.client = r.client /\ b.of = r.of

\* In the books B, a month has at most one revaluation, which counts in that month,
\* and exactly when it has one, the opposite in the next.
Revalued(B) ==
  /\ \A r \in B : r.key = "reval" => r.status = "reversed" /\ r.month = r.of
  /\ \A r, x \in B : r.key = "reval" /\ IsReval(x, r.client, r.of) => x = r
  /\ \A b \in B : b.key = "back" => b.status = "posted" /\ b.month = NextDay(b.of)
  /\ \A b, x \in B : b.key = "back" /\ Pair(b, x) => x = b
  /\ \A r \in B : r.key = "reval" => \E b \in B : Pair(r, b) /\ b.base = -r.base
  /\ \A b \in B : b.key = "back" => \E r \in B : r.key = "reval" /\ Pair(r, b)

RevalOf(x) == Reval(Head(x.queue), x.call.month, x.delta)
BackOf(x)  == Back(Head(x.queue), x.call.month, x.delta)

\* A close makes the two entries one after the other, or none.
Revalues(x) ==
  /\ x.delta \in Int
  /\ \/ x.at \in {"sum", "post", "insert"} /\ x.made = {}
     \/ x.at = "next" /\ x.made \in {{}, {RevalOf(x)}}
     \/ x.at \in {"flip", "commit"} /\ x.made \in {{}, {RevalOf(x), BackOf(x)}}

FxSession(x) ==
  /\ x.at # "idle" => x.call \in FirmRequests
  /\ x.at = "idle" => x.made = {}
  /\ Serving(x, "sort") => x.month \in Months
  /\ IsFiniteSet(x.made) /\ \A r \in x.made : RowTyped(r)
  /\ IF Serving(x, "close") THEN Revalues(x)
     ELSE \A r \in x.made : r.key \notin {"reval", "back"}

\* A revaluation that is about to commit is the only one of its month.
OnlyReval(s, r) ==
  /\ \A x \in books : ~IsReval(x, r.client, r.of)
  /\ \A q \in Sessions : q # s => \A x \in sessions[q].made : ~IsReval(x, r.client, r.of)
Apart == \A s \in Sessions : \A r \in sessions[s].made : r.key = "reval" => OnlyReval(s, r)

FxInv ==
  /\ rates \in [Months -> Rates]
  /\ IsFiniteSet(books) /\ \A r \in books : RowTyped(r)
  /\ Revalued(books) /\ Apart
  /\ \A s \in Sessions : FxSession(sessions[s])

\* The revaluations and their opposites of the months before cancel: what is left
\* of them is the revaluation of the month itself.
LEMMA RevaluedNets ==
  ASSUME MonthEndAssumption, FxInv
  PROVE  RevaluationsNet
<1> SUFFICES ASSUME NEW c \in Clients, NEW m \in Months
             PROVE  LET Made == {r \in books : IsReval(r, c, m)}
                        Fx   == {r \in OnBooks(c, m) : r.key \in {"reval", "back"}}
                    IN  /\ Cardinality(Made) <= 1
                        /\ SumFunction([r \in Fx |-> r.base]) = SumFunction([r \in Made |-> r.base])
  BY DEF RevaluationsNet
<1> DEFINE Made == {r \in books : IsReval(r, c, m)}
           Fx   == {r \in OnBooks(c, m) : r.key \in {"reval", "back"}}
           A    == {r \in books : r.key = "reval" /\ r.client = c /\ r.of < m}
           h    == [r \in A |-> CHOOSE b \in books : Pair(r, b) /\ b.base = -r.base]
           B    == {h[r] : r \in A}
           f    == [r \in Fx |-> r.base]
           g    == [r \in Made |-> r.base]
<1>1. /\ \A x \in Months : x \in Int /\ NextDay(x) = x + 1
      /\ \A r \in books : RowTyped(r) /\ Revalued(books)
  BY DEF Months, NextDay, FxInv, MonthEndAssumption
<1>2. Cardinality(Made) <= 1
  <2>1. CASE Made = {}
    BY <2>1, FS_EmptySet
  <2>2. CASE Made # {}
    <3>1. PICK r \in Made : TRUE
      BY <2>2
    <3>2. Made = {r}
      BY <3>1, <1>1 DEF Revalued, IsReval
    <3>3. Cardinality({r}) = 1
      BY FS_Singleton
    <3> HIDE DEF Made
    <3>4. Cardinality(Made) = 1
      BY <3>2, <3>3
    <3> QED
      BY <3>4
  <2> QED
    BY <2>1, <2>2
<1>3. \A r \in A : /\ h[r] \in books /\ h[r].key = "back" /\ h[r].client = c /\ h[r].of = r.of
                   /\ h[r].base = -r.base
  BY <1>1 DEF Revalued, Pair
<1>4. \A r, x \in A : h[r] = h[x] => r = x
  <2>1. \A r, x \in A : h[r] = h[x] => IsReval(x, r.client, r.of)
    <3>1. \A r \in A : r.key = "reval" /\ r.client = c
      OBVIOUS
    <3> HIDE DEF h, A
    <3> QED
      BY <1>3, <3>1 DEF IsReval
  <2>2. \A r, x \in A : IsReval(x, r.client, r.of) => x = r
    BY <1>1 DEF Revalued
  <2> HIDE DEF h, A
  <2> QED
    BY <2>1, <2>2
<1>5. B = {b \in books : b.key = "back" /\ b.client = c /\ b.month <= m}
  <2>1. ASSUME NEW r \in A
        PROVE  h[r].month <= m
    <3>1. h[r] \in books /\ h[r].key = "back" /\ h[r].of = r.of /\ r.of < m /\ r \in books
      BY <1>3
    <3>2. h[r].month = h[r].of + 1 /\ h[r].of \in Int
      BY <1>1, <3>1 DEF Revalued, RowTyped
    <3>3. m \in Int
      BY <1>1
    <3> HIDE DEF h, A
    <3> QED
      BY <3>1, <3>2, <3>3
  <2>2. ASSUME NEW b \in books, b.key = "back", b.client = c, b.month <= m
        PROVE  \E r \in A : h[r] = b
    <3>1. PICK r \in books : r.key = "reval" /\ Pair(r, b)
      BY <1>1, <2>2 DEF Revalued
    <3>2. r \in A
      BY <1>1, <2>2, <3>1 DEF Revalued, RowTyped, Pair
    <3>3. h[r] = b
      BY <1>1, <1>3, <2>2, <3>1, <3>2 DEF Revalued, Pair
    <3> QED
      BY <3>2, <3>3
  <2> HIDE DEF h, A
  <2> QED
    BY <1>3, <2>1, <2>2
<1>6. Fx = (A \cup B) \cup Made
  <2>1. \A r \in books : r.key = "reval" => r.month = r.of /\ r.of \in Int /\ r.status = "reversed"
    BY <1>1 DEF Revalued, RowTyped
  <2>2. \A r \in books : r.key = "back" => r.status = "posted"
    BY <1>1 DEF Revalued
  <2>3. m \in Int
    BY <1>1
  <2> HIDE DEF B
  <2> QED
    BY <1>5, <2>1, <2>2, <2>3 DEF OnBooks, InBooks, IsReval
<1>7. IsFiniteSet(A) /\ IsFiniteSet(Made)
  BY FS_Subset DEF FxInv
<1>8. (A \cup B) \cap Made = {} /\ \A r \in A : h[r] \notin A
  <2>1. \A r \in A : r \notin Made
    BY <1>1 DEF IsReval
  <2>2. \A r \in A : h[r] \notin Made /\ h[r] \notin A
    BY <1>3 DEF IsReval
  <2> HIDE DEF A, h, Made
  <2> QED
    BY <2>1, <2>2
<1>9. /\ \A r \in (A \cup B) \cup Made : f[r] \in Int
      /\ \A r \in A : f[r] \in Int /\ f[h[r]] = -f[r]
      /\ \A r \in Made : f[r] = g[r]
  <2>1. \A r \in Fx : r \in books /\ r.base \in Int
    BY <1>1 DEF OnBooks, RowTyped
  <2>2. \A r \in A : r \in Fx /\ h[r] \in Fx
    <3> HIDE DEF Fx, A, h, Made
    <3> QED
      BY <1>6
  <2> HIDE DEF Fx, A, B, Made, h
  <2> QED
    BY <1>3, <1>6, <2>1, <2>2
<1>10. SumFunction(f) = SumFunctionOnSet(f, (A \cup B) \cup Made) /\ SumFunction(g) = SumFunctionOnSet(g, Made)
  <2>1. DOMAIN f = (A \cup B) \cup Made /\ DOMAIN g = Made
    BY <1>6
  <2> HIDE DEF f, g, A, B, Made
  <2> QED
    BY <2>1 DEF SumFunction
<1> HIDE DEF Made, Fx, A, h, f, g
<1>11. IsFiniteSet(B) /\ SumFunctionOnSet(f, A \cup B) = 0
  <2>1. \A r \in A : f[r] \in Int /\ f[h[r]] = -f[r]
    BY <1>9
  <2>2. \A r \in A : h[r] \notin A
    BY <1>8
  <2>3. IsFiniteSet(A)
    BY <1>7
  <2> QED
    BY <1>4, <2>1, <2>2, <2>3, SumOfPairs
<1> HIDE DEF B
<1>12. IsFiniteSet(A \cup B)
  BY <1>7, <1>11, FS_Union
<1>13. SumFunctionOnSet(f, (A \cup B) \cup Made) = SumFunctionOnSet(f, A \cup B) + SumFunctionOnSet(f, Made)
  BY <1>7, <1>8, <1>9, <1>12, SumOfParts
<1>14. SumFunctionOnSet(f, Made) = SumFunctionOnSet(g, Made) /\ SumFunctionOnSet(f, Made) \in Int
  BY <1>7, <1>9, SumsAgree, SumIsNumber
<1>15. SumFunction(f) = SumFunction(g)
  BY <1>10, <1>11, <1>13, <1>14
<1> QED
  BY <1>2, <1>15 DEF Made, Fx, f, g

\* Entries that revalue nothing do not matter.
LEMMA StillRevalued ==
  ASSUME NEW B, NEW C, Revalued(B),
         \A r : r.key \in {"reval", "back"} => (r \in C <=> r \in B)
  PROVE  Revalued(C)
<1>1. ASSUME NEW r \in C, r.key = "reval"
      PROVE  /\ r.status = "reversed" /\ r.month = r.of
             /\ \A x \in C : IsReval(x, r.client, r.of) => x = r
             /\ \E b \in C : Pair(r, b) /\ b.base = -r.base
  <2>1. r \in B
    BY <1>1
  <2>2. PICK b \in B : Pair(r, b) /\ b.base = -r.base
    BY <1>1, <2>1 DEF Revalued
  <2>3. b \in C
    BY <2>2 DEF Pair
  <2>4. \A x \in C : IsReval(x, r.client, r.of) => x \in B
    BY DEF IsReval
  <2> QED
    BY <1>1, <2>1, <2>2, <2>3, <2>4 DEF Revalued
<1>2. ASSUME NEW b \in C, b.key = "back"
      PROVE  /\ b.status = "posted" /\ b.month = NextDay(b.of)
             /\ \A x \in C : Pair(b, x) => x = b
             /\ \E r \in C : r.key = "reval" /\ Pair(r, b)
  <2>1. b \in B
    BY <1>2
  <2>2. PICK r \in B : r.key = "reval" /\ Pair(r, b)
    BY <1>2, <2>1 DEF Revalued
  <2>3. r \in C
    BY <2>2
  <2>4. \A x \in C : Pair(b, x) => x \in B
    BY DEF Pair
  <2> QED
    BY <1>2, <2>1, <2>2, <2>3, <2>4 DEF Revalued
<1> QED
  BY <1>1, <1>2 DEF Revalued

\* A revaluation and its opposite, the first of their month, may be added.
LEMMA RevaluedMore ==
  ASSUME NEW B, NEW C, Revalued(B), NEW R \in C, NEW K \in C,
         \A r : r.key \in {"reval", "back"} => (r \in C <=> r \in B \/ r = R \/ r = K),
         R.key = "reval", R.status = "reversed", R.month = R.of,
         K.status = "posted", K.month = NextDay(K.of), Pair(R, K), K.base = -R.base,
         \A x \in B : ~IsReval(x, R.client, R.of)
  PROVE  Revalued(C)
<1>1. \A b \in B : ~Pair(R, b)
  <2> SUFFICES ASSUME NEW b \in B, Pair(R, b) PROVE FALSE
    OBVIOUS
  <2>1. PICK r \in B : r.key = "reval" /\ Pair(r, b)
    BY DEF Revalued, Pair
  <2> QED
    BY <2>1 DEF Pair, IsReval
<1>2. ASSUME NEW r \in C, r.key = "reval"
      PROVE  /\ r.status = "reversed" /\ r.month = r.of
             /\ \A x \in C : IsReval(x, r.client, r.of) => x = r
             /\ \E b \in C : Pair(r, b) /\ b.base = -r.base
  <2>1. CASE r = R
    <3>1. \A x \in C : IsReval(x, R.client, R.of) => x = R
      BY DEF IsReval, Pair
    <3> QED
      BY <2>1, <3>1
  <2>2. CASE r # R
    <3>1. r \in B
      BY <1>2, <2>2 DEF Pair
    <3>2. PICK b \in B : Pair(r, b) /\ b.base = -r.base
      BY <1>2, <3>1 DEF Revalued
    <3>3. b \in C
      BY <3>2 DEF Pair
    <3>4. \A x \in C : IsReval(x, r.client, r.of) => x \in B
      BY <1>2, <3>1 DEF IsReval, Pair
    <3> QED
      BY <1>2, <3>1, <3>2, <3>3, <3>4 DEF Revalued
  <2> QED
    BY <2>1, <2>2
<1>3. ASSUME NEW b \in C, b.key = "back"
      PROVE  /\ b.status = "posted" /\ b.month = NextDay(b.of)
             /\ \A x \in C : Pair(b, x) => x = b
             /\ \E r \in C : r.key = "reval" /\ Pair(r, b)
  <2>1. CASE b = K
    <3>1. \A x \in C : Pair(K, x) => x = K
      BY <1>1 DEF Pair
    <3> QED
      BY <2>1, <3>1
  <2>2. CASE b # K
    <3>1. b \in B
      BY <1>3, <2>2
    <3>2. PICK r \in B : r.key = "reval" /\ Pair(r, b)
      BY <1>3, <3>1 DEF Revalued
    <3>3. r \in C
      BY <3>2
    <3>4. \A x \in C : Pair(b, x) => x \in B
      BY <1>1, <1>3, <3>1 DEF Pair
    <3> QED
      BY <1>3, <3>1, <3>2, <3>3, <3>4 DEF Revalued
  <2> QED
    BY <2>1, <2>2
<1> QED
  BY <1>2, <1>3 DEF Revalued

\* A statement that writes nothing.
LEMMA FxMoves ==
  ASSUME MonthInv, FxInv, NEW s \in Sessions, NEW n,
         sessions' = [sessions EXCEPT ![s] = n], UNCHANGED <<books, rates>>,
         FxSession(n), \A r \in n.made : r.key = "reval" => OnlyReval(s, r)
  PROVE  FxInv'
<1>1. sessions'[s] = n /\ \A q \in Sessions : q # s => sessions'[q] = sessions[q]
  BY DEF MonthInv, MonthShape
<1>2. Apart'
  <2> SUFFICES ASSUME NEW p \in Sessions, NEW r \in sessions'[p].made, r.key = "reval"
               PROVE  OnlyReval(p, r)'
    BY DEF Apart
  <2>1. CASE p = s
    <3>1. OnlyReval(s, r)
      BY <2>1, <1>1
    <3> QED
      BY <2>1, <3>1, <1>1 DEF OnlyReval
  <2>2. CASE p # s
    <3>1. OnlyReval(p, r)
      BY <2>2, <1>1 DEF FxInv, Apart
    <3>2. \A x \in n.made : ~IsReval(x, r.client, r.of)
      BY <2>2, <1>1 DEF OnlyReval, IsReval
    <3> QED
      BY <2>2, <3>1, <3>2, <1>1 DEF OnlyReval
  <2> QED
    BY <2>1, <2>2
<1>3. \A q \in Sessions : FxSession(sessions'[q])
  BY <1>1 DEF FxInv
<1> QED
  BY <1>2, <1>3 DEF FxInv

\* Most make nothing either.
LEMMA FxMakesNone ==
  ASSUME MonthInv, FxInv, NEW s \in Sessions, NEW n,
         sessions' = [sessions EXCEPT ![s] = n], UNCHANGED <<books, rates>>,
         FxSession(n), n.made \subseteq sessions[s].made
  PROVE  FxInv'
BY FxMoves DEF FxInv, Apart

LEMMA FxQuit ==
  ASSUME MonthInv, FxInv, NEW s \in Sessions, Quit(s), UNCHANGED <<books, rates>>
  PROVE  FxInv'
<1>1. PICK n : n = IdleSession
  OBVIOUS
<1>2. n.at = "idle" /\ n.made = {} /\ sessions' = [sessions EXCEPT ![s] = n]
  BY <1>1 DEF Quit, IdleSession
<1>3. FxSession(n)
  BY <1>2, FS_EmptySet DEF FxSession, Serving
<1> QED
  BY <1>2, <1>3, FxMakesNone

\* A call other than a close revalues nothing.
LEMMA FxOther ==
  ASSUME MonthInv, FxInv, NEW s \in Sessions, NEW n,
         sessions' = [sessions EXCEPT ![s] = n], UNCHANGED <<books, rates>>,
         ~At(s, "idle"), n.at # "idle", n.call = sessions[s].call, Req(s).op # "close",
         Req(s).op = "sort" => n.month \in Months,
         n.made = sessions[s].made
           \/ (IsFiniteSet(n.made)
                 /\ \A r \in n.made : RowTyped(r) /\ r.key \notin {"reval", "back"})
  PROVE  FxInv'
<1>1. FxSession(sessions[s])
  BY DEF FxInv
<1>2. FxSession(n)
  BY <1>1 DEF FxSession, Serving, At, Req
<1>3. \A r \in n.made : r.key # "reval"
  BY <1>2 DEF FxSession, Serving, Req
<1> QED
  BY <1>2, <1>3, FxMoves

LEMMA CallsTyped ==
  ASSUME MonthEndAssumption, NEW r \in FirmRequests
  PROVE  /\ r.op \in Ops /\ r.month \in 1..NMonths /\ r.face \in Int
         /\ r.month \in Months /\ NextDay(r.month) \in Months
<1>1. r.op \in Ops /\ r.month \in 1..NMonths /\ r.face \in Int
  BY DEF MonthEndAssumption, Request
<1> QED
  BY <1>1 DEF Months, NextDay, MonthEndAssumption

LEMMA RowOfTyped ==
  ASSUME NEW c, NEW m \in Months, NEW key, NEW trade, NEW of \in Months,
         NEW face \in Int, NEW base \in Int
  PROVE  LET r == RowOf(c, m, key, trade, of, face, base)
         IN  RowTyped(r) /\ r.key = key
BY DEF RowOf, RowTyped

LEMMA RatesTyped ==
  ASSUME MonthEndAssumption, FxInv, NEW m \in Months, NEW x \in Int
  PROVE  x * rates[m] \in Int
<1>1. rates[m] \in Int
  BY DEF MonthEndAssumption, FxInv
<1> QED
  BY <1>1

LEMMA FxBegin ==
  ASSUME MonthEndAssumption, MonthInv, FxInv, NEW s \in Sessions, NEW r \in FirmRequests, Begin(s, r)
  PROVE  FxInv'
<1>1. PICK n : n = [IdleSession EXCEPT !.at = FirstLabel(r.op), !.call = r,
                                       !.queue = r.clients, !.month = r.month]
  OBVIOUS
<1>2. sessions' = [sessions EXCEPT ![s] = n] /\ UNCHANGED <<books, rates>>
  BY <1>1 DEF Begin, Tables
<1>3. n.at = FirstLabel(r.op) /\ n.call = r /\ n.made = {} /\ n.month = r.month /\ n.delta = 0
  BY <1>1 DEF IdleSession
<1>4. r.op \in Ops /\ r.month \in Months
  BY CallsTyped
<1>5. n.at # "idle" /\ (r.op = "close" => n.at = "sum")
  BY <1>3, <1>4 DEF FirstLabel, Ops
<1>6. FxSession(n)
  BY <1>3, <1>4, <1>5, FS_EmptySet DEF FxSession, Serving, Revalues
<1> QED
  BY <1>2, <1>3, <1>6, FxMakesNone

LEMMA FxPost ==
  ASSUME MonthEndAssumption, MonthInv, FxInv, NEW s \in Sessions, Post(s)
  PROVE  FxInv'
<1> DEFINE r == Req(s)
<1>1. PICK made : made = RowOf(Client(s), r.month, "trade", r.trade, r.month, r.face, r.face * rates[r.month])
  OBVIOUS
<1>2. PICK row : row = [made EXCEPT !.status = IF r.held THEN "pending_review" ELSE "posted",
                                    !.sorted = r.sorted]
  OBVIOUS
<1>3. PICK n : n = [Sharing(s, <<Client(s), r.month>>) EXCEPT !.at = "commit", !.made = {row}]
  OBVIOUS
<1>4. SessionShaped(sessions[s]) /\ FxSession(sessions[s])
  BY DEF MonthInv, SessionOK, FxInv
<1>5. /\ UNCHANGED <<books, rates>> /\ ~At(s, "idle") /\ r.op = "post"
      /\ Quit(s) \/ sessions' = [sessions EXCEPT ![s] = n]
  BY <1>1, <1>2, <1>3 DEF Post, EnsureOpen, Tables, Serves
<1>6. RowTyped(row) /\ row.key = "trade"
  <2>1. r \in FirmRequests
    BY <1>4, <1>5 DEF FxSession, At, Req
  <2>2. r.month \in Months /\ r.face \in Int /\ r.face * rates[r.month] \in Int
    BY <2>1, CallsTyped, RatesTyped
  <2>3. RowTyped(made) /\ made.key = "trade" /\ RowShaped(made)
    BY <1>1, <2>2, RowOfTyped, RowOfShaped
  <2> QED
    BY <1>2, <2>3 DEF RowTyped, RowShaped
<1>7. /\ n.at = "commit" /\ n.made = {row} /\ n.call = sessions[s].call
  BY <1>3, <1>4 DEF Sharing, SessionShaped
<1>8. IsFiniteSet({row})
  BY FS_Singleton
<1> HIDE DEF r
<1>9. CASE Quit(s)
  BY <1>5, <1>9, FxQuit
<1>10. CASE ~Quit(s)
  <2>1. Req(s).op = "post"
    BY <1>5 DEF r
  <2> QED
    BY <2>1, <1>5, <1>6, <1>7, <1>8, <1>10, FxOther
<1> QED
  BY <1>9, <1>10

LEMMA FxSortReads ==
  ASSUME MonthEndAssumption, MonthInv, FxInv, NEW s \in Sessions, SortReads(s)
  PROVE  FxInv'
<1>1. /\ UNCHANGED <<books, rates>> /\ ~At(s, "idle") /\ SessionShaped(sessions[s])
      /\ Req(s).op = "sort"
  BY DEF SortReads, Tables, Serves, MonthInv, SessionOK
<1>2. CASE Quit(s)
  BY <1>1, <1>2, FxQuit
<1>3. CASE ~Quit(s)
  <2>1. PICK x \in Sorted(s) : sessions' = [sessions EXCEPT ![s] =
          [@ EXCEPT !.at = "share", !.queue = <<x.client>>,
                    !.month = IF IsClosed(<<x.client, x.month>>) THEN Current ELSE x.month]]
    BY <1>3 DEF SortReads
  <2>2. PICK m : m = IF IsClosed(<<x.client, x.month>>) THEN Current ELSE x.month
    OBVIOUS
  <2>3. m \in Months
    BY <2>2 DEF Sorted, FxInv, RowTyped, MonthEndAssumption
  <2>4. PICK n : n = [sessions[s] EXCEPT !.at = "share", !.queue = <<x.client>>, !.month = m]
    OBVIOUS
  <2>5. sessions' = [sessions EXCEPT ![s] = n]
    BY <2>1, <2>2, <2>4
  <2>6. n.at = "share" /\ n.call = sessions[s].call /\ n.made = sessions[s].made /\ n.month = m
    BY <2>4, <1>1 DEF SessionShaped
  <2> QED
    BY <2>3, <2>5, <2>6, <1>1, FxOther
<1> QED
  BY <1>2, <1>3

LEMMA FxSortPosts ==
  ASSUME MonthEndAssumption, MonthInv, FxInv, NEW s \in Sessions, SortPosts(s)
  PROVE  FxInv'
<1> DEFINE c == Client(s)
           m == sessions[s].month
<1>1. /\ UNCHANGED <<books, rates>> /\ ~At(s, "idle") /\ Req(s).op = "sort"
      /\ SessionShaped(sessions[s]) /\ FxSession(sessions[s]) /\ m \in Months
  BY DEF SortPosts, Tables, Serves, MonthInv, SessionOK, FxInv, FxSession, Serving, At, Req
<1>2. PICK x \in Sorted(s) :
        EnsureOpen(s, <<c, m>>, [Sharing(s, <<c, m>>) EXCEPT !.at = "commit", !.made =
          {RowOf(c, m, "undo", x.trade, x.month, -x.face, -x.base),
           RowOf(c, m, "again", x.trade, x.month, x.face, x.face * rates[m])}])
  BY DEF SortPosts
<1>3. PICK undo : undo = RowOf(c, m, "undo", x.trade, x.month, -x.face, -x.base)
  OBVIOUS
<1>4. PICK again : again = RowOf(c, m, "again", x.trade, x.month, x.face, x.face * rates[m])
  OBVIOUS
<1>5. RowTyped(undo) /\ undo.key = "undo" /\ RowTyped(again) /\ again.key = "again"
  <2>1. x.month \in Months /\ x.face \in Int /\ x.base \in Int
    BY DEF Sorted, FxInv, RowTyped
  <2>2. -x.face \in Int /\ -x.base \in Int /\ x.face * rates[m] \in Int
    BY <1>1, <2>1, RatesTyped
  <2> HIDE DEF c, m
  <2> QED
    BY <1>1, <1>3, <1>4, <2>1, <2>2, RowOfTyped
<1>6. PICK n : n = [Sharing(s, <<c, m>>) EXCEPT !.at = "commit", !.made = {undo, again}]
  OBVIOUS
<1>7. Quit(s) \/ sessions' = [sessions EXCEPT ![s] = n]
  BY <1>2, <1>3, <1>4, <1>6 DEF EnsureOpen
<1>8. n.at = "commit" /\ n.made = {undo, again} /\ n.call = sessions[s].call /\ n.month = m
  BY <1>6, <1>1 DEF Sharing, SessionShaped
<1>9. IsFiniteSet({undo, again})
  <2>1. IsFiniteSet({undo} \cup {again})
    BY FS_Singleton, FS_Union
  <2>2. {undo} \cup {again} = {undo, again}
    OBVIOUS
  <2> QED
    BY <2>1, <2>2
<1> HIDE DEF c, m
<1>10. CASE Quit(s)
  BY <1>1, <1>10, FxQuit
<1>11. CASE ~Quit(s)
  BY <1>1, <1>5, <1>7, <1>8, <1>9, <1>11, FxOther
<1> QED
  BY <1>10, <1>11

\* What a close revalues by is a number.
LEMMA DeltaTyped ==
  ASSUME MonthEndAssumption, FxInv, NEW c, NEW m \in Months
  PROVE  Delta(c, m) \in Int
<1> DEFINE S == OnBooks(c, m)
           f == [r \in S |-> r.face]
           g == [r \in S |-> r.base]
<1>1. IsFiniteSet(S)
  BY FS_Subset DEF FxInv, OnBooks
<1>2. \A r \in S : f[r] \in Int /\ g[r] \in Int
  BY DEF FxInv, OnBooks, RowTyped
<1>3. Face(c, m) = SumFunctionOnSet(f, S) /\ Carried(c, m) = SumFunctionOnSet(g, S)
  BY DEF Face, Carried, SumFunction
<1> HIDE DEF S, f, g
<1>4. Face(c, m) \in Int /\ Carried(c, m) \in Int
  BY <1>1, <1>2, <1>3, SumIsNumber
<1>5. Face(c, m) * rates[m] \in Int
  BY <1>4, RatesTyped
<1> QED
  BY <1>4, <1>5 DEF Delta

LEMMA FxSum ==
  ASSUME MonthEndAssumption, MonthInv, FxInv, NEW s \in Sessions, Sum(s)
  PROVE  FxInv'
<1>1. PICK delta : delta = Delta(Client(s), Req(s).month)
  OBVIOUS
<1>2. PICK n : n = [sessions[s] EXCEPT !.delta = delta, !.at = IF delta = 0 THEN "flip" ELSE "post"]
  OBVIOUS
<1>3. /\ sessions' = [sessions EXCEPT ![s] = n] /\ UNCHANGED <<books, rates>>
      /\ At(s, "sum") /\ Serving(sessions[s], "close") /\ SessionShaped(sessions[s])
      /\ FxSession(sessions[s])
  BY <1>1, <1>2 DEF Sum, Serves, Serving, At, Req, Tables, MonthInv, SessionOK, FxInv
<1>4. delta \in Int
  <2>1. Req(s) \in FirmRequests
    BY <1>3 DEF FxSession, Serving, Req
  <2> QED
    BY <1>1, <2>1, CallsTyped, DeltaTyped
<1>5. /\ n.at \in {"flip", "post"} /\ n.call = sessions[s].call /\ n.made = sessions[s].made
      /\ n.delta = delta
  BY <1>2, <1>3 DEF SessionShaped
<1>6. sessions[s].made = {}
  BY <1>3 DEF FxSession, Revalues, At
<1>7. FxSession(n)
  BY <1>3, <1>4, <1>5, <1>6 DEF FxSession, Serving, Revalues
<1> QED
  BY <1>3, <1>5, <1>7, FxMakesNone

LEMMA FxRevalPosts ==
  ASSUME MonthEndAssumption, MonthInv, FxInv, NEW s \in Sessions, RevalPosts(s)
  PROVE  FxInv'
<1> DEFINE c == Client(s)
           m == Req(s).month
<1>1. /\ UNCHANGED <<books, rates>> /\ At(s, "post") /\ Serving(sessions[s], "close")
      /\ SessionShaped(sessions[s]) /\ FxSession(sessions[s])
  BY DEF RevalPosts, Serves, Serving, At, Req, Tables, MonthInv, SessionOK, FxInv
<1>2. ASSUME NEW n, sessions' = [sessions EXCEPT ![s] = n], n.at \in {"next", "insert"},
             n.call = sessions[s].call, n.made = sessions[s].made, n.delta = sessions[s].delta
      PROVE  FxInv'
  <2>1. sessions[s].made = {}
    BY <1>1 DEF FxSession, Revalues, At
  <2>2. FxSession(n)
    BY <1>1, <1>2, <2>1 DEF FxSession, Serving, Revalues
  <2> QED
    BY <1>1, <1>2, <2>2, FxMakesNone
<1>3. CASE Quit(s)
  BY <1>1, <1>3, FxQuit
<1>4. CASE Goto(s, "next")
  <2>1. PICK n : n = [sessions[s] EXCEPT !.at = "next"]
    OBVIOUS
  <2>2. sessions' = [sessions EXCEPT ![s] = n]
    BY <1>4, <2>1 DEF Goto
  <2>3. /\ n.at = "next" /\ n.call = sessions[s].call /\ n.made = sessions[s].made
        /\ n.delta = sessions[s].delta
    BY <2>1, <1>1 DEF SessionShaped
  <2> QED
    BY <1>2, <2>2, <2>3
<1>5. CASE ~Quit(s) /\ ~Goto(s, "next")
  <2>1. PICK n : n = [Sharing(s, <<c, m>>) EXCEPT !.at = "insert"]
    OBVIOUS
  <2>2. sessions' = [sessions EXCEPT ![s] = n]
    BY <1>5, <2>1 DEF RevalPosts, EnsureOpen
  <2>3. /\ n.at = "insert" /\ n.call = sessions[s].call /\ n.made = sessions[s].made
        /\ n.delta = sessions[s].delta
    BY <2>1, <1>1 DEF SessionShaped, Sharing
  <2> QED
    BY <1>2, <2>2, <2>3
<1> QED
  BY <1>3, <1>4, <1>5

\* The two entries of a revaluation have types, and opposite amounts.
LEMMA EntriesTyped ==
  ASSUME MonthEndAssumption, NEW x, x.call \in FirmRequests, x.delta \in Int
  PROVE  /\ RowTyped(RevalOf(x)) /\ RowTyped(BackOf(x)) /\ Pair(RevalOf(x), BackOf(x))
         /\ RevalOf(x).key = "reval" /\ RevalOf(x).status = "reversed"
         /\ RevalOf(x).month = RevalOf(x).of
         /\ RevalOf(x).client = Head(x.queue) /\ RevalOf(x).of = x.call.month
         /\ BackOf(x).status = "posted" /\ BackOf(x).month = NextDay(BackOf(x).of)
         /\ BackOf(x).base = -RevalOf(x).base
<1>1. /\ x.call.month \in Months /\ NextDay(x.call.month) \in Months
      /\ 0 \in Int /\ -x.delta \in Int
  BY CallsTyped
<1> QED
  BY <1>1 DEF RevalOf, BackOf, Reval, Back, RowOf, RowTyped, Pair

LEMMA FxRevalInserts ==
  ASSUME MonthEndAssumption, MonthInv, FxInv, NEW s \in Sessions, RevalInserts(s)
  PROVE  FxInv'
<1> DEFINE c == Client(s)
           m == Req(s).month
<1>1. /\ UNCHANGED <<books, rates>> /\ At(s, "insert") /\ Serving(sessions[s], "close")
      /\ SessionShaped(sessions[s]) /\ FxSession(sessions[s])
      /\ \A q \in Others(s) : \A x \in sessions[q].made : ~IsReval(x, c, m)
  BY DEF RevalInserts, Serves, Serving, At, Req, Tables, MonthInv, SessionOK, FxInv
<1>2. sessions[s].made = {} /\ sessions[s].delta \in Int /\ sessions[s].call \in FirmRequests
  BY <1>1 DEF FxSession, Revalues, At, Serving
<1>3. CASE Quit(s)
  BY <1>1, <1>3, FxQuit
<1>4. CASE ~Quit(s) /\ \E x \in books : IsReval(x, c, m)
  <2>1. PICK n : n = [sessions[s] EXCEPT !.at = "next", !.share = @ \ {<<c, m>>}]
    OBVIOUS
  <2>2. sessions' = [sessions EXCEPT ![s] = n]
    BY <1>4, <2>1 DEF RevalInserts
  <2>3. /\ n.at = "next" /\ n.call = sessions[s].call /\ n.made = sessions[s].made
        /\ n.delta = sessions[s].delta
    BY <2>1, <1>1 DEF SessionShaped
  <2>4. FxSession(n)
    BY <1>1, <1>2, <2>3 DEF FxSession, Serving, Revalues
  <2> QED
    BY <1>1, <2>2, <2>3, <2>4, FxMakesNone
<1>5. CASE ~Quit(s) /\ ~\E x \in books : IsReval(x, c, m)
  <2>1. PICK n : n = [sessions[s] EXCEPT !.at = "next", !.made = {Reval(c, m, sessions[s].delta)}]
    OBVIOUS
  <2>2. sessions' = [sessions EXCEPT ![s] = n]
    BY <1>5, <2>1 DEF RevalInserts
  <2>3. /\ n.at = "next" /\ n.call = sessions[s].call /\ n.queue = sessions[s].queue
        /\ n.made = {Reval(c, m, sessions[s].delta)} /\ n.delta = sessions[s].delta
    BY <2>1, <1>1 DEF SessionShaped
  <2>4. n.made = {RevalOf(n)}
    BY <2>3 DEF RevalOf, Client, Req
  <2>5. PICK row : row = RevalOf(n)
    OBVIOUS
  <2>6. RowTyped(row) /\ row.key = "reval" /\ row.client = c /\ row.of = m /\ n.made = {row}
    BY <1>2, <2>3, <2>4, <2>5, EntriesTyped DEF Client, Req
  <2>7. IsFiniteSet(n.made)
    BY <2>6, FS_Singleton
  <2>8. FxSession(n)
    BY <1>1, <1>2, <2>3, <2>4, <2>6, <2>7 DEF FxSession, Serving, Revalues
  <2>9. OnlyReval(s, row)
    BY <1>1, <1>5, <2>6 DEF OnlyReval, Others
  <2> QED
    BY <1>1, <2>2, <2>6, <2>8, <2>9, FxMoves
<1> QED
  BY <1>3, <1>4, <1>5

LEMMA FxRevalBack ==
  ASSUME MonthEndAssumption, MonthInv, FxInv, NEW s \in Sessions, RevalBack(s)
  PROVE  FxInv'
<1> DEFINE c == Client(s)
           p == <<c, NextDay(Req(s).month)>>
<1>1. /\ UNCHANGED <<books, rates>> /\ At(s, "next") /\ Serving(sessions[s], "close")
      /\ SessionShaped(sessions[s]) /\ FxSession(sessions[s])
  BY DEF RevalBack, Serves, Serving, At, Req, Tables, MonthInv, SessionOK, FxInv
<1>2. /\ sessions[s].made \in {{}, {RevalOf(sessions[s])}}
      /\ sessions[s].delta \in Int /\ sessions[s].call \in FirmRequests
  BY <1>1 DEF FxSession, Revalues, At, Serving
<1>3. PICK made : made = IF sessions[s].made = {} THEN {} ELSE sessions[s].made \cup {BackOf(sessions[s])}
  OBVIOUS
<1>4. PICK n : n = [Sharing(s, p) EXCEPT !.at = "flip", !.made = made]
  OBVIOUS
<1>5. /\ n.at = "flip" /\ n.call = sessions[s].call /\ n.queue = sessions[s].queue
      /\ n.made = made /\ n.delta = sessions[s].delta
  BY <1>4, <1>1 DEF SessionShaped, Sharing
<1>6. Quit(s) \/ sessions' = [sessions EXCEPT ![s] = n]
  <2>1. Sharing(s, p).made = sessions[s].made
    BY <1>1 DEF Sharing, SessionShaped
  <2>2. n = [Sharing(s, p) EXCEPT !.at = "flip",
               !.made = IF @ = {} THEN {} ELSE @ \cup {Back(c, Req(s).month, sessions[s].delta)}]
    BY <2>1, <1>3, <1>4 DEF BackOf, Client, Req
  <2> QED
    BY <2>2 DEF RevalBack, EnsureOpen
<1>7. RevalOf(n) = RevalOf(sessions[s]) /\ BackOf(n) = BackOf(sessions[s])
  BY <1>5 DEF RevalOf, BackOf
<1>8. PICK r, b : r = RevalOf(n) /\ b = BackOf(n)
  OBVIOUS
<1>9. RowTyped(r) /\ RowTyped(b) /\ Pair(r, b)
  BY <1>2, <1>5, <1>8, EntriesTyped
<1>10. n.made = {} \/ (n.made = {r, b} /\ r \in sessions[s].made)
  BY <1>2, <1>3, <1>5, <1>7, <1>8
<1>11. IsFiniteSet(n.made)
  <2>1. IsFiniteSet({r} \cup {b})
    BY FS_Singleton, FS_Union
  <2>2. {r} \cup {b} = {r, b}
    OBVIOUS
  <2> QED
    BY <2>1, <2>2, <1>10, FS_EmptySet
<1>12. FxSession(n)
  BY <1>1, <1>2, <1>5, <1>8, <1>9, <1>10, <1>11 DEF FxSession, Serving, Revalues
<1>13. \A x \in n.made : x.key = "reval" => OnlyReval(s, x)
  BY <1>9, <1>10 DEF FxInv, Apart, Pair
<1> HIDE DEF c, p
<1>14. CASE Quit(s)
  BY <1>1, <1>14, FxQuit
<1>15. CASE ~Quit(s)
  BY <1>1, <1>6, <1>12, <1>13, <1>15, FxMoves
<1> QED
  BY <1>14, <1>15

LEMMA FxFlip ==
  ASSUME MonthEndAssumption, MonthInv, FxInv, NEW s \in Sessions, Flip(s)
  PROVE  FxInv'
<1>1. PICK p : p = <<Client(s), Req(s).month>>
  OBVIOUS
<1>2. PICK n : n = [sessions[s] EXCEPT !.at = "commit", !.excl = {p}, !.shuts = {p}]
  OBVIOUS
<1>3. /\ sessions' = [sessions EXCEPT ![s] = n] /\ UNCHANGED <<books, rates>> /\ At(s, "flip")
      /\ SessionShaped(sessions[s]) /\ FxSession(sessions[s])
      /\ (Serving(sessions[s], "close") \/ Serving(sessions[s], "reopen"))
  BY <1>1, <1>2 DEF Flip, Tables, At, MonthInv, SessionOK, LocksFirst, FxInv
<1>4. /\ n.at = "commit" /\ n.call = sessions[s].call /\ n.queue = sessions[s].queue
      /\ n.made = sessions[s].made /\ n.delta = sessions[s].delta
  BY <1>2, <1>3 DEF SessionShaped
<1>5. CASE Serving(sessions[s], "reopen")
  BY <1>3, <1>4, <1>5, FxOther DEF At, Serving, Req
<1>6. CASE Serving(sessions[s], "close")
  <2>1. RevalOf(n) = RevalOf(sessions[s]) /\ BackOf(n) = BackOf(sessions[s])
    BY <1>4 DEF RevalOf, BackOf
  <2>2. FxSession(n)
    BY <1>3, <1>4, <1>6, <2>1 DEF FxSession, Serving, Revalues, At
  <2> QED
    BY <1>3, <1>4, <2>2, FxMakesNone
<1> QED
  BY <1>3, <1>5, <1>6

\* A batch makes no entry.
LEMMA FxBatch ==
  ASSUME MonthEndAssumption, MonthInv, FxInv, NEW s \in Sessions, Resolve(s) \/ LockRow(s) \/ Count(s)
  PROVE  FxInv'
<1>1. /\ UNCHANGED <<books, rates>> /\ ~At(s, "idle") /\ Req(s).op = "batch"
      /\ SessionShaped(sessions[s])
  BY DEF Resolve, LockRow, Count, Serves, Tables, MonthInv, SessionOK
<1>2. ASSUME NEW n, sessions' = [sessions EXCEPT ![s] = n], n.at # "idle",
             n.call = sessions[s].call, n.made = sessions[s].made
      PROVE  FxInv'
  BY <1>1, <1>2, FxOther
<1>3. CASE Resolve(s)
  <2>1. PICK rows : sessions' = [sessions EXCEPT ![s] =
                      IF rows = {} THEN NextClient(s, @) ELSE [@ EXCEPT !.rows = rows, !.at = "lock"]]
    BY <1>3 DEF Resolve
  <2>2. CASE rows = {}
    BY <1>1, <1>2, <2>1, <2>2, NextClientKeeps
  <2>3. CASE rows # {}
    <3>1. PICK n : n = [sessions[s] EXCEPT !.rows = rows, !.at = "lock"]
      OBVIOUS
    <3>2. n.at # "idle" /\ n.call = sessions[s].call /\ n.made = sessions[s].made
      BY <1>1, <3>1 DEF SessionShaped
    <3> QED
      BY <1>2, <2>1, <2>3, <3>1, <3>2
  <2> QED
    BY <2>2, <2>3
<1>4. CASE LockRow(s)
  <2>1. CASE ~IsClosed(Target(s))
    <3>1. PICK n : n = [sessions[s] EXCEPT !.at = "count", !.month = Target(s)[2],
                                           !.excl = @ \cup {Target(s)}]
      OBVIOUS
    <3>2. n.at # "idle" /\ n.call = sessions[s].call /\ n.made = sessions[s].made
      BY <1>1, <3>1 DEF SessionShaped
    <3>3. sessions' = [sessions EXCEPT ![s] = n]
      BY <1>4, <2>1, <3>1 DEF LockRow
    <3> QED
      BY <1>2, <3>2, <3>3
  <2>2. CASE IsClosed(Target(s)) /\ Cardinality(sessions[s].rows) = 1
    <3>1. sessions' = [sessions EXCEPT ![s] = NextClient(s, sessions[s])]
      BY <1>4, <2>2 DEF LockRow
    <3> QED
      BY <1>1, <1>2, <3>1, NextClientKeeps
  <2>3. CASE IsClosed(Target(s)) /\ Cardinality(sessions[s].rows) # 1
    <3>1. PICK n : n = [sessions[s] EXCEPT !.rows = @ \ {Target(s)[2]}]
      OBVIOUS
    <3>2. n.at # "idle" /\ n.call = sessions[s].call /\ n.made = sessions[s].made
      BY <1>1, <3>1 DEF SessionShaped, At
    <3>3. sessions' = [sessions EXCEPT ![s] = n]
      BY <1>4, <2>3, <3>1 DEF LockRow
    <3> QED
      BY <1>2, <3>2, <3>3
  <2> QED
    BY <2>1, <2>2, <2>3
<1>5. CASE Count(s)
  <2>1. PICK x : /\ \/ x = sessions[s]
                    \/ \E p : x = [sessions[s] EXCEPT !.shuts = @ \cup {p}, !.excl = @ \cup {p}]
                 /\ sessions' = [sessions EXCEPT ![s] = NextClient(s, x)]
    BY <1>5 DEF Count
  <2>2. SessionShaped(x) /\ x.call = sessions[s].call /\ x.made = sessions[s].made
    BY <1>1, <2>1 DEF SessionShaped
  <2> QED
    BY <1>2, <2>1, <2>2, NextClientKeeps
<1> QED
  BY <1>3, <1>4, <1>5

\* The entries a commit leaves, and which of them revalue.
LEMMA FxRows ==
  ASSUME MonthEndAssumption, MonthInv, FxInv, NEW s \in Sessions, CommitCall(s)
  PROVE  /\ IsFiniteSet(books') /\ \A r \in books' : RowTyped(r)
         /\ \A r : r.key \in {"reval", "back"} =>
                     (r \in books' <=> r \in books \/ r \in sessions[s].made)
<1> DEFINE Struck(x) == Serves(s, "sort") /\ x.trade = Req(s).trade /\ x.key = "trade"
           up == [x \in books |-> IF Struck(x) THEN [x EXCEPT !.status = "reversed"] ELSE x]
           U  == {up[x] : x \in books}
<1>1. books' = sessions[s].made \cup U
  <2>1. U = {IF Struck(x) THEN [x EXCEPT !.status = "reversed"] ELSE x : x \in books}
    OBVIOUS
  <2> QED
    BY <2>1 DEF CommitCall
<1>2. FxSession(sessions[s]) /\ IsFiniteSet(sessions[s].made) /\ \A r \in sessions[s].made : RowTyped(r)
  BY DEF FxInv, FxSession
<1>3. ASSUME NEW x \in books
      PROVE  /\ RowTyped(up[x]) /\ up[x].key = x.key
             /\ x.key # "trade" => up[x] = x
  <2>1. RowShaped(x) /\ RowTyped(x)
    BY DEF MonthInv, MonthShape, FxInv
  <2>2. CASE Struck(x)
    <3>1. up[x] = [x EXCEPT !.status = "reversed"] /\ x.key = "trade"
      BY <2>2
    <3> HIDE DEF up
    <3> QED
      BY <2>1, <3>1 DEF RowShaped, RowTyped
  <2>3. CASE ~Struck(x)
    BY <2>1, <2>3
  <2> QED
    BY <2>2, <2>3
<1>4. IsFiniteSet(U)
  <2>1. IsFiniteSet(books)
    BY DEF FxInv
  <2>2. up \in [books -> U] /\ \A y \in U : \E x \in books : up[x] = y
    OBVIOUS
  <2> HIDE DEF up, U
  <2>3. up \in Surjection(books, U)
    BY <2>2 DEF Surjection
  <2> QED
    BY <2>1, <2>3, FS_Surjection
<1> HIDE DEF up
<1>5. IsFiniteSet(books')
  BY <1>1, <1>2, <1>4, FS_Union
<1>6. \A r \in books' : RowTyped(r)
  BY <1>1, <1>2, <1>3
<1>7. ASSUME NEW r, r.key \in {"reval", "back"}
      PROVE  r \in books' <=> r \in books \/ r \in sessions[s].made
  <2>1. ASSUME r \in books
        PROVE  r \in U
    <3>1. up[r] = r
      BY <1>3, <1>7, <2>1
    <3> QED
      BY <2>1, <3>1
  <2>2. ASSUME r \in U
        PROVE  r \in books
    <3>1. PICK x \in books : r = up[x]
      BY <2>2
    <3> QED
      BY <1>3, <1>7, <3>1
  <2> QED
    BY <1>1, <2>1, <2>2
<1> QED
  BY <1>5, <1>6, <1>7

LEMMA FxCommit ==
  ASSUME MonthEndAssumption, MonthInv, FxInv, NEW s \in Sessions, CommitCall(s)
  PROVE  FxInv'
<1> DEFINE x == sessions[s]
<1>1. /\ FxSession(x) /\ x.at = "commit" /\ UNCHANGED rates /\ Quit(s)
      /\ Revalued(books) /\ Apart
  BY DEF FxInv, CommitCall, At
<1>2. /\ sessions'[s] = IdleSession
      /\ \A q \in Sessions : q # s => sessions'[q] = sessions[q]
  BY <1>1 DEF Quit, MonthInv, MonthShape
<1>3. IdleSession.at = "idle" /\ IdleSession.made = {}
  BY DEF IdleSession
<1>4. /\ IsFiniteSet(books') /\ \A r \in books' : RowTyped(r)
      /\ \A r : r.key \in {"reval", "back"} => (r \in books' <=> r \in books \/ r \in x.made)
  BY FxRows
<1>5. Revalued(books')
  <2>1. CASE \A r \in x.made : r.key \notin {"reval", "back"}
    <3>1. \A r : r.key \in {"reval", "back"} => (r \in books' <=> r \in books)
      BY <1>4, <2>1
    <3> QED
      BY <1>1, <3>1, StillRevalued
  <2>2. CASE Serving(x, "close") /\ x.made = {RevalOf(x), BackOf(x)}
    <3>1. x.delta \in Int /\ x.call \in FirmRequests
      BY <1>1, <2>2 DEF FxSession, Revalues, Serving
    <3>2. PICK r, b : r = RevalOf(x) /\ b = BackOf(x)
      OBVIOUS
    <3>3. /\ r.key = "reval" /\ r.status = "reversed" /\ r.month = r.of /\ Pair(r, b)
          /\ b.status = "posted" /\ b.month = NextDay(b.of) /\ b.base = -r.base
      BY <3>1, <3>2, EntriesTyped
    <3>4. x.made = {r, b}
      BY <2>2, <3>2
    <3> HIDE DEF x
    <3>5. r \in books' /\ b \in books'
      BY <1>4, <3>3, <3>4 DEF Pair
    <3>6. \A y : y.key \in {"reval", "back"} => (y \in books' <=> y \in books \/ y = r \/ y = b)
      BY <1>4, <3>4
    <3>7. \A y \in books : ~IsReval(y, r.client, r.of)
      BY <1>1, <3>3, <3>4 DEF Apart, OnlyReval, x
    <3> QED
      BY <1>1, <3>3, <3>5, <3>6, <3>7, RevaluedMore
  <2>3. CASE x.made = {}
    BY <2>1, <2>3
  <2> QED
    BY <1>1, <2>1, <2>2, <2>3 DEF FxSession, Revalues
<1>6. Apart'
  <2> SUFFICES ASSUME NEW p \in Sessions, NEW r \in sessions'[p].made, r.key = "reval"
               PROVE  OnlyReval(p, r)'
    BY DEF Apart
  <2>1. p # s /\ sessions'[p] = sessions[p]
    BY <1>2, <1>3
  <2>2. OnlyReval(p, r)
    BY <1>1, <2>1 DEF Apart
  <2>3. \A y \in books' : ~IsReval(y, r.client, r.of)
    BY <1>4, <2>1, <2>2 DEF OnlyReval, IsReval
  <2>4. \A q \in Sessions : q # p => \A y \in sessions'[q].made : ~IsReval(y, r.client, r.of)
    BY <1>2, <1>3, <2>2 DEF OnlyReval
  <2> QED
    BY <2>3, <2>4 DEF OnlyReval
<1>7. \A q \in Sessions : FxSession(sessions'[q])
  <2>1. FxSession(IdleSession)
    BY <1>3, FS_EmptySet DEF FxSession, Serving
  <2> QED
    BY <1>2, <2>1 DEF FxInv
<1> QED
  BY <1>1, <1>4, <1>5, <1>6, <1>7 DEF FxInv

LEMMA FxStep ==
  ASSUME MonthEndAssumption, MonthInv, FxInv, [MonthEndNext]_monthEndVars
  PROVE  FxInv'
<1>1. ASSUME UNCHANGED <<books, sessions>>, rates' \in [Months -> Rates]
      PROVE  FxInv'
  BY <1>1 DEF FxInv, Apart, OnlyReval
<1>2. rates \in [Months -> Rates]
  BY DEF FxInv
<1>3. ASSUME NEW s \in Sessions, NEW r \in FirmRequests, Begin(s, r)
      PROVE  FxInv'
  BY <1>3, FxBegin
<1>4. ASSUME NEW s \in Sessions, Post(s) \/ SortReads(s) \/ SortPosts(s)
      PROVE  FxInv'
  BY <1>4, FxPost, FxSortReads, FxSortPosts
<1>5. ASSUME NEW s \in Sessions, Sum(s) \/ RevalPosts(s) \/ RevalInserts(s) \/ RevalBack(s) \/ Flip(s)
      PROVE  FxInv'
  BY <1>5, FxSum, FxRevalPosts, FxRevalInserts, FxRevalBack, FxFlip
<1>6. ASSUME NEW s \in Sessions, Resolve(s) \/ LockRow(s) \/ Count(s) \/ CommitCall(s)
      PROVE  FxInv'
  BY <1>6, FxBatch, FxCommit
<1>7. ASSUME NEW s \in Sessions, Victim(s)
      PROVE  FxInv'
  BY <1>7, FxQuit DEF Victim, Tables
<1>8. ASSUME NEW c \in Clients, Annotate(c)
      PROVE  FxInv'
  BY <1>8, <1>1, <1>2 DEF Annotate
<1>9. ASSUME NEW m \in 1..NMonths, NEW rate \in Rates, NewRate(m, rate)
      PROVE  FxInv'
  <2>1. rates' \in [Months -> Rates]
    BY <1>2, <1>9 DEF NewRate
  <2> QED
    BY <1>9, <2>1, <1>1 DEF NewRate
<1>10. CASE UNCHANGED monthEndVars
  BY <1>10, <1>1, <1>2 DEF monthEndVars
<1> QED
  BY <1>3, <1>4, <1>5, <1>6, <1>7, <1>8, <1>9, <1>10 DEF MonthEndNext

LEMMA FxInitially ==
  ASSUME MonthEndAssumption, MonthEndInit
  PROVE  FxInv
<1>1. /\ rates \in [Months -> Rates] /\ books = {}
      /\ \A s \in Sessions : sessions[s] = IdleSession
  BY DEF MonthEndInit
<1>2. IdleSession.at = "idle" /\ IdleSession.made = {}
  BY DEF IdleSession
<1>3. FxSession(IdleSession)
  BY <1>2, FS_EmptySet DEF FxSession, Serving
<1>4. Revalued(books) /\ Apart
  BY <1>1, <1>2 DEF Revalued, Apart
<1> QED
  BY <1>1, <1>3, <1>4, FS_EmptySet DEF FxInv

\* For any clients, sessions, months, rates and requests: a month is revalued at
\* most once, and in every month what the revaluations of the months before and
\* their opposites come to is nothing.  The revaluation and its opposite commit
\* together, and the wait for an insert of the same key keeps a second close out.
THEOREM RevaluationsAlwaysNet ==
  ASSUME MonthEndAssumption
  PROVE  MonthEndSpec => []RevaluationsNet
<1>1. MonthEndInit => MonthInv /\ FxInv
  BY MonthInitially, FxInitially
<1>2. (MonthInv /\ FxInv) /\ [MonthEndNext]_monthEndVars => (MonthInv /\ FxInv)'
  BY MonthStep, FxStep
<1>3. MonthInv /\ FxInv => RevaluationsNet
  BY RevaluedNets
<1> QED
  BY <1>1, <1>2, <1>3, PTL DEF MonthEndSpec

-----------------------------------------------------------------------------
(* Month end: what a session is in the middle of has its type, and there is    *)
(* always a client to serve when it serves one.                               *)

\* A call in flight has clients left to serve until it commits, and a month left
\* of those it looks through for one.
MonthSession(x) ==
  /\ x.at \in Labels /\ x.call \in FirmRequests \cup {None}
  /\ x.share \subseteq Periods /\ x.excl \subseteq Periods /\ x.made \subseteq Row
  /\ x.at # "idle" => /\ x.month \in Months /\ x.queue \in Seq(Clients)
                      /\ x.at # "commit" => x.queue # <<>>
  /\ x.at = "lock" => x.rows # {} /\ x.rows \subseteq 1..NMonths

Period == [status : {"open", "closed"}, via : Via, upto : Months]

MonthTyped ==
  /\ books \subseteq Row /\ waiting \subseteq Clients /\ calls \in 0..MaxCalls
  /\ \A c \in Clients, m \in Months : periods[c][m] \in Period
  /\ \A s \in Sessions : MonthSession(sessions[s])

LEMMA MonthTypesByInv ==
  ASSUME MonthInv, FxInv, MonthTyped PROVE MonthEndTypeOK
<1>1. periods \in [Clients -> [Months -> [status : {"open", "closed"}, via : Via, upto : Months]]]
  BY DEF MonthInv, MonthShape, MonthTyped, Period
<1>2. DOMAIN sessions = Sessions
  BY DEF MonthInv, MonthShape
<1>3. \A s \in Sessions : sessions[s].shuts \subseteq sessions[s].excl
  BY DEF MonthInv, SessionOK, LocksFirst
<1>4. rates \in [Months -> Rates]
  BY DEF FxInv
<1> QED
  BY <1>1, <1>2, <1>3, <1>4 DEF MonthTyped, MonthSession, MonthEndTypeOK

LEMMA NoCallTyped == MonthSession(IdleSession)
<1>1. /\ IdleSession.at = "idle" /\ IdleSession.call = None
      /\ IdleSession.share = {} /\ IdleSession.excl = {} /\ IdleSession.made = {}
  BY DEF IdleSession
<1> QED
  BY <1>1 DEF MonthSession, Labels

LEMMA MonthTypedInitially ==
  ASSUME MonthEndAssumption, MonthEndInit PROVE MonthTyped
<1>1. /\ periods = [c \in Clients |-> [m \in Months |-> OpenPeriod]]
      /\ books = {} /\ waiting = {} /\ calls = MaxCalls
      /\ \A s \in Sessions : sessions[s] = IdleSession
  BY DEF MonthEndInit
<1>2. calls \in 0..MaxCalls
  BY <1>1 DEF MonthEndAssumption
<1>3. OpenPeriod \in Period
  BY DEF OpenPeriod, Period, Via, Months, MonthEndAssumption
<1>4. \A c \in Clients, m \in Months : periods[c][m] \in Period
  BY <1>1, <1>3
<1>5. \A s \in Sessions : MonthSession(sessions[s])
  BY <1>1, NoCallTyped
<1> QED
  BY <1>1, <1>2, <1>4, <1>5 DEF MonthTyped

\* What a session knows while it serves a call.
LEMMA ServingKnows ==
  ASSUME MonthEndAssumption, MonthInv, FxInv, MonthTyped, NEW s \in Sessions, ~At(s, "idle")
  PROVE  /\ SessionShaped(sessions[s]) /\ MonthSession(sessions[s])
         /\ Req(s) \in FirmRequests /\ Req(s) = sessions[s].call
         /\ Req(s).op \in Ops /\ Req(s).month \in 1..NMonths /\ Req(s).month \in Months
         /\ NextDay(Req(s).month) \in Months /\ Req(s).face \in Int
         /\ sessions[s].month \in Months /\ sessions[s].queue \in Seq(Clients)
         /\ ~At(s, "commit") => sessions[s].queue # <<>> /\ Client(s) \in Clients
<1>1. SessionShaped(sessions[s]) /\ MonthSession(sessions[s]) /\ FxSession(sessions[s])
  BY DEF MonthInv, SessionOK, MonthTyped, FxInv
<1>2. Req(s) \in FirmRequests /\ Req(s) = sessions[s].call
  BY <1>1 DEF Req, FxSession, At
<1>3. /\ sessions[s].month \in Months /\ sessions[s].queue \in Seq(Clients)
      /\ ~At(s, "commit") => sessions[s].queue # <<>>
  BY <1>1 DEF MonthSession, At
<1>4. ~At(s, "commit") => Client(s) \in Clients
  BY <1>3 DEF Client
<1> QED
  BY <1>1, <1>2, <1>3, <1>4, CallsTyped

LEMMA TypedMoves ==
  ASSUME MonthInv, MonthTyped, NEW s \in Sessions, NEW n, MonthSession(n),
         sessions' = [sessions EXCEPT ![s] = n], UNCHANGED Tables, calls' \in 0..MaxCalls
  PROVE  MonthTyped'
<1>1. \A q \in Sessions : sessions'[q] = IF q = s THEN n ELSE sessions[q]
  BY DEF MonthInv, MonthShape
<1>2. \A q \in Sessions : MonthSession(sessions'[q])
  BY <1>1 DEF MonthTyped
<1>3. UNCHANGED <<periods, books, waiting>>
  BY DEF Tables
<1> QED
  BY <1>2, <1>3 DEF MonthTyped

\* A call that is refused, and one whose month is open.
LEMMA TypedOpens ==
  ASSUME MonthInv, MonthTyped, NEW s \in Sessions, NEW n, MonthSession(n),
         Quit(s) \/ sessions' = [sessions EXCEPT ![s] = n], UNCHANGED <<Tables, calls>>
  PROVE  MonthTyped'
<1>1. calls' \in 0..MaxCalls
  BY DEF MonthTyped
<1> QED
  BY <1>1, NoCallTyped, TypedMoves DEF Quit

\* What a session goes on with: other labels, locks and entries.
LEMMA GoesOnTyped ==
  ASSUME NEW x, MonthSession(x), x.at # "idle", x.at # "commit", NEW n,
         n.at \in Labels \ {"idle", "lock"}, n.call = x.call, n.queue = x.queue, n.month = x.month,
         n.share \subseteq Periods, n.excl \subseteq Periods, n.made \subseteq Row
  PROVE  MonthSession(n)
BY DEF MonthSession

LEMMA RowIsTyped ==
  ASSUME NEW c \in Clients, NEW m \in Months, NEW key \in {"trade", "undo", "again", "reval", "back"},
         NEW trade \in Trades \cup {None}, NEW of \in Months, NEW face \in Int, NEW base \in Int
  PROVE  RowOf(c, m, key, trade, of, face, base) \in Row
BY DEF RowOf, Row

LEMMA TypedBegin ==
  ASSUME MonthEndAssumption, MonthInv, MonthTyped, NEW s \in Sessions, NEW r \in FirmRequests, Begin(s, r)
  PROVE  MonthTyped'
<1>1. PICK n : n = [IdleSession EXCEPT !.at = FirstLabel(r.op), !.call = r,
                                       !.queue = r.clients, !.month = r.month]
  OBVIOUS
<1>2. /\ sessions' = [sessions EXCEPT ![s] = n] /\ UNCHANGED Tables
      /\ calls > 0 /\ calls' = calls - 1 /\ calls \in 0..MaxCalls /\ MaxCalls \in Nat
  BY <1>1 DEF Begin, MonthTyped, MonthEndAssumption
<1>3. /\ n.at = FirstLabel(r.op) /\ n.call = r /\ n.queue = r.clients /\ n.month = r.month
      /\ n.share = {} /\ n.excl = {} /\ n.made = {}
  BY <1>1 DEF IdleSession
<1>4. r.op \in Ops /\ r.month \in Months
  BY CallsTyped
<1>5. r.clients \in Seq(Clients) /\ r.clients # <<>>
  BY DEF MonthEndAssumption, Request
<1>6. n.at \in Labels \ {"idle", "lock"}
  BY <1>3, <1>4 DEF FirstLabel, Ops, Labels
<1>7. MonthSession(n)
  BY <1>3, <1>4, <1>5, <1>6 DEF MonthSession
<1>8. calls' \in 0..MaxCalls
  BY <1>2
<1> QED
  BY <1>2, <1>7, <1>8, TypedMoves

LEMMA TypedPost ==
  ASSUME MonthEndAssumption, MonthInv, FxInv, MonthTyped, NEW s \in Sessions, Post(s)
  PROVE  MonthTyped'
<1> DEFINE r == Req(s)
<1>1. PICK made : made = RowOf(Client(s), r.month, "trade", r.trade, r.month, r.face, r.face * rates[r.month])
  OBVIOUS
<1>2. PICK row : row = [made EXCEPT !.status = IF r.held THEN "pending_review" ELSE "posted",
                                    !.sorted = r.sorted]
  OBVIOUS
<1>3. PICK n : n = [Sharing(s, <<Client(s), r.month>>) EXCEPT !.at = "commit", !.made = {row}]
  OBVIOUS
<1>4. /\ UNCHANGED <<Tables, calls>> /\ ~At(s, "idle") /\ ~At(s, "commit")
      /\ Quit(s) \/ sessions' = [sessions EXCEPT ![s] = n]
  BY <1>1, <1>2, <1>3 DEF Post, EnsureOpen, Serves, At
<1>5. /\ SessionShaped(sessions[s]) /\ MonthSession(sessions[s]) /\ r \in FirmRequests
      /\ r.month \in Months /\ r.face \in Int /\ Client(s) \in Clients
  BY <1>4, ServingKnows
<1>6. r.trade \in Trades \cup {None} /\ r.sorted \in BOOLEAN
  BY <1>5 DEF MonthEndAssumption, Request
<1>7. row \in Row
  <2>1. r.face * rates[r.month] \in Int
    BY <1>5, RatesTyped
  <2>2. made \in Row
    BY <1>1, <1>5, <1>6, <2>1, RowIsTyped
  <2>3. PICK status, sorted : /\ status = IF r.held THEN "pending_review" ELSE "posted"
                              /\ sorted = r.sorted
    OBVIOUS
  <2>4. status \in {"pending_review", "posted", "reversed"} /\ sorted \in BOOLEAN
    BY <1>6, <2>3
  <2>5. row = [made EXCEPT !.status = status, !.sorted = sorted]
    BY <1>2, <2>3
  <2> QED
    BY <2>2, <2>4, <2>5 DEF Row
<1>8. /\ n.at = "commit" /\ n.made = {row} /\ n.call = sessions[s].call
      /\ n.queue = sessions[s].queue /\ n.month = sessions[s].month
      /\ n.share = sessions[s].share \cup {<<Client(s), r.month>>} /\ n.excl = sessions[s].excl
  BY <1>3, <1>5 DEF Sharing, SessionShaped
<1> HIDE DEF r
<1>9. MonthSession(n)
  <2>1. n.share \subseteq Periods /\ n.excl \subseteq Periods /\ n.made \subseteq Row
    BY <1>5, <1>7, <1>8 DEF MonthSession, Periods
  <2>2. n.at \in Labels \ {"idle", "lock"} /\ sessions[s].at # "idle" /\ sessions[s].at # "commit"
    BY <1>4, <1>8 DEF Labels, At
  <2> QED
    BY <1>5, <1>8, <2>1, <2>2, GoesOnTyped
<1> QED
  BY <1>4, <1>9, TypedOpens

LEMMA TypedSortReads ==
  ASSUME MonthEndAssumption, MonthInv, FxInv, MonthTyped, NEW s \in Sessions, SortReads(s)
  PROVE  MonthTyped'
<1>1. /\ UNCHANGED <<Tables, calls>> /\ ~At(s, "idle") /\ ~At(s, "commit")
  BY DEF SortReads, Serves, At
<1>2. SessionShaped(sessions[s]) /\ MonthSession(sessions[s])
  BY <1>1, ServingKnows
<1>3. CASE Quit(s)
  BY <1>1, <1>2, <1>3, TypedOpens
<1>4. CASE ~Quit(s)
  <2>1. PICK x \in Sorted(s) : sessions' = [sessions EXCEPT ![s] =
          [@ EXCEPT !.at = "share", !.queue = <<x.client>>,
                    !.month = IF IsClosed(<<x.client, x.month>>) THEN Current ELSE x.month]]
    BY <1>4 DEF SortReads
  <2>2. PICK m : m = IF IsClosed(<<x.client, x.month>>) THEN Current ELSE x.month
    OBVIOUS
  <2>3. PICK n : n = [sessions[s] EXCEPT !.at = "share", !.queue = <<x.client>>, !.month = m]
    OBVIOUS
  <2>4. sessions' = [sessions EXCEPT ![s] = n]
    BY <2>1, <2>2, <2>3
  <2>5. x \in Row
    BY <2>1 DEF Sorted, MonthTyped
  <2>6. m \in Months /\ x.client \in Clients
    BY <2>2, <2>5 DEF Row, MonthEndAssumption
  <2>7. /\ n.at = "share" /\ n.call = sessions[s].call /\ n.made = sessions[s].made
        /\ n.share = sessions[s].share /\ n.excl = sessions[s].excl
        /\ n.queue = <<x.client>> /\ n.month = m
    BY <2>3, <1>2 DEF SessionShaped
  <2>8. n.queue \in Seq(Clients) /\ n.queue # <<>>
    BY <2>6, <2>7
  <2>9. MonthSession(n)
    BY <1>2, <2>6, <2>7, <2>8 DEF MonthSession, Labels
  <2> QED
    BY <1>1, <2>4, <2>9, TypedOpens
<1> QED
  BY <1>3, <1>4

LEMMA TypedSortPosts ==
  ASSUME MonthEndAssumption, MonthInv, FxInv, MonthTyped, NEW s \in Sessions, SortPosts(s)
  PROVE  MonthTyped'
<1>1. PICK c, m : c = Client(s) /\ m = sessions[s].month
  OBVIOUS
<1>2. /\ UNCHANGED <<Tables, calls>> /\ ~At(s, "idle") /\ ~At(s, "commit")
  BY DEF SortPosts, Serves, At
<1>3. SessionShaped(sessions[s]) /\ MonthSession(sessions[s]) /\ c \in Clients /\ m \in Months
  BY <1>1, <1>2, ServingKnows
<1>4. PICK x \in Sorted(s) :
        EnsureOpen(s, <<c, m>>, [Sharing(s, <<c, m>>) EXCEPT !.at = "commit", !.made =
             {RowOf(c, m, "undo", x.trade, x.month, -x.face, -x.base),
              RowOf(c, m, "again", x.trade, x.month, x.face, x.face * rates[m])}])
  BY <1>1 DEF SortPosts
<1>5. PICK undo, again : /\ undo = RowOf(c, m, "undo", x.trade, x.month, -x.face, -x.base)
                         /\ again = RowOf(c, m, "again", x.trade, x.month, x.face, x.face * rates[m])
  OBVIOUS
<1>6. PICK n : n = [Sharing(s, <<c, m>>) EXCEPT !.at = "commit", !.made = {undo, again}]
  OBVIOUS
<1>7. undo \in Row /\ again \in Row
  <2>1. x \in Row
    BY DEF Sorted, MonthTyped
  <2>2. /\ x.trade \in Trades \cup {None} /\ x.month \in Months /\ x.face \in Int
        /\ -x.face \in Int /\ -x.base \in Int
    BY <2>1 DEF Row
  <2>3. x.face * rates[m] \in Int
    BY <1>3, <2>2, RatesTyped
  <2> QED
    BY <1>3, <1>5, <2>2, <2>3, RowIsTyped
<1>8. Quit(s) \/ sessions' = [sessions EXCEPT ![s] = n]
  BY <1>4, <1>5, <1>6 DEF EnsureOpen
<1>9. /\ n.at = "commit" /\ n.made = {undo, again} /\ n.call = sessions[s].call
      /\ n.queue = sessions[s].queue /\ n.month = sessions[s].month
      /\ n.share = sessions[s].share \cup {<<c, m>>} /\ n.excl = sessions[s].excl
  BY <1>3, <1>6 DEF Sharing, SessionShaped
<1>10. MonthSession(n)
  <2>1. n.share \subseteq Periods /\ n.excl \subseteq Periods /\ n.made \subseteq Row
    BY <1>3, <1>7, <1>9 DEF MonthSession, Periods
  <2>2. n.at \in Labels \ {"idle", "lock"} /\ sessions[s].at # "idle" /\ sessions[s].at # "commit"
    BY <1>2, <1>9 DEF Labels, At
  <2> QED
    BY <1>3, <1>9, <2>1, <2>2, GoesOnTyped
<1> QED
  BY <1>2, <1>8, <1>10, TypedOpens

LEMMA TypedSum ==
  ASSUME MonthEndAssumption, MonthInv, FxInv, MonthTyped, NEW s \in Sessions, Sum(s)
  PROVE  MonthTyped'
<1>1. PICK delta : delta = Delta(Client(s), Req(s).month)
  OBVIOUS
<1>2. PICK n : n = [sessions[s] EXCEPT !.delta = delta, !.at = IF delta = 0 THEN "flip" ELSE "post"]
  OBVIOUS
<1>3. /\ sessions' = [sessions EXCEPT ![s] = n] /\ UNCHANGED <<Tables, calls>>
      /\ ~At(s, "idle") /\ ~At(s, "commit")
  BY <1>1, <1>2 DEF Sum, Serves, At
<1>4. SessionShaped(sessions[s]) /\ MonthSession(sessions[s])
  BY <1>3, ServingKnows
<1>5. /\ n.at \in {"flip", "post"} /\ n.call = sessions[s].call /\ n.made = sessions[s].made
      /\ n.queue = sessions[s].queue /\ n.month = sessions[s].month
      /\ n.share = sessions[s].share /\ n.excl = sessions[s].excl
  BY <1>2, <1>4 DEF SessionShaped
<1>6. MonthSession(n)
  BY <1>3, <1>4, <1>5 DEF MonthSession, Labels, At
<1> QED
  BY <1>3, <1>6, TypedOpens

LEMMA TypedRevalPosts ==
  ASSUME MonthEndAssumption, MonthInv, FxInv, MonthTyped, NEW s \in Sessions, RevalPosts(s)
  PROVE  MonthTyped'
<1>1. PICK c, m : c = Client(s) /\ m = Req(s).month
  OBVIOUS
<1>2. PICK n : n = [sessions[s] EXCEPT !.at = "next"]
  OBVIOUS
<1>3. PICK k : k = [Sharing(s, <<c, m>>) EXCEPT !.at = "insert"]
  OBVIOUS
<1>4. /\ UNCHANGED <<Tables, calls>> /\ ~At(s, "idle") /\ ~At(s, "commit")
      /\ \/ Quit(s) \/ sessions' = [sessions EXCEPT ![s] = n]
         \/ sessions' = [sessions EXCEPT ![s] = k]
  BY <1>1, <1>2, <1>3 DEF RevalPosts, Serves, EnsureOpen, Goto, At
<1>5. SessionShaped(sessions[s]) /\ MonthSession(sessions[s]) /\ <<c, m>> \in Periods
  BY <1>1, <1>4, ServingKnows DEF Periods
<1>6. /\ n.at = "next" /\ n.call = sessions[s].call /\ n.made = sessions[s].made
      /\ n.queue = sessions[s].queue /\ n.month = sessions[s].month
      /\ n.share = sessions[s].share /\ n.excl = sessions[s].excl
  BY <1>2, <1>5 DEF SessionShaped
<1>7. /\ k.at = "insert" /\ k.call = sessions[s].call /\ k.made = sessions[s].made
      /\ k.queue = sessions[s].queue /\ k.month = sessions[s].month
      /\ k.share = sessions[s].share \cup {<<c, m>>} /\ k.excl = sessions[s].excl
  BY <1>3, <1>5 DEF SessionShaped, Sharing
<1>8. MonthSession(n) /\ MonthSession(k)
  BY <1>4, <1>5, <1>6, <1>7 DEF MonthSession, Labels, At
<1> QED
  BY <1>4, <1>8, TypedOpens

LEMMA TypedRevalInserts ==
  ASSUME MonthEndAssumption, MonthInv, FxInv, MonthTyped, NEW s \in Sessions, RevalInserts(s)
  PROVE  MonthTyped'
<1>1. PICK c, m, reval : c = Client(s) /\ m = Req(s).month /\ reval = Reval(c, m, sessions[s].delta)
  OBVIOUS
<1>2. PICK n : n = [sessions[s] EXCEPT !.at = "next", !.share = @ \ {<<c, m>>}]
  OBVIOUS
<1>3. PICK k : k = [sessions[s] EXCEPT !.at = "next", !.made = {reval}]
  OBVIOUS
<1>4. /\ UNCHANGED <<Tables, calls>> /\ ~At(s, "idle") /\ ~At(s, "commit")
      /\ \/ Quit(s) \/ sessions' = [sessions EXCEPT ![s] = n]
         \/ sessions' = [sessions EXCEPT ![s] = k]
  BY <1>1, <1>2, <1>3 DEF RevalInserts, Serves, At
<1>5. /\ SessionShaped(sessions[s]) /\ MonthSession(sessions[s])
      /\ c \in Clients /\ m \in Months
  BY <1>1, <1>4, ServingKnows
<1>6. reval \in Row
  <2>1. sessions[s].delta \in Int
    BY DEF RevalInserts, FxInv, FxSession, Serves, Serving, At, Req, Revalues
  <2>2. PICK r : r = RowOf(c, m, "reval", None, m, 0, sessions[s].delta)
    OBVIOUS
  <2>3. r \in Row
    BY <1>5, <2>1, <2>2, RowIsTyped
  <2> QED
    BY <1>1, <2>2, <2>3 DEF Reval, Row
<1>7. /\ n.at = "next" /\ n.call = sessions[s].call /\ n.made = sessions[s].made
      /\ n.queue = sessions[s].queue /\ n.month = sessions[s].month
      /\ n.share = sessions[s].share \ {<<c, m>>} /\ n.excl = sessions[s].excl
  BY <1>2, <1>5 DEF SessionShaped
<1>8. /\ k.at = "next" /\ k.call = sessions[s].call /\ k.made = {reval}
      /\ k.queue = sessions[s].queue /\ k.month = sessions[s].month
      /\ k.share = sessions[s].share /\ k.excl = sessions[s].excl
  BY <1>3, <1>5 DEF SessionShaped
<1>9. MonthSession(n) /\ MonthSession(k)
  BY <1>4, <1>5, <1>6, <1>7, <1>8 DEF MonthSession, Labels, At
<1> QED
  BY <1>4, <1>9, TypedOpens

LEMMA TypedRevalBack ==
  ASSUME MonthEndAssumption, MonthInv, FxInv, MonthTyped, NEW s \in Sessions, RevalBack(s)
  PROVE  MonthTyped'
<1>1. PICK c, m, p : c = Client(s) /\ m = Req(s).month /\ p = <<c, NextDay(m)>>
  OBVIOUS
<1>2. PICK back : back = Back(c, m, sessions[s].delta)
  OBVIOUS
<1>3. PICK made : made = IF sessions[s].made = {} THEN {} ELSE sessions[s].made \cup {back}
  OBVIOUS
<1>4. PICK n : n = [Sharing(s, p) EXCEPT !.at = "flip", !.made = made]
  OBVIOUS
<1>5. /\ UNCHANGED <<Tables, calls>> /\ ~At(s, "idle") /\ ~At(s, "commit")
      /\ EnsureOpen(s, p, [Sharing(s, p) EXCEPT !.at = "flip",
           !.made = IF @ = {} THEN {} ELSE @ \cup {Back(c, m, sessions[s].delta)}])
  BY <1>1 DEF RevalBack, Serves, At
<1>6. /\ SessionShaped(sessions[s]) /\ MonthSession(sessions[s])
      /\ c \in Clients /\ m \in Months /\ NextDay(m) \in Months
  BY <1>1, <1>5, ServingKnows
<1>7. Quit(s) \/ sessions' = [sessions EXCEPT ![s] = n]
  <2>1. Sharing(s, p).made = sessions[s].made
    BY <1>6 DEF Sharing, SessionShaped
  <2> QED
    BY <1>2, <1>3, <1>4, <1>5, <2>1 DEF EnsureOpen
<1>8. back \in Row
  <2>1. sessions[s].delta \in Int
    BY DEF RevalBack, FxInv, FxSession, Serves, Serving, At, Req, Revalues
  <2>2. -sessions[s].delta \in Int
    BY <2>1
  <2> QED
    BY <1>2, <1>6, <2>2, RowIsTyped DEF Back
<1>9. /\ n.at = "flip" /\ n.call = sessions[s].call /\ n.made = made
      /\ n.queue = sessions[s].queue /\ n.month = sessions[s].month
      /\ n.share = sessions[s].share \cup {p} /\ n.excl = sessions[s].excl
  BY <1>4, <1>6 DEF SessionShaped, Sharing
<1>10. MonthSession(n)
  <2>1. n.share \subseteq Periods /\ n.excl \subseteq Periods /\ n.made \subseteq Row
    BY <1>1, <1>3, <1>6, <1>8, <1>9 DEF MonthSession, Periods
  <2>2. n.at \in Labels \ {"idle", "lock"} /\ sessions[s].at # "idle" /\ sessions[s].at # "commit"
    BY <1>5, <1>9 DEF Labels, At
  <2> QED
    BY <1>6, <1>9, <2>1, <2>2, GoesOnTyped
<1> QED
  BY <1>5, <1>7, <1>10, TypedOpens

LEMMA TypedFlip ==
  ASSUME MonthEndAssumption, MonthInv, FxInv, MonthTyped, NEW s \in Sessions, Flip(s)
  PROVE  MonthTyped'
<1>1. PICK p : p = <<Client(s), Req(s).month>>
  OBVIOUS
<1>2. PICK n : n = [sessions[s] EXCEPT !.at = "commit", !.excl = {p}, !.shuts = {p}]
  OBVIOUS
<1>3. /\ sessions' = [sessions EXCEPT ![s] = n] /\ UNCHANGED <<Tables, calls>>
      /\ ~At(s, "idle") /\ ~At(s, "commit")
  BY <1>1, <1>2 DEF Flip, At
<1>4. SessionShaped(sessions[s]) /\ MonthSession(sessions[s]) /\ p \in Periods
  BY <1>1, <1>3, ServingKnows DEF Periods
<1>5. /\ n.at = "commit" /\ n.call = sessions[s].call /\ n.made = sessions[s].made
      /\ n.queue = sessions[s].queue /\ n.month = sessions[s].month
      /\ n.share = sessions[s].share /\ n.excl = {p}
  BY <1>2, <1>4 DEF SessionShaped
<1>6. MonthSession(n)
  BY <1>3, <1>4, <1>5 DEF MonthSession, Labels, At
<1> QED
  BY <1>3, <1>6, TypedOpens

\* The next client of a batch, if there is one.
LEMMA NextClientTyped ==
  ASSUME NEW s, NEW x, SessionShaped(x), MonthSession(x), x.at # "idle", x.at # "commit"
  PROVE  MonthSession(NextClient(s, x))
<1>1. PICK at, queue : /\ at = IF Len(x.queue) = 1 THEN "commit" ELSE "resolve"
                       /\ queue = Tail(x.queue)
  OBVIOUS
<1>2. PICK n : n = [x EXCEPT !.queue = queue, !.at = at]
  OBVIOUS
<1>3. x.queue \in Seq(Clients) /\ x.queue # <<>> /\ x.month \in Months
  BY DEF MonthSession
<1>4. queue \in Seq(Clients) /\ (Len(x.queue) # 1 => queue # <<>>)
  <2>1. PICK q : q = x.queue
    OBVIOUS
  <2>2. q \in Seq(Clients) /\ q # <<>>
    BY <1>3, <2>1
  <2>3. Tail(q) \in Seq(Clients) /\ Len(Tail(q)) = Len(q) - 1 /\ Len(q) \in Nat
    BY <2>2, HeadTailProperties, LenProperties
  <2>4. Len(<<>>) = 0 /\ Len(q) # 0
    BY <2>2, EmptySeq
  <2>5. ASSUME Tail(q) = <<>> PROVE Len(q) = 1
    <3>1. Len(Tail(q)) = 0
      BY <2>4, <2>5, Zenon
    <3>2. PICK rest, all : rest = Len(Tail(q)) /\ all = Len(q)
      OBVIOUS
    <3>3. rest = all - 1 /\ all \in Nat /\ rest = 0
      BY <2>3, <3>1, <3>2, Zenon
    <3>4. all = 1
      BY <3>3
    <3> QED
      BY <3>2, <3>4, Zenon
  <2> QED
    BY <1>1, <2>1, <2>3, <2>5
<1>5. /\ n.at = at /\ n.call = x.call /\ n.made = x.made /\ n.queue = queue
      /\ n.month = x.month /\ n.share = x.share /\ n.excl = x.excl
  BY <1>2 DEF SessionShaped
<1>6. MonthSession(n)
  BY <1>1, <1>3, <1>4, <1>5 DEF MonthSession, Labels
<1> QED
  BY <1>1, <1>2, <1>6 DEF NextClient

LEMMA TypedResolve ==
  ASSUME MonthEndAssumption, MonthInv, FxInv, MonthTyped, NEW s \in Sessions, Resolve(s)
  PROVE  MonthTyped'
<1>1. PICK rows : rows = {m \in 1..Req(s).month : ~IsClosed(<<Client(s), m>>)}
  OBVIOUS
<1>2. PICK n : n = IF rows = {} THEN NextClient(s, sessions[s])
                   ELSE [sessions[s] EXCEPT !.rows = rows, !.at = "lock"]
  OBVIOUS
<1>3. /\ sessions' = [sessions EXCEPT ![s] = n] /\ UNCHANGED <<Tables, calls>>
      /\ ~At(s, "idle") /\ ~At(s, "commit")
  BY <1>1, <1>2 DEF Resolve, Serves, At
<1>4. /\ SessionShaped(sessions[s]) /\ MonthSession(sessions[s]) /\ Req(s).month \in 1..NMonths
  BY <1>3, ServingKnows
<1>5. rows \subseteq 1..NMonths
  BY <1>1, <1>4 DEF MonthEndAssumption
<1>6. CASE rows = {}
  <2>1. MonthSession(n)
    BY <1>2, <1>3, <1>4, <1>6, NextClientTyped DEF At
  <2> QED
    BY <1>3, <2>1, TypedOpens
<1>7. CASE rows # {}
  <2>1. /\ n.at = "lock" /\ n.call = sessions[s].call /\ n.made = sessions[s].made /\ n.rows = rows
        /\ n.queue = sessions[s].queue /\ n.month = sessions[s].month
        /\ n.share = sessions[s].share /\ n.excl = sessions[s].excl
    BY <1>2, <1>4, <1>7 DEF SessionShaped
  <2>2. MonthSession(n)
    BY <1>3, <1>4, <1>5, <1>7, <2>1 DEF MonthSession, Labels, At
  <2> QED
    BY <1>3, <2>2, TypedOpens
<1> QED
  BY <1>6, <1>7

LEMMA TypedLockRow ==
  ASSUME MonthEndAssumption, MonthInv, FxInv, MonthTyped, NEW s \in Sessions, LockRow(s)
  PROVE  MonthTyped'
<1>1. PICK m, p : m = Max(sessions[s].rows) /\ p = <<Client(s), m>>
  OBVIOUS
<1>2. /\ UNCHANGED <<Tables, calls>> /\ sessions[s].at = "lock" /\ ~At(s, "idle") /\ ~At(s, "commit")
  BY DEF LockRow, Serves, At
<1>3. /\ SessionShaped(sessions[s]) /\ MonthSession(sessions[s]) /\ Client(s) \in Clients
  BY <1>2, ServingKnows
<1>4. sessions[s].rows # {} /\ sessions[s].rows \subseteq 1..NMonths
  BY <1>2, <1>3 DEF MonthSession
<1>5. m \in sessions[s].rows /\ m \in Months /\ p \in Periods /\ Target(s) = p /\ p[2] = m
  <2>1. \E x \in sessions[s].rows : \A y \in sessions[s].rows : x >= y
    BY <1>4, LargestExists DEF MonthEndAssumption
  <2>2. m \in sessions[s].rows
    BY <1>1, <2>1 DEF Max
  <2>3. m \in Months
    BY <1>4, <2>2 DEF Months, MonthEndAssumption
  <2> QED
    BY <1>1, <1>3, <2>2, <2>3 DEF Target, Periods
<1>6. PICK n : n = [sessions[s] EXCEPT !.at = "count", !.month = m, !.excl = @ \cup {p}]
  OBVIOUS
<1>7. PICK k : k = [sessions[s] EXCEPT !.rows = @ \ {m}]
  OBVIOUS
<1>8. \/ sessions' = [sessions EXCEPT ![s] = n]
      \/ sessions' = [sessions EXCEPT ![s] = NextClient(s, sessions[s])]
      \/ Cardinality(sessions[s].rows) # 1 /\ sessions' = [sessions EXCEPT ![s] = k]
  BY <1>5, <1>6, <1>7 DEF LockRow
<1>9. MonthSession(n)
  <2>1. /\ n.at = "count" /\ n.call = sessions[s].call /\ n.made = sessions[s].made
        /\ n.queue = sessions[s].queue /\ n.month = m
        /\ n.share = sessions[s].share /\ n.excl = sessions[s].excl \cup {p}
    BY <1>3, <1>6 DEF SessionShaped
  <2> QED
    BY <1>2, <1>3, <1>5, <2>1 DEF MonthSession, Labels
<1>10. MonthSession(NextClient(s, sessions[s]))
  BY <1>2, <1>3, NextClientTyped DEF At
<1>11. ASSUME Cardinality(sessions[s].rows) # 1
       PROVE  MonthSession(k)
  <2>1. /\ k.at = sessions[s].at /\ k.call = sessions[s].call /\ k.made = sessions[s].made
        /\ k.queue = sessions[s].queue /\ k.month = sessions[s].month
        /\ k.rows = sessions[s].rows \ {m}
        /\ k.share = sessions[s].share /\ k.excl = sessions[s].excl
    BY <1>3, <1>7 DEF SessionShaped
  <2>2. k.rows # {}
    <3>1. CASE sessions[s].rows = {m}
      BY <1>11, <3>1, FS_Singleton
    <3> QED
      BY <1>5, <2>1, <3>1
  <2> QED
    BY <1>3, <1>4, <2>1, <2>2 DEF MonthSession
<1> QED
  BY <1>2, <1>8, <1>9, <1>10, <1>11, TypedOpens

LEMMA TypedCount ==
  ASSUME MonthEndAssumption, MonthInv, FxInv, MonthTyped, NEW s \in Sessions, Count(s)
  PROVE  MonthTyped'
<1>1. PICK p, counted : /\ p = <<Client(s), sessions[s].month>>
                        /\ counted = (~Req(s).force /\ Blocked(p[1], p[2]))
  OBVIOUS
<1>2. PICK x : x = [sessions[s] EXCEPT !.shuts = @ \cup {p}, !.excl = @ \cup {p}]
  OBVIOUS
<1>3. /\ UNCHANGED <<Tables, calls>> /\ ~At(s, "idle") /\ ~At(s, "commit")
      /\ \/ sessions' = [sessions EXCEPT ![s] = NextClient(s, sessions[s])]
         \/ sessions' = [sessions EXCEPT ![s] = NextClient(s, x)]
  BY <1>1, <1>2 DEF Count, Serves, At
<1>4. SessionShaped(sessions[s]) /\ MonthSession(sessions[s]) /\ p \in Periods
  BY <1>1, <1>3, ServingKnows DEF Periods
<1>5. /\ x.at = sessions[s].at /\ x.call = sessions[s].call /\ x.made = sessions[s].made
      /\ x.queue = sessions[s].queue /\ x.month = sessions[s].month /\ x.rows = sessions[s].rows
      /\ x.share = sessions[s].share /\ x.excl = sessions[s].excl \cup {p} /\ SessionShaped(x)
  BY <1>2, <1>4 DEF SessionShaped
<1>6. MonthSession(x)
  BY <1>4, <1>5 DEF MonthSession
<1>7. MonthSession(NextClient(s, sessions[s])) /\ MonthSession(NextClient(s, x))
  BY <1>3, <1>4, <1>5, <1>6, NextClientTyped DEF At
<1> QED
  BY <1>3, <1>7, TypedOpens

LEMMA TypedCommit ==
  ASSUME MonthEndAssumption, MonthInv, FxInv, MonthTyped, NEW s \in Sessions, CommitCall(s)
  PROVE  MonthTyped'
<1>1. ~At(s, "idle")
  BY DEF CommitCall, At
<1>2. MonthSession(sessions[s]) /\ Req(s).month \in Months
  BY <1>1, ServingKnows
<1>3. books' \subseteq Row
  <2>1. books \subseteq Row /\ sessions[s].made \subseteq Row
    BY <1>2 DEF MonthTyped, MonthSession
  <2>2. \A x \in Row : [x EXCEPT !.status = "reversed"] \in Row
    BY DEF Row
  <2> QED
    BY <2>1, <2>2 DEF CommitCall
<1>4. ASSUME NEW c \in Clients, NEW m \in Months
      PROVE  periods'[c][m] \in Period
  <2>1. OpenPeriod \in Period
    BY DEF OpenPeriod, Period, Via, Months, MonthEndAssumption
  <2>2. Closed(s) \in Period
    <3>1. PICK via : /\ via \in Via
                     /\ Closed(s) = [status |-> "closed", upto |-> Req(s).month, via |-> via]
      BY DEF Closed, Via
    <3> QED
      BY <1>2, <3>1 DEF Period
  <2>3. periods[c][m] \in Period
    BY DEF MonthTyped
  <2>4. periods'[c][m] = IF <<c, m>> \notin sessions[s].shuts THEN periods[c][m]
                         ELSE IF Serves(s, "reopen") THEN OpenPeriod ELSE Closed(s)
    BY DEF CommitCall
  <2> QED
    BY <2>1, <2>2, <2>3, <2>4
<1>5. \A q \in Sessions : MonthSession(sessions'[q])
  <2>1. \A q \in Sessions : sessions'[q] = IF q = s THEN IdleSession ELSE sessions[q]
    BY DEF CommitCall, Quit, MonthInv, MonthShape
  <2> QED
    BY <2>1, NoCallTyped DEF MonthTyped
<1>6. UNCHANGED <<waiting, calls>>
  BY DEF CommitCall
<1> QED
  BY <1>3, <1>4, <1>5, <1>6 DEF MonthTyped

LEMMA MonthTypedStep ==
  ASSUME MonthEndAssumption, MonthInv, FxInv, MonthTyped, [MonthEndNext]_monthEndVars
  PROVE  MonthTyped'
<1>1. calls \in 0..MaxCalls /\ (calls > 0 => calls - 1 \in 0..MaxCalls)
  BY DEF MonthTyped, MonthEndAssumption
<1>2. ASSUME NEW s \in Sessions, NEW r \in FirmRequests, Begin(s, r)
      PROVE  MonthTyped'
  BY <1>2, TypedBegin
<1>3. ASSUME NEW s \in Sessions, Post(s) \/ SortReads(s) \/ SortPosts(s)
      PROVE  MonthTyped'
  BY <1>3, TypedPost, TypedSortReads, TypedSortPosts
<1>4. ASSUME NEW s \in Sessions, Sum(s) \/ RevalPosts(s) \/ RevalInserts(s) \/ RevalBack(s) \/ Flip(s)
      PROVE  MonthTyped'
  BY <1>4, TypedSum, TypedRevalPosts, TypedRevalInserts, TypedRevalBack, TypedFlip
<1>5. ASSUME NEW s \in Sessions, Resolve(s) \/ LockRow(s) \/ Count(s) \/ CommitCall(s)
      PROVE  MonthTyped'
  BY <1>5, TypedResolve, TypedLockRow, TypedCount, TypedCommit
<1>6. ASSUME NEW s \in Sessions, Victim(s)
      PROVE  MonthTyped'
  BY <1>6, NoCallTyped, TypedOpens DEF Victim
<1>7. ASSUME NEW c \in Clients, Annotate(c)
      PROVE  MonthTyped'
  BY <1>1, <1>7 DEF Annotate, MonthTyped
<1>8. ASSUME NEW m \in 1..NMonths, NEW rate \in Rates, NewRate(m, rate)
      PROVE  MonthTyped'
  BY <1>1, <1>8 DEF NewRate, MonthTyped
<1>9. CASE UNCHANGED monthEndVars
  BY <1>9 DEF monthEndVars, MonthTyped
<1> QED
  BY <1>2, <1>3, <1>4, <1>5, <1>6, <1>7, <1>8, <1>9 DEF MonthEndNext

-----------------------------------------------------------------------------
(* Pages: an entry not read yet has a page's worth of entries before it for   *)
(* each page that was fetched.  Entries are added and never taken away, so it *)
(* only moves back, and a page that is not full is the last.                  *)

Entry ==
  [created : Nat, date : Dates, status : {"pending_review", "posted", "reversed"}, reverses : Nat,
   debit  : {p.debit : p \in Postings} \cup {p.credit : p \in Postings},
   credit : {p.debit : p \in Postings} \cup {p.credit : p \in Postings},
   amount : Nat, base : Nat]

BookInv == book \in Seq(Entry) /\ \A i \in 1..Len(book) : book[i].created = i

Before(i) == {j \in DOMAIN book : Newest(book[j], book[i])}
Seen(i)   == \E r \in ToSet(reading.rows) : r.created = i

ReadInv ==
  /\ reading = [state |-> reading.state, page |-> reading.page,
                rows |-> reading.rows, first |-> reading.first]
  /\ reading.page \in Nat /\ reading.first \in 0..Len(book) /\ \E S : reading.rows \in Seq(S)
  /\ reading.state = "paging" =>
       /\ reading.page * Page <= Len(book)
       /\ \A i \in 1..reading.first : Seen(i) \/ Place(i) >= reading.page * Page
  /\ reading.state = "done" => \A i \in 1..reading.first : Seen(i)

LEMMA EntriesAre ==
  ASSUME PagesAssumption, BookInv
  PROVE  /\ Len(book) \in Nat /\ DOMAIN book = 1..Len(book) /\ IsFiniteSet(1..Len(book))
         /\ Cardinality(1..Len(book)) = Len(book)
         /\ \A i \in 1..Len(book) :
              book[i] \in Entry /\ book[i].date \in Nat /\ book[i].created = i
<1>1. Len(book) \in Nat /\ DOMAIN book = 1..Len(book)
  BY DEF BookInv
<1>2. IsFiniteSet(1..Len(book)) /\ Cardinality(1..Len(book)) = Len(book)
  <2>1. PICK n \in Nat : n = Len(book)
    BY <1>1
  <2>2. IsFiniteSet(1..n) /\ Cardinality(1..n) = IF 1 > n THEN 0 ELSE n - 1 + 1
    BY FS_Interval
  <2>3. Cardinality(1..n) = n
    BY <2>2
  <2> QED
    BY <2>1, <2>2, <2>3
<1>3. ASSUME NEW i \in 1..Len(book)
      PROVE  book[i] \in Entry /\ book[i].date \in Nat /\ book[i].created = i
  <2>1. book[i] \in Entry /\ book[i].created = i
    BY DEF BookInv
  <2>2. book[i].date \in Dates
    BY <2>1 DEF Entry
  <2> QED
    BY <2>1, <2>2 DEF PagesAssumption
<1> QED
  BY <1>1, <1>2, <1>3

LEMMA EarlierIsBefore ==
  ASSUME PagesAssumption, BookInv, NEW i \in 1..Len(book), NEW j \in 1..Len(book),
         Newest(book[i], book[j])
  PROVE  Place(i) < Place(j)
<1>1. /\ IsFiniteSet(Before(i)) /\ Cardinality(Before(i)) \in Nat
      /\ IsFiniteSet(Before(j)) /\ Cardinality(Before(j)) \in Nat
  <2>1. IsFiniteSet(1..Len(book)) /\ Before(i) \subseteq 1..Len(book) /\ Before(j) \subseteq 1..Len(book)
    BY EntriesAre DEF Before
  <2> QED
    BY <2>1, FS_Subset, FS_CardinalityType
<1>2. Before(i) \subseteq Before(j)
  <2> SUFFICES ASSUME NEW k \in Before(i)
               PROVE  k \in Before(j)
    OBVIOUS
  <2>1. k \in 1..Len(book) /\ Newest(book[k], book[i])
    BY DEF Before, BookInv
  <2>2. \A m \in {i, j, k} : book[m].date \in Nat /\ book[m].created \in Nat
    BY <2>1, EntriesAre
  <2>3. Newest(book[k], book[j])
    BY <2>1, <2>2 DEF Newest
  <2> QED
    BY <2>1, <2>3 DEF Before, BookInv
<1>3. i \in Before(j) /\ i \notin Before(i)
  <2>1. book[i].date \in Nat /\ book[i].created \in Nat
    BY EntriesAre
  <2> QED
    BY <2>1, EntriesAre DEF Before, Newest
<1>4. Cardinality(Before(i)) < Cardinality(Before(j))
  BY <1>1, <1>2, <1>3, FS_Subset
<1> QED
  BY <1>4 DEF Place, Before

\* No two entries have one place.
LEMMA PlacesDiffer ==
  ASSUME PagesAssumption, BookInv, NEW i \in 1..Len(book), NEW j \in 1..Len(book), i # j
  PROVE  Place(i) # Place(j)
<1>1. /\ book[i].date \in Nat /\ book[j].date \in Nat
      /\ book[i].created = i /\ book[j].created = j
  BY EntriesAre
<1>2. Newest(book[i], book[j]) \/ Newest(book[j], book[i])
  BY <1>1 DEF Newest
<1>3. Place(i) \in Nat /\ Place(j) \in Nat
  <2>1. IsFiniteSet(1..Len(book)) /\ Before(i) \subseteq 1..Len(book) /\ Before(j) \subseteq 1..Len(book)
    BY EntriesAre DEF Before
  <2> QED
    BY <2>1, FS_Subset, FS_CardinalityType DEF Place, Before
<1> QED
  BY <1>2, <1>3, EarlierIsBefore

LEMMA PlaceIsInBook ==
  ASSUME PagesAssumption, BookInv, NEW i \in 1..Len(book)
  PROVE  Place(i) \in 0..(Len(book) - 1)
<1>1. IsFiniteSet(1..Len(book)) /\ Cardinality(1..Len(book)) = Len(book)
  BY EntriesAre
<1>2. Before(i) \subseteq 1..Len(book) /\ i \notin Before(i)
  <2>1. book[i].date \in Nat /\ book[i].created \in Nat
    BY EntriesAre
  <2> QED
    BY <2>1, EntriesAre DEF Before, Newest
<1>3. /\ IsFiniteSet(Before(i)) /\ Cardinality(Before(i)) \in Nat
      /\ Cardinality(Before(i)) <= Len(book) /\ Cardinality(Before(i)) # Len(book)
  BY <1>1, <1>2, FS_Subset, FS_CardinalityType
<1> QED
  BY <1>3 DEF Place, Before, BookInv

LEMMA UpToIsFinite ==
  ASSUME NEW n \in Nat PROVE IsFiniteSet(1..n)
BY FS_Interval

\* Whoever posts, approves or reverses: an entry does not move forward.
LEMMA PlacesGrow ==
  ASSUME PagesAssumption, BookInv, BookInv', Len(book) <= Len(book'),
         \A k \in 1..Len(book) : book'[k].date = book[k].date,
         NEW i \in 1..Len(book)
  PROVE  Place(i)' >= Place(i)
<1> DEFINE S == {j \in DOMAIN book' : Newest(book'[j], book'[i])}
<1>1. IsFiniteSet(S)
  <2>1. Len(book') \in Nat /\ S \subseteq 1..Len(book')
    BY DEF BookInv
  <2>2. IsFiniteSet(1..Len(book'))
    BY <2>1, UpToIsFinite
  <2> QED
    BY <2>1, <2>2, FS_Subset
<1>2. Before(i) \subseteq S
  <2> SUFFICES ASSUME NEW k \in Before(i)
               PROVE  k \in S
    OBVIOUS
  <2>1. k \in 1..Len(book) /\ Newest(book[k], book[i])
    BY DEF Before, BookInv
  <2>2. k \in DOMAIN book' /\ i \in DOMAIN book'
    BY <2>1 DEF BookInv
  <2>3. \A m \in {i, k} : book'[m].date = book[m].date /\ book'[m].created = book[m].created
    BY <2>1 DEF BookInv
  <2>4. Newest(book'[k], book'[i])
    BY <2>1, <2>3 DEF Newest
  <2> QED
    BY <2>2, <2>4
<1>3. /\ Cardinality(Before(i)) \in Nat /\ Cardinality(S) \in Nat
      /\ Cardinality(Before(i)) <= Cardinality(S)
  BY <1>1, <1>2, FS_Subset, FS_CardinalityType
<1> QED
  BY <1>3 DEF Place, Before

\* A page has the entries in its places, and is short only where the book ends.
LEMMA PageHasItsRows ==
  ASSUME PagesAssumption, BookInv, NEW p \in Nat, p * Page <= Len(book)
  PROVE  /\ \E S : Rows(p) \in Seq(S)
         /\ Len(Rows(p)) \in 0..Page
         /\ Len(Rows(p)) = Page => (p + 1) * Page <= Len(book)
         /\ Len(Rows(p)) < Page => Len(book) < (p + 1) * Page
         /\ \A i \in 1..Len(book) :
              Place(i) >= p * Page /\ Place(i) < (p + 1) * Page =>
                \E r \in ToSet(Rows(p)) : r.created = i
<1>1. PICK off \in Nat : off = p * Page
  BY DEF PagesAssumption
<1>2. (p + 1) * Page = off + Page /\ Page \in Nat \ {0} /\ off <= Len(book) /\ Len(book) \in Nat
  BY <1>1 DEF PagesAssumption, BookInv
<1>3. PICK size : size = Min({Page, Len(book) - p * Page})
  OBVIOUS
<1>4. /\ size \in Nat /\ size <= Page /\ size <= Len(book) - off
      /\ size = Page \/ size = Len(book) - off
  <2>1. \E x \in {Page, Len(book) - off} : \A y \in {Page, Len(book) - off} : x <= y
    BY <1>2
  <2>2. size \in {Page, Len(book) - off} /\ \A y \in {Page, Len(book) - off} : size <= y
    BY <2>1, <1>1, <1>3 DEF Min
  <2> QED
    BY <2>2, <1>2
<1>5. Rows(p) = [n \in 1..size |-> RowAt(off + n - 1)]
  BY <1>1, <1>3 DEF Rows
<1>6. /\ \E S : Rows(p) \in Seq(S)
      /\ Len(Rows(p)) = size /\ DOMAIN Rows(p) = 1..size
  <2>1. PICK f : f = [n \in 1..size |-> RowAt(off + n - 1)]
    OBVIOUS
  <2>2. PICK S : S = {f[n] : n \in 1..size}
    OBVIOUS
  <2>3. f \in [1..size -> S] /\ DOMAIN f = 1..size
    BY <2>1, <2>2
  <2>4. f \in Seq(S) /\ Len(f) = size
    BY <1>4, <2>3
  <2> QED
    BY <1>5, <2>1, <2>3, <2>4
<1>7. ASSUME NEW i \in 1..Len(book), Place(i) >= off, Place(i) < off + Page
      PROVE  \E r \in ToSet(Rows(p)) : r.created = i
  <2>1. PICK n : n = Place(i) - off + 1
    OBVIOUS
  <2>2. Place(i) \in Nat /\ Place(i) < Len(book)
    BY <1>2, PlaceIsInBook
  <2>3. n \in 1..size /\ off + n - 1 = Place(i)
    BY <2>1, <2>2, <1>2, <1>4, <1>7
  <2>4. i = CHOOSE j \in DOMAIN book : Place(j) = Place(i)
    <3>1. DOMAIN book = 1..Len(book)
      BY DEF BookInv
    <3>2. \A j \in DOMAIN book : Place(j) = Place(i) => j = i
      BY <3>1, PlacesDiffer
    <3> QED
      BY <3>1, <3>2
  <2>5. RowAt(Place(i)) = book[i]
    BY <2>4 DEF RowAt
  <2>6. Rows(p)[n] = book[i] /\ n \in DOMAIN Rows(p)
    BY <2>3, <2>5, <1>5, <1>6
  <2>7. book[i].created = i
    BY DEF BookInv
  <2> QED
    BY <2>6, <2>7 DEF ToSet
<1> QED
  BY <1>1, <1>2, <1>4, <1>6, <1>7

\* Posting, approving and reversing leave the read as far as it was.
LEMMA BookMoves ==
  ASSUME PagesAssumption, BookInv, ReadInv, BookInv', UNCHANGED reading,
         Len(book) <= Len(book'),
         \A k \in 1..Len(book) : book'[k].date = book[k].date
  PROVE  ReadInv'
<1>1. /\ Len(book) \in Nat /\ Len(book') \in Nat
      /\ reading.page \in Nat /\ reading.first \in 0..Len(book)
  BY DEF BookInv, ReadInv
<1>2. ASSUME NEW i \in 1..reading.first
      PROVE  Place(i) \in Nat /\ Place(i)' \in Nat /\ Place(i)' >= Place(i)
  <2>1. i \in 1..Len(book)
    BY <1>1
  <2>2. Place(i)' \in Nat
    <3> DEFINE S == {j \in DOMAIN book' : Newest(book'[j], book'[i])}
    <3>1. Len(book') \in Nat /\ S \subseteq 1..Len(book')
      BY DEF BookInv
    <3>2. IsFiniteSet(1..Len(book'))
      BY <3>1, UpToIsFinite
    <3> QED
      BY <3>1, <3>2, FS_Subset, FS_CardinalityType DEF Place
  <2> QED
    BY <2>1, <2>2, <1>1, PlaceIsInBook, PlacesGrow
<1>3. PICK off \in Nat : off = reading.page * Page
  BY <1>1 DEF PagesAssumption
<1>4. reading.state = "paging" =>
        /\ off <= Len(book') /\ \A i \in 1..reading.first : Seen(i) \/ Place(i)' >= off
  BY <1>1, <1>2, <1>3 DEF ReadInv
<1> QED
  BY <1>1, <1>3, <1>4 DEF ReadInv, Seen

LEMMA PagesPost ==
  ASSUME PagesAssumption, BookInv, ReadInv,
         NEW p \in Postings, NEW d \in Dates, NEW s \in {"posted", "pending_review"},
         PostEntry(p, d, s)
  PROVE  BookInv' /\ ReadInv'
<1>1. PICK e : e = [created |-> Len(book) + 1, date |-> d, status |-> s, reverses |-> 0,
                    debit |-> p.debit, credit |-> p.credit, amount |-> p.amount, base |-> p.base]
  OBVIOUS
<1>2. e \in Entry /\ e.created = Len(book) + 1 /\ book' = Append(book, e) /\ UNCHANGED reading
  BY <1>1 DEF PostEntry, Entry, BookInv, PagesAssumption
<1>3. /\ book' \in Seq(Entry) /\ Len(book') = Len(book) + 1 /\ book'[Len(book) + 1] = e
      /\ \A k \in 1..Len(book) : book'[k] = book[k]
  BY <1>2 DEF BookInv
<1>4. BookInv'
  BY <1>2, <1>3 DEF BookInv
<1> QED
  BY <1>2, <1>3, <1>4, BookMoves DEF BookInv

LEMMA PagesApprove ==
  ASSUME PagesAssumption, BookInv, ReadInv, NEW i \in DOMAIN book, ApproveEntry(i)
  PROVE  BookInv' /\ ReadInv'
<1>1. PICK e : e = [book[i] EXCEPT !.status = "posted"]
  OBVIOUS
<1>2. i \in 1..Len(book) /\ book[i] \in Entry
  BY DEF BookInv
<1>3. e \in Entry /\ e.created = book[i].created /\ e.date = book[i].date
  BY <1>1, <1>2 DEF Entry
<1>4. book' = [book EXCEPT ![i] = e] /\ UNCHANGED reading
  BY <1>1 DEF ApproveEntry
<1>5. /\ book' \in Seq(Entry) /\ Len(book') = Len(book)
      /\ \A k \in 1..Len(book) : book'[k] = IF k = i THEN e ELSE book[k]
  BY <1>2, <1>3, <1>4 DEF BookInv
<1>6. BookInv'
  BY <1>3, <1>5 DEF BookInv
<1> QED
  BY <1>3, <1>4, <1>5, <1>6, BookMoves DEF BookInv

LEMMA PagesReverse ==
  ASSUME PagesAssumption, BookInv, ReadInv,
         NEW i \in DOMAIN book, NEW d \in Dates, ReverseEntry(i, d)
  PROVE  BookInv' /\ ReadInv'
<1>1. PICK e : e = [book[i] EXCEPT !.status = "reversed"]
  OBVIOUS
<1>2. PICK f : f = [book[i] EXCEPT !.created = Len(book) + 1, !.date = d, !.reverses = i,
                                   !.debit = book[i].credit, !.credit = book[i].debit]
  OBVIOUS
<1>3. i \in 1..Len(book) /\ book[i] \in Entry
  BY DEF BookInv
<1>4. e \in Entry /\ e.created = book[i].created /\ e.date = book[i].date
  BY <1>1, <1>3 DEF Entry
<1>5. f \in Entry /\ f.created = Len(book) + 1
  <2>1. Len(book) + 1 \in Nat /\ i \in Nat
    BY <1>3, EntriesAre
  <2> QED
    BY <1>2, <1>3, <2>1 DEF Entry
<1>6. PICK changed : changed = [book EXCEPT ![i] = e]
  OBVIOUS
<1>7. book' = Append(changed, f) /\ UNCHANGED reading
  BY <1>1, <1>2, <1>6 DEF ReverseEntry
<1>8. /\ changed \in Seq(Entry) /\ Len(changed) = Len(book)
      /\ \A k \in 1..Len(book) : changed[k] = IF k = i THEN e ELSE book[k]
  BY <1>3, <1>4, <1>6 DEF BookInv
<1>9. /\ book' \in Seq(Entry) /\ Len(book') = Len(book) + 1 /\ book'[Len(book) + 1] = f
      /\ \A k \in 1..Len(book) : book'[k] = changed[k]
  BY <1>5, <1>7, <1>8
<1>10. BookInv'
  <2>1. Len(book) \in Nat /\ \A k \in 1..Len(book) : book[k].created = k
    BY DEF BookInv
  <2>2. ASSUME NEW k \in 1..Len(book) PROVE book'[k].created = k
    BY <1>4, <1>8, <1>9, <2>1, <2>2
  <2>3. \A k \in 1..(Len(book) + 1) : k \in 1..Len(book) \/ k = Len(book) + 1
    BY <2>1
  <2> QED
    BY <1>5, <1>9, <2>2, <2>3 DEF BookInv
<1> QED
  <2>1. /\ Len(book) <= Len(book')
        /\ \A k \in 1..Len(book) : book'[k].date = book[k].date
    BY <1>4, <1>8, <1>9, EntriesAre
  <2> QED
    BY <1>7, <1>10, <2>1, BookMoves

LEMMA PagesBegin ==
  ASSUME PagesAssumption, BookInv, ReadInv, BeginRead
  PROVE  BookInv' /\ ReadInv'
<1>1. /\ reading'.state = "paging" /\ reading'.page = 0 /\ reading'.rows = <<>>
      /\ reading'.first = Len(book) /\ UNCHANGED book
      /\ reading' = [state |-> "paging", page |-> 0, rows |-> <<>>, first |-> Len(book)]
  BY DEF BeginRead, Unread
<1>2. BookInv' /\ Len(book) \in Nat
  BY <1>1 DEF BookInv
<1>3. \A i \in 1..Len(book) : Place(i)' >= 0
  BY <1>1, <1>2, PlaceIsInBook DEF Place
<1>4. reading'.page * Page = 0
  BY <1>1 DEF PagesAssumption
<1>5. reading'.rows \in Seq({})
  BY <1>1
<1> QED
  BY <1>1, <1>2, <1>3, <1>4, <1>5 DEF ReadInv

LEMMA ElementsAre ==
  ASSUME NEW S, NEW s \in Seq(S)
  PROVE  ToSet(s) = {s[k] : k \in 1..Len(s)}
<1>1. DOMAIN s = 1..Len(s)
  OBVIOUS
<1> QED
  BY <1>1 DEF ToSet

LEMMA ElementsJoin ==
  ASSUME NEW S, NEW s \in Seq(S), NEW t \in Seq(S)
  PROVE  s \o t \in Seq(S) /\ ToSet(s \o t) = ToSet(s) \cup ToSet(t)
<1>1. PICK u, m, n : u = s \o t /\ m = Len(s) /\ n = Len(t)
  OBVIOUS
<1>2. /\ u \in Seq(S) /\ Len(u) = m + n /\ m \in Nat /\ n \in Nat
      /\ \A k \in 1..(m + n) : u[k] = IF k <= m THEN s[k] ELSE t[k - m]
  BY <1>1
<1>3. /\ ToSet(s) = {s[k] : k \in 1..m} /\ ToSet(t) = {t[k] : k \in 1..n}
      /\ ToSet(u) = {u[k] : k \in 1..(m + n)}
  <2>1. ToSet(s) = {s[k] : k \in 1..m}
    BY <1>1, ElementsAre
  <2>2. ToSet(t) = {t[k] : k \in 1..n}
    BY <1>1, ElementsAre
  <2>3. ToSet(u) = {u[k] : k \in 1..(m + n)}
    BY <1>2, ElementsAre
  <2> QED
    BY <2>1, <2>2, <2>3
<1>4. ToSet(u) \subseteq ToSet(s) \cup ToSet(t)
  <2> SUFFICES ASSUME NEW k \in 1..(m + n)
               PROVE  u[k] \in ToSet(s) \cup ToSet(t)
    BY <1>3
  <2>1. CASE k <= m
    BY <1>2, <1>3, <2>1
  <2>2. CASE ~ (k <= m)
    <3>1. k - m \in 1..n /\ u[k] = t[k - m]
      BY <1>2, <2>2
    <3> QED
      BY <1>3, <3>1
  <2> QED
    BY <2>1, <2>2
<1>5. ASSUME NEW k \in 1..m
      PROVE  s[k] \in ToSet(u)
  <2>1. k \in 1..(m + n) /\ u[k] = s[k]
    BY <1>2
  <2> QED
    BY <1>3, <2>1
<1>6. ASSUME NEW k \in 1..n
      PROVE  t[k] \in ToSet(u)
  <2>1. PICK i : i = m + k
    OBVIOUS
  <2>2. i \in 1..(m + n) /\ ~ (i <= m) /\ i - m = k
    BY <1>2, <2>1
  <2>3. u[i] = t[k]
    BY <1>2, <2>2
  <2> QED
    BY <1>3, <2>2, <2>3
<1>7. ToSet(s) \cup ToSet(t) \subseteq ToSet(u)
  BY <1>3, <1>5, <1>6
<1>8. u \in Seq(S) /\ ToSet(u) = ToSet(s) \cup ToSet(t)
  BY <1>2, <1>4, <1>7
<1> QED
  BY <1>1, <1>8

LEMMA PagesFetch ==
  ASSUME PagesAssumption, BookInv, ReadInv, FetchPage
  PROVE  BookInv' /\ ReadInv'
<1>1. PICK rows : rows = Rows(reading.page)
  OBVIOUS
<1>2. PICK state : state = IF Len(rows) < Page THEN "done" ELSE "paging"
  OBVIOUS
<1>3. /\ reading.state = "paging" /\ UNCHANGED book
      /\ reading' = [state |-> state, page |-> reading.page + 1,
                     rows |-> reading.rows \o rows, first |-> reading.first]
  BY <1>1, <1>2 DEF FetchPage, LastPage, ReadInv
<1>4. reading.page \in Nat /\ reading.page * Page <= Len(book) /\ reading.first \in 0..Len(book)
  BY <1>3 DEF ReadInv
<1>5. /\ \E S : rows \in Seq(S)
      /\ Len(rows) \in 0..Page
      /\ Len(rows) = Page => (reading.page + 1) * Page <= Len(book)
      /\ Len(rows) < Page => Len(book) < (reading.page + 1) * Page
      /\ \A i \in 1..Len(book) :
           Place(i) >= reading.page * Page /\ Place(i) < (reading.page + 1) * Page =>
             \E r \in ToSet(rows) : r.created = i
  BY <1>1, <1>4, PageHasItsRows
<1>6. /\ \E S : reading'.rows \in Seq(S)
      /\ ToSet(reading'.rows) = ToSet(reading.rows) \cup ToSet(rows)
  <2>1. PICK S, T : reading.rows \in Seq(S) /\ rows \in Seq(T)
    BY <1>5 DEF ReadInv
  <2>2. PICK U : U = S \cup T
    OBVIOUS
  <2>3. reading.rows \in Seq(U) /\ rows \in Seq(U) /\ reading'.rows = reading.rows \o rows
    BY <1>3, <2>1, <2>2
  <2>4. PICK t : t = reading.rows \o rows
    OBVIOUS
  <2>5. t \in Seq(U) /\ ToSet(t) = ToSet(reading.rows) \cup ToSet(rows)
    BY <2>3, <2>4, ElementsJoin
  <2> QED
    BY <2>3, <2>4, <2>5
<1>7. BookInv' /\ \A i : Place(i)' = Place(i)
  BY <1>3 DEF BookInv, Place
<1>8. \A i \in 1..reading.first : Seen(i)' \/ Place(i) >= (reading.page + 1) * Page
  <2> SUFFICES ASSUME NEW i \in 1..reading.first, ~Seen(i)'
               PROVE  Place(i) >= (reading.page + 1) * Page
    OBVIOUS
  <2>1. i \in 1..Len(book) /\ Place(i) \in 0..(Len(book) - 1)
    BY <1>4, PlaceIsInBook DEF BookInv
  <2>2. Place(i) >= reading.page * Page
    BY <1>3, <1>6 DEF ReadInv, Seen
  <2>3. ~ (Place(i) < (reading.page + 1) * Page)
    BY <1>5, <1>6, <2>1, <2>2 DEF Seen
  <2>4. (reading.page + 1) * Page \in Nat
    BY <1>4 DEF PagesAssumption
  <2> QED
    BY <2>1, <2>3, <2>4
<1>9. CASE Len(rows) < Page
  <2>1. \A i \in 1..reading.first : Seen(i)'
    <3> SUFFICES ASSUME NEW i \in 1..reading.first
                 PROVE  ~ (Place(i) >= (reading.page + 1) * Page)
      BY <1>8
    <3>1. Place(i) \in 0..(Len(book) - 1)
      BY <1>4, PlaceIsInBook DEF BookInv
    <3>2. (reading.page + 1) * Page \in Nat /\ Len(book) \in Nat
      BY <1>4 DEF PagesAssumption, BookInv
    <3> QED
      BY <1>5, <1>9, <3>1, <3>2
  <2> QED
    BY <1>2, <1>3, <1>4, <1>6, <1>7, <1>9, <2>1 DEF ReadInv
<1>10. CASE ~ (Len(rows) < Page)
  <2>1. Len(rows) = Page
    BY <1>5, <1>10 DEF PagesAssumption
  <2> QED
    BY <1>2, <1>3, <1>4, <1>5, <1>6, <1>7, <1>8, <1>10, <2>1 DEF ReadInv
<1> QED
  BY <1>9, <1>10

LEMMA PagesInitially ==
  ASSUME PagesAssumption, PagesInit PROVE BookInv /\ ReadInv
<1>1. BookInv
  BY DEF PagesInit, BookInv
<1>2. ReadInv
  BY DEF PagesInit, Unread, ReadInv
<1> QED
  BY <1>1, <1>2

LEMMA PagesStep ==
  ASSUME PagesAssumption, BookInv, ReadInv, [PagesNext]_pagesVars
  PROVE  BookInv' /\ ReadInv'
<1>1. CASE UNCHANGED pagesVars
  BY <1>1 DEF pagesVars, BookInv, ReadInv, Seen, Place
<1>2. ASSUME NEW p \in Postings, NEW d \in Dates, NEW s \in {"posted", "pending_review"},
             PostEntry(p, d, s)
      PROVE  BookInv' /\ ReadInv'
  BY <1>2, PagesPost
<1>3. ASSUME NEW i \in DOMAIN book, ApproveEntry(i) \/ \E d \in Dates : ReverseEntry(i, d)
      PROVE  BookInv' /\ ReadInv'
  BY <1>3, PagesApprove, PagesReverse
<1>4. CASE BeginRead \/ FetchPage
  BY <1>4, PagesBegin, PagesFetch
<1> QED
  BY <1>1, <1>2, <1>3, <1>4 DEF PagesNext

\* A page that is read lies within the book, and what was read so far fills its pages.
PagesBounded ==
  /\ Len(book) <= MaxBook
  /\ reading.state \in {"idle", "paging", "done"} /\ reading.page <= MaxBook + 1
  /\ reading.state = "paging" => Len(reading.rows) = reading.page * Page

LEMMA PagesTypesByInv ==
  ASSUME PagesAssumption, BookInv, ReadInv, PagesBounded PROVE PagesTypeOK
<1>1. MaxBook \in Nat /\ reading.page \in Nat
  BY DEF PagesAssumption, ReadInv
<1>2. \A i \in DOMAIN book : book[i] \in Entry /\ book[i].created = i
  BY EntriesAre DEF BookInv
<1> QED
  BY <1>1, <1>2 DEF PagesBounded, PagesTypeOK, Entry

LEMMA PagesBoundedInitially ==
  ASSUME PagesAssumption, PagesInit PROVE PagesBounded
<1>1. Len(<<>>) = 0 /\ 0 * Page = 0
  BY DEF PagesAssumption
<1> QED
  BY <1>1 DEF PagesAssumption, PagesInit, Unread, PagesBounded

LEMMA PagesStayBounded ==
  ASSUME PagesAssumption, BookInv, ReadInv, PagesBounded, [PagesNext]_pagesVars
  PROVE  PagesBounded'
<1>1. /\ MaxBook \in Nat /\ Page \in Nat \ {0} /\ reading.page \in Nat
      /\ Len(book) \in Nat /\ Len(book) <= MaxBook
  BY DEF PagesAssumption, BookInv, ReadInv, PagesBounded
<1>2. ASSUME UNCHANGED reading, Len(book') <= MaxBook PROVE PagesBounded'
  BY <1>2 DEF PagesBounded
<1>3. ASSUME NEW p \in Postings, NEW d \in Dates, NEW s \in {"posted", "pending_review"},
             PostEntry(p, d, s)
      PROVE  PagesBounded'
  <2>1. PICK e : book' = Append(book, e) /\ Len(book) < MaxBook /\ UNCHANGED reading
    BY <1>3 DEF PostEntry
  <2>2. Len(book') = Len(book) + 1
    BY <2>1 DEF BookInv
  <2> QED
    BY <1>1, <1>2, <2>1, <2>2
<1>4. ASSUME NEW i \in DOMAIN book, ApproveEntry(i) PROVE PagesBounded'
  <2>1. PICK e : book' = [book EXCEPT ![i] = e] /\ UNCHANGED reading
    BY <1>4 DEF ApproveEntry
  <2>2. Len(book') = Len(book)
    BY <2>1 DEF BookInv
  <2> QED
    BY <1>1, <1>2, <2>1, <2>2
<1>5. ASSUME NEW i \in DOMAIN book, NEW d \in Dates, ReverseEntry(i, d) PROVE PagesBounded'
  <2>1. PICK e, f, b : /\ b = [book EXCEPT ![i] = e] /\ book' = Append(b, f)
                       /\ Len(book) < MaxBook /\ UNCHANGED reading
    BY <1>5 DEF ReverseEntry
  <2>2. Len(b) = Len(book) /\ \E S : b \in Seq(S)
    <3>1. PICK S : S = Entry \cup {e}
      OBVIOUS
    <3>2. book \in Seq(S) /\ e \in S /\ b = [book EXCEPT ![i] = e]
      BY <2>1, <3>1 DEF BookInv
    <3> QED
      BY <3>2
  <2>3. Len(book') = Len(book) + 1
    BY <2>1, <2>2
  <2> QED
    BY <1>1, <1>2, <2>1, <2>3
<1>6. CASE BeginRead
  <2>1. reading'.state = "paging" /\ reading'.page = 0 /\ reading'.rows = <<>> /\ UNCHANGED book
    BY <1>6 DEF BeginRead, Unread
  <2>2. Len(<<>>) = 0 /\ 0 * Page = 0
    BY <1>1
  <2> QED
    BY <1>1, <2>1, <2>2 DEF PagesBounded
<1>7. CASE FetchPage
  <2>1. PICK rows, state : rows = Rows(reading.page) /\ state = IF Len(rows) < Page THEN "done" ELSE "paging"
    OBVIOUS
  <2>2. /\ reading.state = "paging" /\ UNCHANGED book /\ reading'.state = state
        /\ reading'.page = reading.page + 1 /\ reading'.rows = reading.rows \o rows
    BY <1>7, <2>1 DEF FetchPage, LastPage, ReadInv
  <2>3. PICK off \in Nat : off = reading.page * Page
    BY <1>1
  <2>4. off <= Len(book) /\ Len(reading.rows) = off
    BY <2>2, <2>3 DEF ReadInv, PagesBounded
  <2>5. (\E S : rows \in Seq(S)) /\ Len(rows) \in 0..Page
    BY <1>1, <2>1, <2>3, <2>4, PageHasItsRows
  <2>6. reading.page <= off
    BY <1>1, <2>3
  <2>7. (reading.page + 1) * Page = off + Page
    BY <1>1, <2>3
  <2>8. Len(reading.rows \o rows) = off + Len(rows)
    <3>1. PICK S, T : reading.rows \in Seq(S) /\ rows \in Seq(T)
      BY <2>5 DEF ReadInv
    <3>2. PICK U : U = S \cup T
      OBVIOUS
    <3> QED
      BY <2>4, <3>1, <3>2
  <2>9. state = "paging" => Len(rows) = Page
    BY <1>1, <2>1, <2>5
  <2>10. reading'.page <= MaxBook + 1 /\ Len(book') <= MaxBook /\ state \in {"done", "paging"}
    BY <1>1, <2>1, <2>2, <2>4, <2>6
  <2>11. state = "paging" => Len(reading'.rows) = reading'.page * Page
    BY <2>2, <2>7, <2>8, <2>9
  <2> QED
    BY <2>2, <2>10, <2>11 DEF PagesBounded
<1>8. CASE UNCHANGED pagesVars
  BY <1>8 DEF pagesVars, PagesBounded
<1> QED
  BY <1>3, <1>4, <1>5, <1>6, <1>7, <1>8 DEF PagesNext

\* For any page size and any number of entries, whoever posts, approves and
\* reverses between two pages: when the read ends it has every entry that was
\* there when it began.
THEOREM PagedReadMissesNothing ==
  ASSUME PagesAssumption
  PROVE  PagesSpec => []ReadMissesNothing
<1>1. PagesInit => BookInv /\ ReadInv
  BY PagesInitially
<1>2. (BookInv /\ ReadInv) /\ [PagesNext]_pagesVars => (BookInv /\ ReadInv)'
  BY PagesStep
<1>3. BookInv /\ ReadInv => ReadMissesNothing
  BY DEF ReadInv, ReadMissesNothing, Seen
<1> QED
  BY <1>1, <1>2, <1>3, PTL DEF PagesSpec
-----------------------------------------------------------------------------
(* Statements: whatever is posted, approved or reversed, an entry debits what *)
(* it credits, so that every division of the chart or of time adds up.        *)

MovedEach(xs) == [i \in DOMAIN book |-> Moved(book[i], xs)]

\* What an entry moves on two groups of accounts adds up.
LEMMA EntryMoves ==
  ASSUME NEW e, Shown(e) \in Int
  PROVE  /\ \A xs : Moved(e, xs) \in Int
         /\ \A xs, ys : xs \cap ys = {} => Moved(e, xs \cup ys) = Moved(e, xs) + Moved(e, ys)
         /\ \A xs : e.debit \in xs /\ e.credit \in xs => Moved(e, xs) = 0
<1> DEFINE Debited(xs)  == IF e.debit \in xs THEN Shown(e) ELSE 0
           Credited(xs) == IF e.credit \in xs THEN Shown(e) ELSE 0
<1>1. \A xs : Debited(xs) \in Int /\ Credited(xs) \in Int
  OBVIOUS
<1>2. \A xs : Moved(e, xs) = Debited(xs) - Credited(xs)
  BY DEF Moved
<1>3. ASSUME NEW xs, NEW ys, xs \cap ys = {}
      PROVE  /\ Debited(xs \cup ys) = Debited(xs) + Debited(ys)
             /\ Credited(xs \cup ys) = Credited(xs) + Credited(ys)
  BY <1>3
<1>4. ASSUME NEW xs, e.debit \in xs, e.credit \in xs
      PROVE  Debited(xs) = Credited(xs)
  BY <1>4
<1> HIDE DEF Debited, Credited
<1>5. ASSUME NEW xs, NEW ys, xs \cap ys = {}
      PROVE  Moved(e, xs \cup ys) = Moved(e, xs) + Moved(e, ys)
  <2>1. PICK x, y, u, v : x = Debited(xs) /\ y = Debited(ys) /\ u = Credited(xs) /\ v = Credited(ys)
    OBVIOUS
  <2>2. x \in Int /\ y \in Int /\ u \in Int /\ v \in Int
    BY <1>1, <2>1
  <2>3. /\ Moved(e, xs \cup ys) = (x + y) - (u + v)
        /\ Moved(e, xs) = x - u /\ Moved(e, ys) = y - v
    BY <1>2, <1>3, <1>5, <2>1
  <2>4. (x + y) - (u + v) = (x - u) + (y - v)
    BY <2>2
  <2> QED
    BY <2>3, <2>4
<1>6. ASSUME NEW xs, e.debit \in xs, e.credit \in xs
      PROVE  Moved(e, xs) = 0
  BY <1>1, <1>2, <1>4, <1>6
<1>7. \A xs : Moved(e, xs) \in Int
  BY <1>1, <1>2
<1> QED
  BY <1>5, <1>6, <1>7

LEMMA EntriesShow ==
  ASSUME PagesAssumption, BookInv, NEW i \in DOMAIN book
  PROVE  Shown(book[i]) \in Int
<1>1. book[i] \in Entry
  BY EntriesAre
<1> QED
  BY <1>1 DEF Entry, Shown

LEMMA BalancesAre ==
  ASSUME PagesAssumption, BookInv, NEW xs, NEW dates
  PROVE  /\ IsFiniteSet(Filtered(book, dates)) /\ Filtered(book, dates) \subseteq DOMAIN book
         /\ \A i \in DOMAIN book : Moved(book[i], xs) \in Int /\ MovedEach(xs)[i] = Moved(book[i], xs)
         /\ accountBalances(book, xs, dates) = SumFunctionOnSet(MovedEach(xs), Filtered(book, dates))
         /\ accountBalances(book, xs, dates) \in Int
<1>1. IsFiniteSet(Filtered(book, dates)) /\ Filtered(book, dates) \subseteq DOMAIN book
  <2>1. IsFiniteSet(DOMAIN book) /\ Filtered(book, dates) \subseteq DOMAIN book
    BY EntriesAre DEF Filtered
  <2> QED
    BY <2>1, FS_Subset
<1>2. ASSUME NEW i \in DOMAIN book
      PROVE  Moved(book[i], xs) \in Int /\ MovedEach(xs)[i] = Moved(book[i], xs)
  BY EntriesShow, EntryMoves DEF MovedEach
<1>3. accountBalances(book, xs, dates) = SumFunctionOnSet(MovedEach(xs), Filtered(book, dates))
  <2> DEFINE f == [i \in Filtered(book, dates) |-> Moved(book[i], xs)]
  <2>1. accountBalances(book, xs, dates) = SumFunctionOnSet(f, Filtered(book, dates))
    BY DEF accountBalances, SumFunction
  <2>2. \A i \in Filtered(book, dates) : f[i] = MovedEach(xs)[i]
    BY <1>1, <1>2
  <2> HIDE DEF f
  <2>3. SumFunctionOnSet(f, Filtered(book, dates)) = SumFunctionOnSet(MovedEach(xs), Filtered(book, dates))
    BY <1>1, <2>2, SumsAgree
  <2> QED
    BY <2>1, <2>3
<1>4. SumFunctionOnSet(MovedEach(xs), Filtered(book, dates)) \in Int
  BY <1>1, <1>2, SumIsNumber
<1> QED
  BY <1>1, <1>2, <1>3, <1>4

\* The balances of two groups of accounts add up.
LEMMA BalancesOfBoth ==
  ASSUME PagesAssumption, BookInv, NEW xs, NEW ys, xs \cap ys = {}, NEW dates
  PROVE  accountBalances(book, xs \cup ys, dates)
           = accountBalances(book, xs, dates) + accountBalances(book, ys, dates)
<1>1. PICK W : W = Filtered(book, dates)
  OBVIOUS
<1>2. PICK f, g, h : f = MovedEach(xs) /\ g = MovedEach(ys) /\ h = MovedEach(xs \cup ys)
  OBVIOUS
<1>3. /\ IsFiniteSet(W)
      /\ accountBalances(book, xs, dates) = SumFunctionOnSet(f, W)
      /\ accountBalances(book, ys, dates) = SumFunctionOnSet(g, W)
      /\ accountBalances(book, xs \cup ys, dates) = SumFunctionOnSet(h, W)
  BY <1>1, <1>2, BalancesAre
<1>4. \A i \in W : f[i] \in Int /\ g[i] \in Int /\ h[i] = f[i] + g[i]
  <2> SUFFICES ASSUME NEW i \in W
               PROVE  f[i] \in Int /\ g[i] \in Int /\ h[i] = f[i] + g[i]
    OBVIOUS
  <2>1. i \in DOMAIN book
    BY <1>1, BalancesAre
  <2>2. /\ f[i] = Moved(book[i], xs) /\ g[i] = Moved(book[i], ys) /\ h[i] = Moved(book[i], xs \cup ys)
        /\ f[i] \in Int /\ g[i] \in Int
    BY <1>2, <2>1, BalancesAre
  <2> QED
    BY <2>1, <2>2, EntriesShow, EntryMoves
<1> QED
  BY <1>3, <1>4, SumOfSums

\* Over the whole chart debits and credits come to nothing.
LEMMA BalancesOfAll ==
  ASSUME StatementsAssumption, BookInv, NEW dates
  PROVE  accountBalances(book, ChartAccounts, dates) = 0
<1> PagesAssumption
  BY DEF StatementsAssumption
<1>1. PICK W : W = Filtered(book, dates)
  OBVIOUS
<1>2. PICK f : f = MovedEach(ChartAccounts)
  OBVIOUS
<1>3. /\ IsFiniteSet(W) /\ W \subseteq DOMAIN book
      /\ accountBalances(book, ChartAccounts, dates) = SumFunctionOnSet(f, W)
      /\ SumFunctionOnSet(f, W) \in Int
  BY <1>1, <1>2, BalancesAre
<1>4. ASSUME NEW i \in W
      PROVE  f[i] = 0
  <2>1. f[i] = Moved(book[i], ChartAccounts) /\ book[i] \in Entry /\ Shown(book[i]) \in Int
    BY <1>2, <1>3, BalancesAre, EntriesAre, EntriesShow
  <2>2. book[i].debit \in ChartAccounts /\ book[i].credit \in ChartAccounts
    BY <2>1 DEF Entry, StatementsAssumption, ChartAccounts
  <2> QED
    BY <2>1, <2>2, EntryMoves
<1>5. SumFunctionOnSet(f, W) = SumFunctionOnSet(f, W) + SumFunctionOnSet(f, W)
  <2>1. \A i \in W : f[i] \in Int /\ f[i] = f[i] + f[i]
    BY <1>4
  <2> QED
    BY <1>3, <2>1, SumOfSums
<1>6. PICK n \in Int : n = SumFunctionOnSet(f, W)
  BY <1>3
<1>7. n = n + n
  BY <1>5, <1>6
<1>8. n = 0
  BY <1>7
<1> QED
  BY <1>3, <1>6, <1>8

\* What moved until a date moved before the period or in it.
LEMMA BalancesOverTime ==
  ASSUME PagesAssumption, BookInv, NEW xs, NEW from \in Nat, NEW to \in Nat, from <= to
  PROVE  accountBalances(book, xs, Until(to))
           = accountBalances(book, xs, Until(from - 1)) + accountBalances(book, xs, from..to)
<1>1. PICK U, V : U = Filtered(book, Until(from - 1)) /\ V = Filtered(book, from..to)
  OBVIOUS
<1>2. PICK f : f = MovedEach(xs)
  OBVIOUS
<1>3. Filtered(book, Until(to)) = U \cup V /\ U \cap V = {}
  <2>1. \A i \in DOMAIN book : book[i].date \in Nat
    BY EntriesAre
  <2>2. \A i \in DOMAIN book :
          /\ book[i].date \in Until(to) <=> book[i].date \in Until(from - 1) \/ book[i].date \in from..to
          /\ ~ (book[i].date \in Until(from - 1) /\ book[i].date \in from..to)
    BY <2>1 DEF Until
  <2> QED
    BY <1>1, <2>2 DEF Filtered
<1>4. /\ IsFiniteSet(U) /\ IsFiniteSet(V) /\ U \subseteq DOMAIN book /\ V \subseteq DOMAIN book
      /\ accountBalances(book, xs, Until(from - 1)) = SumFunctionOnSet(f, U)
      /\ accountBalances(book, xs, from..to) = SumFunctionOnSet(f, V)
      /\ accountBalances(book, xs, Until(to)) = SumFunctionOnSet(f, U \cup V)
      /\ \A i \in DOMAIN book : f[i] \in Int
  BY <1>1, <1>2, <1>3, BalancesAre
<1>5. \A i \in U \cup V : f[i] \in Int
  BY <1>4
<1>6. SumFunctionOnSet(f, U \cup V) = SumFunctionOnSet(f, U) + SumFunctionOnSet(f, V)
  BY <1>3, <1>4, <1>5, SumOfParts
<1> QED
  BY <1>4, <1>6

\* Every account is of one type, and cash is no income or expense.
LEMMA ChartDivides ==
  ASSUME StatementsAssumption, BookInv, NEW dates
  PROVE  LET N(xs) == accountBalances(book, xs, dates)
             IE    == OfType("income") \cup OfType("expense")
         IN  /\ N(OfType("asset")) + N(OfType("liability")) + N(OfType("equity")) + N(IE) = 0
             /\ N(Cash) + N(IE) + N(OtherThanIncome("operating"))
                  + N(OtherThanIncome("investing")) + N(OtherThanIncome("financing")) = 0
             /\ N(IE) \in Int /\ N(Cash) \in Int /\ N(OfType("asset")) \in Int
             /\ N(OfType("liability")) \in Int /\ N(OfType("equity")) \in Int
             /\ \A s \in Sections : N(OtherThanIncome(s)) \in Int
<1> PagesAssumption
  BY DEF StatementsAssumption
<1> DEFINE N(xs) == accountBalances(book, xs, dates)
           IE    == OfType("income") \cup OfType("expense")
           O     == OtherThanIncome("operating")
           I     == OtherThanIncome("investing")
           F     == OtherThanIncome("financing")
<1>1. \A xs : N(xs) \in Int
  BY BalancesAre
<1>2. ASSUME NEW us, NEW vs, us \cap vs = {}
      PROVE  N(us \cup vs) = N(us) + N(vs)
  <2>1. accountBalances(book, us \cup vs, dates)
          = accountBalances(book, us, dates) + accountBalances(book, vs, dates)
    BY <1>2, BalancesOfBoth
  <2> QED
    BY <2>1
<1>3. N(ChartAccounts) = 0
  BY BalancesOfAll
<1>4. \A a \in ChartAccounts :
        /\ Chart[a].type \in Types /\ Chart[a].section \in Sections
        /\ Chart[a].section = "cash" => Chart[a].type = "asset"
  BY DEF StatementsAssumption, ChartAccounts
<1> HIDE DEF N
<1>5. N(OfType("asset")) + N(OfType("liability")) + N(OfType("equity")) + N(IE) = 0
  <2>1. ChartAccounts = ((OfType("asset") \cup OfType("liability")) \cup OfType("equity")) \cup IE
    BY <1>4 DEF OfType, Types
  <2>2. /\ ((OfType("asset") \cup OfType("liability")) \cup OfType("equity")) \cap IE = {}
        /\ (OfType("asset") \cup OfType("liability")) \cap OfType("equity") = {}
        /\ OfType("asset") \cap OfType("liability") = {}
    BY DEF OfType
  <2> HIDE DEF IE
  <2>3. /\ N(ChartAccounts) = N((OfType("asset") \cup OfType("liability")) \cup OfType("equity")) + N(IE)
        /\ N((OfType("asset") \cup OfType("liability")) \cup OfType("equity"))
             = N(OfType("asset") \cup OfType("liability")) + N(OfType("equity"))
        /\ N(OfType("asset") \cup OfType("liability")) = N(OfType("asset")) + N(OfType("liability"))
    BY <1>2, <2>1, <2>2
  <2> QED
    BY <1>3, <2>3
<1>6. N(Cash) + N(IE) + N(O) + N(I) + N(F) = 0
  <2>1. ChartAccounts = (((Cash \cup IE) \cup O) \cup I) \cup F
    BY <1>4 DEF OfType, Types, Sections, Cash, OtherThanIncome
  <2>2. /\ Cash \cap IE = {} /\ (Cash \cup IE) \cap O = {}
        /\ ((Cash \cup IE) \cup O) \cap I = {} /\ (((Cash \cup IE) \cup O) \cup I) \cap F = {}
    BY <1>4 DEF OfType, Cash, OtherThanIncome
  <2> HIDE DEF IE, O, I, F
  <2>3. /\ N(ChartAccounts) = N(((Cash \cup IE) \cup O) \cup I) + N(F)
        /\ N(((Cash \cup IE) \cup O) \cup I) = N((Cash \cup IE) \cup O) + N(I)
        /\ N((Cash \cup IE) \cup O) = N(Cash \cup IE) + N(O)
        /\ N(Cash \cup IE) = N(Cash) + N(IE)
    BY <1>2, <2>1, <2>2
  <2> QED
    BY <1>3, <2>3
<1> QED
  BY <1>1, <1>5, <1>6 DEF N

LEMMA StatementsAddUp ==
  ASSUME StatementsAssumption, BookInv
  PROVE  StatementsTie
<1> PagesAssumption
  BY DEF StatementsAssumption
<1> SUFFICES ASSUME NEW to \in Dates, NEW from \in Dates, from <= to
             PROVE  LET sheet == balanceSheet(book, to)
                    IN  /\ cashFlow(book, from, to).ending = accountBalances(book, Cash, Until(to))
                        /\ netIncome(book, from..to)
                             = sheet.earnings - balanceSheet(book, from - 1).earnings
                        /\ sheet.assets = sheet.liabilities + sheet.equity + sheet.earnings
  BY DEF StatementsTie
<1> DEFINE IE     == OfType("income") \cup OfType("expense")
           N(xs)  == accountBalances(book, xs, from..to)
           B(xs)  == accountBalances(book, xs, Until(from - 1))
           E(xs)  == accountBalances(book, xs, Until(to))
           O      == OtherThanIncome("operating")
           I      == OtherThanIncome("investing")
           F      == OtherThanIncome("financing")
           sheet  == balanceSheet(book, to)
           before == balanceSheet(book, from - 1)
<1>1. from \in Nat /\ to \in Nat
  BY DEF PagesAssumption
<1>2. \A xs : E(xs) = B(xs) + N(xs)
  BY <1>1, BalancesOverTime
<1>3. \A xs : N(xs) \in Int /\ B(xs) \in Int /\ E(xs) \in Int
  BY BalancesAre
<1>4. E(OfType("asset")) + E(OfType("liability")) + E(OfType("equity")) + E(IE) = 0
  BY ChartDivides
<1>5. N(Cash) + N(IE) + N(O) + N(I) + N(F) = 0
  BY ChartDivides
<1>6. /\ sheet.assets = E(OfType("asset")) /\ sheet.liabilities = -E(OfType("liability"))
      /\ sheet.equity = -E(OfType("equity")) /\ sheet.earnings = -E(IE)
      /\ before.earnings = -B(IE)
  BY DEF balanceSheet, netIncome
<1>7. netIncome(book, from..to) = -N(IE)
  BY DEF netIncome
<1>8. cashFlow(book, from, to).ending = B(Cash) + ((((-N(IE)) + (-N(O))) + (-N(I))) + (-N(F)))
  BY DEF cashFlow, netIncome, OpeningCash
<1> HIDE DEF N, B, E, IE, O, I, F, sheet, before
<1>9. cashFlow(book, from, to).ending = E(Cash)
  BY <1>2, <1>3, <1>5, <1>8
<1>10. netIncome(book, from..to) = sheet.earnings - before.earnings
  BY <1>2, <1>3, <1>6, <1>7
<1>11. sheet.assets = sheet.liabilities + sheet.equity + sheet.earnings
  BY <1>3, <1>4, <1>6
<1> QED
  BY <1>9, <1>10, <1>11 DEF sheet, before, E

\* For any chart, any postings and any period: the balance sheet balances, the
\* income statement explains how its earnings grew, and the cash flow ends with
\* its cash, whatever was posted, approved and reversed.
THEOREM StatementsAlwaysTie ==
  ASSUME StatementsAssumption
  PROVE  PagesSpec => []StatementsTie
<1> PagesAssumption
  BY DEF StatementsAssumption
<1>1. PagesInit => BookInv /\ ReadInv
  BY PagesInitially
<1>2. (BookInv /\ ReadInv) /\ [PagesNext]_pagesVars => (BookInv /\ ReadInv)'
  BY PagesStep
<1>3. BookInv /\ ReadInv => StatementsTie
  BY StatementsAddUp
<1> QED
  BY <1>1, <1>2, <1>3, PTL DEF PagesSpec

-----------------------------------------------------------------------------
(* Reversals: what a chain of them is worth, from any entry of it on, is the  *)
(* entry or nothing, because each cancels the one before.                     *)

\* A reversal mirrors an entry before it, in the books, that has no other.
Mirrors(j) == LET i == book[j].reverses IN i # 0 =>
  /\ i \in 1..(j - 1) /\ book[i].status = "reversed" /\ book[j].status # "pending_review"
  /\ book[j].amount = book[i].amount
  /\ book[j].debit = book[i].credit /\ book[j].credit = book[i].debit
  /\ \A k \in 1..Len(book) : book[k].reverses = i => k = j

ChainInv == \A j \in 1..Len(book) : Mirrors(j)

LEMMA ChainsGrow ==
  ASSUME PagesAssumption, BookInv, ChainInv, NEW i \in DOMAIN book, NEW d \in Dates, ReverseEntry(i, d)
  PROVE  ChainInv'
<1>1. PICK n \in Nat : n = Len(book)
  BY EntriesAre
<1>2. PICK f : f = [book[i] EXCEPT !.created = n + 1, !.date = d, !.reverses = i,
                                   !.debit = book[i].credit, !.credit = book[i].debit]
  OBVIOUS
<1>3. PICK e : e = [book[i] EXCEPT !.status = "reversed"]
  OBVIOUS
<1>4. i \in 1..n /\ book[i] \in Entry /\ book[i].status = "posted" /\ book \in Seq(Entry)
  BY <1>1, EntriesAre DEF BookInv, ReverseEntry
<1>5. e \in Entry /\ f \in Entry
  <2>1. n + 1 \in Nat /\ i \in Nat
    BY <1>1, <1>4
  <2>2. e \in Entry
    BY <1>3, <1>4 DEF Entry
  <2>3. f \in Entry
    BY <1>2, <1>4, <2>1 DEF Entry
  <2> QED
    BY <2>2, <2>3
<1>6. /\ f.reverses = i /\ f.status = "posted" /\ f.amount = book[i].amount
      /\ f.debit = book[i].credit /\ f.credit = book[i].debit
      /\ e.status = "reversed" /\ e.amount = book[i].amount /\ e.reverses = book[i].reverses
      /\ e.debit = book[i].debit /\ e.credit = book[i].credit
  BY <1>2, <1>3, <1>4 DEF Entry
<1>7. PICK changed : changed = [book EXCEPT ![i] = e]
  OBVIOUS
<1>8. /\ changed \in Seq(Entry) /\ Len(changed) = n
      /\ \A k \in 1..n : changed[k] = IF k = i THEN e ELSE book[k]
  BY <1>1, <1>4, <1>5, <1>7
<1>9. book' = Append(changed, f)
  BY <1>1, <1>2, <1>3, <1>7 DEF ReverseEntry
<1>10. /\ Len(book') = n + 1 /\ book'[n + 1] = f
       /\ \A k \in 1..n : book'[k] = IF k = i THEN e ELSE book[k]
  BY <1>5, <1>8, <1>9
<1>11. \A k \in 1..n : book[k].reverses # i
  <2> SUFFICES ASSUME NEW k \in 1..n, book[k].reverses = i
               PROVE  FALSE
    OBVIOUS
  <2>1. Mirrors(k) /\ i # 0
    BY <1>1, <1>4 DEF ChainInv
  <2> QED
    BY <1>4, <2>1 DEF Mirrors
<1>12. ASSUME NEW k \in 1..n
       PROVE  /\ book'[k].reverses = book[k].reverses /\ book'[k].amount = book[k].amount
              /\ book'[k].debit = book[k].debit /\ book'[k].credit = book[k].credit
              /\ book[k].status = "reversed" => book'[k].status = "reversed"
              /\ book[k].status # "pending_review" => book'[k].status # "pending_review"
  BY <1>6, <1>10
<1>13. ASSUME NEW j \in 1..n
       PROVE  Mirrors(j)'
  <2> SUFFICES ASSUME book[j].reverses # 0
               PROVE  Mirrors(j)'
    BY <1>12 DEF Mirrors
  <2>1. PICK t : t = book[j].reverses
    OBVIOUS
  <2>2. /\ t # 0 /\ t \in 1..(j - 1) /\ book[t].status = "reversed" /\ book[j].status # "pending_review"
        /\ book[j].amount = book[t].amount
        /\ book[j].debit = book[t].credit /\ book[j].credit = book[t].debit
        /\ \A k \in 1..n : book[k].reverses = t => k = j
    BY <1>1, <2>1 DEF ChainInv, Mirrors
  <2>3. t \in 1..n /\ t # i
    BY <1>4, <2>2
  <2>4. \A k \in 1..(n + 1) : book'[k].reverses = t => k = j
    BY <1>6, <1>10, <1>12, <2>2, <2>3
  <2>5. /\ book'[j].reverses = t /\ book'[t].status = "reversed" /\ book'[j].status # "pending_review"
        /\ book'[j].amount = book'[t].amount
        /\ book'[j].debit = book'[t].credit /\ book'[j].credit = book'[t].debit
    BY <1>12, <2>1, <2>2, <2>3
  <2> QED
    BY <1>10, <2>2, <2>4, <2>5 DEF Mirrors
<1>14. Mirrors(n + 1)'
  <2>1. /\ book'[n + 1].reverses = i /\ i \in 1..((n + 1) - 1) /\ book'[i].status = "reversed"
        /\ book'[n + 1].status # "pending_review" /\ book'[n + 1].amount = book'[i].amount
        /\ book'[n + 1].debit = book'[i].credit /\ book'[n + 1].credit = book'[i].debit
    BY <1>4, <1>6, <1>10
  <2>2. \A k \in 1..(n + 1) : book'[k].reverses = i => k = n + 1
    BY <1>11, <1>12
  <2> QED
    BY <1>10, <2>1, <2>2 DEF Mirrors
<1> QED
  BY <1>10, <1>13, <1>14 DEF ChainInv

LEMMA ChainsStay ==
  ASSUME PagesAssumption, BookInv, ChainInv, [PagesNext]_pagesVars
  PROVE  ChainInv'
<1>1. CASE UNCHANGED book
  BY <1>1 DEF ChainInv, Mirrors
<1>2. ASSUME NEW p \in Postings, NEW d \in Dates, NEW s \in {"posted", "pending_review"},
             PostEntry(p, d, s)
      PROVE  ChainInv'
  <2>1. PICK n \in Nat : n = Len(book)
    BY EntriesAre
  <2>2. PICK e : e = [created |-> n + 1, date |-> d, status |-> s, reverses |-> 0,
                      debit |-> p.debit, credit |-> p.credit, amount |-> p.amount, base |-> p.base]
    OBVIOUS
  <2>3. e \in Entry /\ e.reverses = 0 /\ book' = Append(book, e) /\ book \in Seq(Entry)
    BY <1>2, <2>1, <2>2 DEF PostEntry, Entry, BookInv, PagesAssumption
  <2>4. /\ Len(book') = n + 1 /\ book'[n + 1] = e
        /\ \A k \in 1..n : book'[k] = book[k]
    BY <2>1, <2>3
  <2>5. ASSUME NEW j \in 1..n
        PROVE  Mirrors(j)'
    <3>1. PICK i : i = book[j].reverses
      OBVIOUS
    <3>2. CASE i = 0
      BY <2>4, <3>1, <3>2 DEF Mirrors
    <3>3. CASE i # 0
      <4>1. /\ i \in 1..(j - 1) /\ book[i].status = "reversed" /\ book[j].status # "pending_review"
            /\ book[j].amount = book[i].amount
            /\ book[j].debit = book[i].credit /\ book[j].credit = book[i].debit
            /\ \A k \in 1..n : book[k].reverses = i => k = j
        BY <2>1, <3>1, <3>3 DEF ChainInv, Mirrors
      <4>2. i \in 1..n /\ book'[i] = book[i] /\ book'[j] = book[j]
        BY <2>4, <4>1
      <4>3. \A k \in 1..(n + 1) : book'[k].reverses = i => k = j
        BY <2>3, <2>4, <3>3, <4>1
      <4> QED
        BY <2>4, <3>1, <4>1, <4>2, <4>3 DEF Mirrors
    <3> QED
      BY <3>2, <3>3
  <2>6. Mirrors(n + 1)'
    BY <2>3, <2>4 DEF Mirrors
  <2> QED
    BY <2>4, <2>5, <2>6 DEF ChainInv
<1>3. ASSUME NEW i \in DOMAIN book, ApproveEntry(i)
      PROVE  ChainInv'
  <2>1. PICK e : e = [book[i] EXCEPT !.status = "posted"]
    OBVIOUS
  <2>2. i \in 1..Len(book) /\ book[i] \in Entry /\ book[i].status = "pending_review" /\ book \in Seq(Entry)
    BY <1>3, EntriesAre DEF BookInv, ApproveEntry
  <2>3. /\ e \in Entry /\ e.status = "posted" /\ e.amount = book[i].amount
        /\ e.reverses = book[i].reverses /\ e.debit = book[i].debit /\ e.credit = book[i].credit
    BY <2>1, <2>2 DEF Entry
  <2>4. /\ Len(book') = Len(book)
        /\ \A k \in 1..Len(book) : book'[k] = IF k = i THEN e ELSE book[k]
    BY <1>3, <2>1, <2>2 DEF ApproveEntry
  <2>5. ASSUME NEW j \in 1..Len(book)
        PROVE  Mirrors(j)'
    <3>1. \A k \in 1..Len(book) :
            /\ book'[k].reverses = book[k].reverses /\ book'[k].amount = book[k].amount
            /\ book'[k].debit = book[k].debit /\ book'[k].credit = book[k].credit
            /\ book[k].status = "reversed" => book'[k].status = "reversed"
            /\ book[k].status # "pending_review" => book'[k].status # "pending_review"
      BY <2>2, <2>3, <2>4
    <3>2. Mirrors(j)
      BY DEF ChainInv
    <3>3. book[j].reverses # 0 => book[j].reverses \in 1..Len(book)
      BY <3>2, EntriesAre DEF Mirrors
    <3> QED
      BY <2>4, <3>1, <3>2, <3>3 DEF Mirrors
  <2> QED
    BY <2>4, <2>5 DEF ChainInv
<1>4. ASSUME NEW i \in DOMAIN book, NEW d \in Dates, ReverseEntry(i, d)
      PROVE  ChainInv'
  BY <1>4, ChainsGrow
<1>5. CASE BeginRead \/ FetchPage
  BY <1>1, <1>5 DEF BeginRead, FetchPage
<1> QED
  BY <1>1, <1>2, <1>3, <1>4, <1>5 DEF PagesNext, pagesVars

\* How the entry at i fares, from how those after it do.
Fares(T, g, i) ==
  IF ~inBooks(book[i]) THEN "waits"
  ELSE IF \E j \in T : j > i /\ book[j].reverses = i /\ g[j] = "stands" THEN "undone" ELSE "stands"

\* The recursion of Standing has a solution: of the last entries, for any number of them.
LEMMA FateExists ==
  ASSUME NEW n \in Nat
  PROVE  \E g : g = [i \in 1..n |-> Fares(1..n, g, i)]
<1> DEFINE Tails == {k..n : k \in 1..(n + 1)}
           Bad   == {T \in Tails : ~ \E g : g = [i \in T |-> Fares(T, g, i)]}
<1> SUFFICES ASSUME Bad # {} PROVE FALSE
  <2>1. 1..n \in Tails
    OBVIOUS
  <2> QED
    BY <2>1
<1>1. PICK T \in Bad : \A U \in Bad : U \subseteq T => U = T
  <2>1. \A T \in Tails : T \subseteq 1..n
    OBVIOUS
  <2>2. PICK S : S = 1..n /\ IsFiniteSet(S)
    BY FS_Interval
  <2> HIDE DEF Tails
  <2>3. Bad \in SUBSET SUBSET S
    BY <2>1, <2>2
  <2>4. IsFiniteSet(S)
    BY <2>2
  <2> HIDE DEF Bad
  <2> QED
    BY <2>3, <2>4, SmallestPart
<1>2. PICK k \in 1..(n + 1) : T = k..n
  BY <1>1
<1>3. T # {}
  <2> SUFFICES ASSUME T = {} PROVE FALSE
    OBVIOUS
  <2>1. <<>> = [i \in T |-> Fares(T, <<>>, i)]
    OBVIOUS
  <2> QED
    BY <1>1, <2>1
<1>4. k \in 1..n
  BY <1>2, <1>3
<1>5. PICK U : U = (k + 1)..n
  OBVIOUS
<1>6. U \in Tails /\ U \subseteq T /\ U # T /\ T = U \cup {k} /\ \A i \in U : i > k
  BY <1>2, <1>4, <1>5
<1>7. PICK h : h = [i \in U |-> Fares(U, h, i)]
  BY <1>1, <1>6
<1>8. PICK g : g = [i \in T |-> IF i = k THEN Fares(U, h, k) ELSE h[i]]
  OBVIOUS
<1>9. ASSUME NEW i \in T
      PROVE  g[i] = Fares(T, g, i)
  <2>1. i \in Nat /\ k \in Nat /\ i >= k
    BY <1>2, <1>4
  <2>2. \A j \in T : j > i => j \in U /\ g[j] = h[j]
    BY <1>2, <1>4, <1>6, <1>8, <2>1
  <2>3. Fares(T, g, i) = Fares(U, h, i)
    BY <1>6, <2>2 DEF Fares
  <2>4. CASE i = k
    BY <1>8, <2>3, <2>4
  <2>5. CASE i # k
    <3>1. i \in U
      BY <1>6, <2>5
    <3> QED
      BY <1>7, <1>8, <2>3, <2>5, <3>1
  <2> QED
    BY <2>4, <2>5
<1>10. g = [i \in T |-> Fares(T, g, i)]
  BY <1>8, <1>9
<1> QED
  BY <1>1, <1>10

LEMMA StandingIs ==
  ASSUME PagesAssumption, BookInv
  PROVE  \E fate : /\ fate = [i \in DOMAIN book |-> Fares(DOMAIN book, fate, i)]
                   /\ Standing = {i \in DOMAIN book : book[i].reverses = 0 /\ fate[i] = "stands"}
<1>1. \E g : g = [i \in DOMAIN book |-> Fares(DOMAIN book, g, i)]
  BY EntriesAre, FateExists
<1>2. PICK fate : fate = CHOOSE g : g = [i \in DOMAIN book |-> Fares(DOMAIN book, g, i)]
  OBVIOUS
<1>3. fate = [i \in DOMAIN book |-> Fares(DOMAIN book, fate, i)]
  BY <1>1, <1>2
<1>4. Standing = {i \in DOMAIN book : book[i].reverses = 0 /\ fate[i] = "stands"}
  BY <1>2 DEF Standing, Fares
<1> QED
  BY <1>3, <1>4

\* The account's balance over the entries that stand: each is worth itself less
\* what the next of its chain is worth.
LEMMA ChainsNetOut ==
  ASSUME PagesAssumption, BookInv, ChainInv, NEW a
  PROVE  Net(book, a, Dates) = SumFunction([i \in Standing |-> Moved(book[i], {a})])
<1> DEFINE D       == DOMAIN book
           B       == {i \in D : inBooks(book[i])}
           Undone  == {i \in D : \E j \in D : book[j].reverses = i}
           Undoing == {j \in D : book[j].reverses # 0}
           Roots   == B \ Undoing
           Undoer(i) == CHOOSE j \in D : book[j].reverses = i
           v       == [i \in D |-> Moved(book[i], {a})]
<1>1. PICK fate : /\ fate = [i \in D |-> Fares(D, fate, i)]
                  /\ Standing = {i \in D : book[i].reverses = 0 /\ fate[i] = "stands"}
  BY StandingIs
<1> DEFINE s  == [i \in D |-> IF fate[i] = "stands" THEN v[i] ELSE 0]
           nx == [i \in D |-> Undoer(i)]
           w  == [i \in D |-> IF i \in Undone THEN s[nx[i]] ELSE 0]
<1>2. /\ IsFiniteSet(D) /\ D = 1..Len(book)
      /\ \A i \in D : book[i] \in Entry /\ v[i] \in Int /\ s[i] \in Int
  <2>1. D = 1..Len(book) /\ IsFiniteSet(D) /\ \A i \in D : book[i] \in Entry
    BY EntriesAre
  <2>2. \A i \in D : v[i] \in Int
    BY EntriesShow, EntryMoves
  <2> HIDE DEF v, D
  <2>3. \A i \in D : s[i] \in Int
    BY <2>2
  <2> QED
    BY <2>1, <2>2, <2>3
<1>3. ASSUME NEW i \in Undone
      PROVE  /\ nx[i] \in Undoing /\ book[nx[i]].reverses = i /\ nx[i] > i /\ i \in B /\ nx[i] \in B
             /\ \A j \in D : book[j].reverses = i => j = nx[i]
             /\ v[nx[i]] = -v[i]
  <2>1. PICK k : k = nx[i]
    OBVIOUS
  <2>2. i \in D /\ k \in D /\ book[k].reverses = i
    BY <2>1
  <2>3. Mirrors(k) /\ i # 0 /\ i \in Nat
    BY <1>2, <2>2 DEF ChainInv
  <2>4. /\ i \in 1..(k - 1) /\ book[i].status = "reversed" /\ book[k].status # "pending_review"
        /\ book[k].amount = book[i].amount
        /\ book[k].debit = book[i].credit /\ book[k].credit = book[i].debit
        /\ \A j \in D : book[j].reverses = i => j = k
    BY <1>2, <2>2, <2>3 DEF Mirrors
  <2>5. PICK x, y : x = (IF book[i].debit \in {a} THEN book[i].amount ELSE 0)
                    /\ y = (IF book[i].credit \in {a} THEN book[i].amount ELSE 0)
    OBVIOUS
  <2>6. x \in Int /\ y \in Int
    <3>1. book[i].amount \in Int
      BY <1>2, <2>2 DEF Entry
    <3> QED
      BY <2>5, <3>1
  <2>7. v[i] = x - y /\ v[k] = y - x
    BY <2>2, <2>4, <2>5 DEF Moved, Shown
  <2>8. v[k] = -v[i]
    BY <2>6, <2>7
  <2>9. i \in B /\ k \in B /\ k \in Undoing /\ k > i
    BY <1>2, <2>2, <2>3, <2>4 DEF inBooks
  <2> QED
    BY <2>1, <2>2, <2>4, <2>8, <2>9
<1>4. B \subseteq D /\ Undone \subseteq B /\ Undoing \subseteq B
  <2>1. Undone \subseteq B
    BY <1>3
  <2>2. Undoing \subseteq B
    BY <1>2 DEF ChainInv, Mirrors, inBooks
  <2> QED
    BY <2>1, <2>2
<1>5. ASSUME NEW i \in B
      PROVE  w[i] \in Int /\ s[i] = v[i] + w[i]
  <2>1. i \in D /\ inBooks(book[i]) /\ v[i] \in Int
    BY <1>2
  <2>2. CASE i \in Undone
    <3>1. nx[i] \in D /\ nx[i] > i /\ book[nx[i]].reverses = i /\ v[nx[i]] = -v[i]
          /\ \A j \in D : book[j].reverses = i => j = nx[i]
      BY <1>3, <1>4, <2>2
    <3>2. fate[i] = "stands" <=> fate[nx[i]] # "stands"
      <4>1. fate[i] = Fares(D, fate, i)
        BY <1>1, <2>1
      <4> QED
        BY <2>1, <3>1, <4>1 DEF Fares
    <3>3. s[i] = (IF fate[i] = "stands" THEN v[i] ELSE 0)
          /\ w[i] = (IF fate[nx[i]] = "stands" THEN v[nx[i]] ELSE 0)
      BY <2>1, <2>2, <3>1
    <3> QED
      BY <2>1, <3>1, <3>2, <3>3
  <2>3. CASE i \notin Undone
    <3>1. fate[i] = "stands"
      <4>1. fate[i] = Fares(D, fate, i)
        BY <1>1, <2>1
      <4> QED
        BY <2>1, <2>3, <4>1 DEF Fares
    <3> QED
      BY <2>1, <2>3, <3>1
  <2> QED
    BY <2>2, <2>3
<1>6. /\ IsFiniteSet(B) /\ IsFiniteSet(Undone) /\ IsFiniteSet(Undoing) /\ IsFiniteSet(Roots)
      /\ Standing \subseteq Roots
  <2>1. Standing \subseteq Roots
    <3>1. \A i \in D : fate[i] = Fares(D, fate, i)
      BY <1>1
    <3>2. \A i \in D : fate[i] = "stands" => inBooks(book[i])
      BY <3>1 DEF Fares
    <3> QED
      BY <1>1, <3>2
  <2>2. Undone \subseteq D /\ Undoing \subseteq D /\ Roots \subseteq D
    BY <1>4
  <2> QED
    BY <1>2, <1>4, <2>1, <2>2, FS_Subset
<1>7. SumFunctionOnSet(w, B) = SumFunctionOnSet(s, Undoing)
  <2> DEFINE image == {nx[i] : i \in Undone}
             g     == [i \in Undone |-> s[nx[i]]]
  <2>1. image = Undoing
    <3>1. ASSUME NEW i \in Undone
          PROVE  nx[i] \in Undoing
      BY <1>3
    <3>2. ASSUME NEW j \in Undoing
          PROVE  j \in image
      <4>1. PICK i : i = book[j].reverses
        OBVIOUS
      <4>2. i \in Undone
        BY <1>2, <4>1 DEF ChainInv, Mirrors
      <4> QED
        BY <1>3, <4>1, <4>2
    <3> QED
      BY <3>1, <3>2
  <2>2. \A x \in Undone : s[nx[x]] \in Int
    BY <1>2, <1>3, <1>4
  <2>3. \A x, y \in Undone : nx[x] = nx[y] => x = y
    BY <1>3
  <2>4. \A x \in B : w[x] \in Int
    BY <1>5
  <2>5. \A x \in B \ Undone : w[x] = 0
    BY <1>4
  <2>6. \A x \in Undone : w[x] = g[x]
    BY <1>4
  <2> HIDE DEF image, g, w, s, nx, B, Undone, Undoing
  <2>7. SumFunctionOnSet(s, image) = SumFunctionOnSet([i \in Undone |-> s[nx[i]]], Undone)
    BY <1>6, <2>2, <2>3, SumRenamed DEF image
  <2>8. SumFunctionOnSet(w, Undone) = SumFunctionOnSet(g, Undone)
    BY <1>6, <2>6, SumsAgree
  <2>9. SumFunctionOnSet(w, B) = SumFunctionOnSet(w, Undone)
    BY <1>4, <1>6, <2>4, <2>5, SumWithoutZeros
  <2> QED
    BY <2>1, <2>7, <2>8, <2>9 DEF g
<1>8. SumFunctionOnSet(s, B) = SumFunctionOnSet(v, B) + SumFunctionOnSet(w, B)
  <2>1. \A i \in B : v[i] \in Int /\ w[i] \in Int /\ s[i] = v[i] + w[i]
    BY <1>2, <1>4, <1>5
  <2> HIDE DEF v, w, s, B
  <2> QED
    BY <1>6, <2>1, SumOfSums
<1>9. SumFunctionOnSet(s, B) = SumFunctionOnSet(s, Roots) + SumFunctionOnSet(s, Undoing)
  <2>1. B = Roots \cup Undoing /\ Roots \cap Undoing = {}
    BY <1>4
  <2>2. \A i \in Roots \cup Undoing : s[i] \in Int
    BY <1>2, <1>4
  <2> HIDE DEF s, B, Roots, Undoing
  <2> QED
    BY <1>6, <2>1, <2>2, SumOfParts
<1>10. SumFunctionOnSet(s, Roots) = SumFunctionOnSet(v, Standing)
  <2>1. \A i \in Roots : s[i] \in Int
    BY <1>2, <1>4
  <2>2. \A i \in Roots \ Standing : s[i] = 0
    BY <1>1, <1>4
  <2>3. \A i \in Standing : s[i] = v[i]
    BY <1>1
  <2> HIDE DEF s, v, Roots
  <2>4. SumFunctionOnSet(s, Roots) = SumFunctionOnSet(s, Standing)
    BY <1>6, <2>1, <2>2, SumWithoutZeros
  <2>5. SumFunctionOnSet(s, Standing) = SumFunctionOnSet(v, Standing)
    <3>1. IsFiniteSet(Standing)
      BY <1>6, FS_Subset
    <3> QED
      BY <2>3, <3>1, SumsAgree
  <2> QED
    BY <2>4, <2>5
<1>11. Net(book, a, Dates) = SumFunctionOnSet(v, B)
  <2>1. Filtered(book, Dates) = B
    BY <1>2 DEF Filtered, Entry
  <2>2. v = MovedEach({a})
    BY DEF MovedEach
  <2> QED
    BY <2>1, <2>2, BalancesAre DEF Net
<1>12. SumFunction([i \in Standing |-> Moved(book[i], {a})]) = SumFunctionOnSet(v, Standing)
  <2> DEFINE g == [i \in Standing |-> Moved(book[i], {a})]
  <2>1. SumFunction(g) = SumFunctionOnSet(g, Standing)
    BY DEF SumFunction
  <2>2. IsFiniteSet(Standing) /\ \A i \in Standing : g[i] = v[i]
    <3>1. Standing \subseteq D
      BY <1>1
    <3>2. IsFiniteSet(Standing)
      BY <1>2, <3>1, FS_Subset
    <3>3. \A i \in Standing : g[i] = v[i]
      BY <3>1
    <3> QED
      BY <3>2, <3>3
  <2> HIDE DEF g, v
  <2>3. SumFunctionOnSet(g, Standing) = SumFunctionOnSet(v, Standing)
    BY <2>2, SumsAgree
  <2> QED
    BY <2>1, <2>3 DEF g
<1>13. /\ SumFunctionOnSet(v, B) \in Int /\ SumFunctionOnSet(s, Roots) \in Int
       /\ SumFunctionOnSet(s, Undoing) \in Int
  <2>1. \A i \in B : v[i] \in Int
    BY <1>2, <1>4
  <2>2. \A i \in Roots : s[i] \in Int
    BY <1>2, <1>4
  <2>3. \A i \in Undoing : s[i] \in Int
    BY <1>2, <1>4
  <2> HIDE DEF s, v, B, Roots, Undoing
  <2> QED
    BY <1>6, <2>1, <2>2, <2>3, SumIsNumber
<1> HIDE DEF s, v, w, B, Roots, Undoing
<1>14. PICK x, y, z : /\ x = SumFunctionOnSet(v, B) /\ y = SumFunctionOnSet(s, Roots)
                      /\ z = SumFunctionOnSet(s, Undoing)
  OBVIOUS
<1>15. x \in Int /\ y \in Int /\ z \in Int /\ x + z = y + z
  BY <1>7, <1>8, <1>9, <1>13, <1>14
<1>16. x = y
  BY <1>15
<1> QED
  BY <1>10, <1>11, <1>12, <1>14, <1>16

\* For any chain of reversals of reversals, however often a user changes his
\* mind: over all dates an account has the balance of the originals that no
\* standing reversal undoes.
THEOREM ReversalsAlwaysNetOut ==
  ASSUME StatementsAssumption
  PROVE  PagesSpec => []ReversalsNetOut
<1> PagesAssumption
  BY DEF StatementsAssumption
<1>1. PagesInit => BookInv /\ ReadInv /\ ChainInv
  BY PagesInitially DEF PagesInit, ChainInv
<1>2. (BookInv /\ ReadInv /\ ChainInv) /\ [PagesNext]_pagesVars => (BookInv /\ ReadInv /\ ChainInv)'
  BY PagesStep, ChainsStay
<1>3. BookInv /\ ChainInv => ReversalsNetOut
  BY ChainsNetOut DEF ReversalsNetOut
<1> QED
  BY <1>1, <1>2, <1>3, PTL DEF PagesSpec

-----------------------------------------------------------------------------
(* What the entries of some dates debit and credit. *)

ShownEach         == [i \in DOMAIN book |-> Shown(book[i])]
Debiting(dates, a)  == {i \in Filtered(book, dates) : book[i].debit = a}
Crediting(dates, a) == {i \in Filtered(book, dates) : book[i].credit = a}

LEMMA AmountsAre ==
  ASSUME PagesAssumption, BookInv, NEW dates, NEW a
  PROVE  /\ \A i \in DOMAIN book : ShownEach[i] = Shown(book[i]) /\ ShownEach[i] \in Nat
         /\ IsFiniteSet(Debiting(dates, a)) /\ Debiting(dates, a) \subseteq DOMAIN book
         /\ IsFiniteSet(Crediting(dates, a)) /\ Crediting(dates, a) \subseteq DOMAIN book
<1>1. ASSUME NEW i \in DOMAIN book
      PROVE  ShownEach[i] = Shown(book[i]) /\ ShownEach[i] \in Nat
  <2>1. book[i] \in Entry
    BY EntriesAre
  <2> QED
    BY <2>1 DEF ShownEach, Shown, Entry
<1>2. IsFiniteSet(Filtered(book, dates)) /\ Filtered(book, dates) \subseteq DOMAIN book
  BY BalancesAre
<1>3. Debiting(dates, a) \subseteq Filtered(book, dates) /\ Crediting(dates, a) \subseteq Filtered(book, dates)
  BY DEF Debiting, Crediting
<1>4. IsFiniteSet(Debiting(dates, a)) /\ IsFiniteSet(Crediting(dates, a))
  BY <1>2, <1>3, FS_Subset
<1> QED
  BY <1>1, <1>2, <1>3, <1>4

\* An account has what it was debited less what it was credited.
LEMMA NetIs ==
  ASSUME PagesAssumption, BookInv, NEW dates, NEW a
  PROVE  Net(book, a, dates) = SumFunctionOnSet(ShownEach, Debiting(dates, a))
                                 - SumFunctionOnSet(ShownEach, Crediting(dates, a))
<1> DEFINE W == Filtered(book, dates)
           D == Debiting(dates, a)
           C == Crediting(dates, a)
           d == [i \in W |-> IF book[i].debit = a THEN Shown(book[i]) ELSE 0]
           c == [i \in W |-> IF book[i].credit = a THEN Shown(book[i]) ELSE 0]
           m == [i \in W |-> -c[i]]
<1>1. IsFiniteSet(W) /\ \A i \in W : i \in DOMAIN book
  BY BalancesAre
<1>2. \A i \in W : Shown(book[i]) \in Int /\ ShownEach[i] = Shown(book[i])
  BY <1>1, AmountsAre
<1>3. D \in SUBSET W /\ C \in SUBSET W
  BY DEF Debiting, Crediting
<1>4. /\ (\A i \in D : d[i] = ShownEach[i]) /\ (\A i \in W \ D : d[i] = 0)
      /\ (\A i \in C : c[i] = ShownEach[i]) /\ (\A i \in W \ C : c[i] = 0)
  BY <1>2 DEF Debiting, Crediting
<1>5. \A i \in W : d[i] \in Int /\ c[i] \in Int /\ m[i] = -c[i] /\ m[i] \in Int
  BY <1>2
<1>6. \A i \in W : MovedEach({a})[i] = d[i] + m[i]
  <2> SUFFICES ASSUME NEW i \in W PROVE MovedEach({a})[i] = d[i] + m[i]
    OBVIOUS
  <2>1. MovedEach({a})[i] = Moved(book[i], {a})
    BY <1>1, BalancesAre
  <2>2. Moved(book[i], {a}) = d[i] - c[i]
    BY DEF Moved
  <2> HIDE DEF d, c, m
  <2> QED
    BY <1>5, <2>1, <2>2
<1>7. Net(book, a, dates) = SumFunctionOnSet(MovedEach({a}), W)
  BY BalancesAre DEF Net
<1> HIDE DEF W, D, C, d, c, m
<1>8. SumFunctionOnSet(MovedEach({a}), W) = SumFunctionOnSet(d, W) + SumFunctionOnSet(m, W)
  BY <1>1, <1>5, <1>6, SumOfSums
<1>9. SumFunctionOnSet(m, W) = -SumFunctionOnSet(c, W)
  BY <1>1, <1>5, SumOfOpposites
<1>10. SumFunctionOnSet(d, W) = SumFunctionOnSet(d, D) /\ SumFunctionOnSet(c, W) = SumFunctionOnSet(c, C)
  <2>1. SumFunctionOnSet(d, W) = SumFunctionOnSet(d, D)
    BY <1>1, <1>3, <1>4, <1>5, SumWithoutZeros
  <2>2. SumFunctionOnSet(c, W) = SumFunctionOnSet(c, C)
    BY <1>1, <1>3, <1>4, <1>5, SumWithoutZeros
  <2> QED
    BY <2>1, <2>2
<1>11. IsFiniteSet(D) /\ IsFiniteSet(C)
  BY <1>1, <1>3, FS_Subset
<1>12. SumFunctionOnSet(d, D) = SumFunctionOnSet(ShownEach, D)
  BY <1>4, <1>11, SumsAgree
<1>13. SumFunctionOnSet(c, C) = SumFunctionOnSet(ShownEach, C)
  BY <1>4, <1>11, SumsAgree
<1>14. SumFunctionOnSet(d, W) \in Int /\ SumFunctionOnSet(c, W) \in Int
  BY <1>1, <1>5, SumIsNumber
<1>15. Net(book, a, dates) = SumFunctionOnSet(ShownEach, D) - SumFunctionOnSet(ShownEach, C)
  BY <1>7, <1>8, <1>9, <1>10, <1>12, <1>13, <1>14
<1> QED
  BY <1>15 DEF D, C

-----------------------------------------------------------------------------
(* The general ledger: its lines are in an order, so that the lines of an     *)
(* account whose label is its own stand together.                             *)

\* The lines back from n to where the account of line n begins.
RunTo(es, ls, n) == {k \in 1..n : \A j \in k..n : AccountOf(es, ls[j]) = AccountOf(es, ls[n])}

LEMMA RunningBalanceIs ==
  ASSUME NEW es, NEW N \in Nat, NEW ls, Len(ls) = N, \A n \in 1..N : LineAmount(es, ls[n]) \in Int
  PROVE  \A n \in 1..N :
           RunningBalance(es, ls)[n] = SumFunctionOnSet([k \in 1..N |-> LineAmount(es, ls[k])], RunTo(es, ls, n))
<1> DEFINE Goes(n)  == n > 1 /\ AccountOf(es, ls[n - 1]) = AccountOf(es, ls[n])
           After(b) == [n \in 0..N |-> IF n = 0 THEN 0
                          ELSE LineAmount(es, ls[n]) + (IF Goes(n) THEN b[n - 1] ELSE 0)]
           step     == [x \in (1..N) \X Int |-> LineAmount(es, ls[x[1]]) + (IF Goes(x[1]) THEN x[2] ELSE 0)]
           balance  == CHOOSE b : b = After(b)
           amount   == [k \in 1..N |-> LineAmount(es, ls[k])]
<1>1. \E b : b = After(b)
  <2>1. PICK b : Iterates(b, N, 0, step)
    BY IterationExists
  <2>2. b = [n \in 0..N |-> IF n = 0 THEN 0 ELSE step[<<n, b[n - 1]>>]]
    BY <2>1 DEF Iterates
  <2> DEFINE P == {n \in 0..N : b[n] \in Int}
  <2>3. \A n \in 1..N : b[n - 1] \in Int =>
          b[n] = LineAmount(es, ls[n]) + (IF Goes(n) THEN b[n - 1] ELSE 0)
    <3> SUFFICES ASSUME NEW n \in 1..N, b[n - 1] \in Int
                 PROVE  b[n] = LineAmount(es, ls[n]) + (IF Goes(n) THEN b[n - 1] ELSE 0)
      OBVIOUS
    <3>1. b[n] = step[<<n, b[n - 1]>>]
      <4> HIDE DEF step
      <4> QED
        BY <2>2
    <3>2. <<n, b[n - 1]>> \in (1..N) \X Int
      OBVIOUS
    <3> HIDE DEF Goes
    <3> QED
      BY <3>1, <3>2
  <2> HIDE DEF step
  <2>4. 0 \in P
    BY <2>2
  <2>5. \A n \in 1..N : n - 1 \in P => n \in P
    <3> HIDE DEF Goes
    <3> QED
      BY <2>3
  <2>6. 0..N \subseteq P
    <3> HIDE DEF P
    <3> QED
      BY <2>4, <2>5, CountingUp
  <2>7. \A n \in 0..N : b[n] = IF n = 0 THEN 0 ELSE LineAmount(es, ls[n]) + (IF Goes(n) THEN b[n - 1] ELSE 0)
    <3> SUFFICES ASSUME NEW n \in 0..N
                 PROVE  b[n] = IF n = 0 THEN 0 ELSE LineAmount(es, ls[n]) + (IF Goes(n) THEN b[n - 1] ELSE 0)
      OBVIOUS
    <3> HIDE DEF Goes
    <3>1. CASE n = 0
      BY <2>2, <3>1
    <3>2. CASE n # 0
      <4>1. n \in 1..N /\ n - 1 \in 0..N
        BY <3>2
      <4>2. b[n - 1] \in Int
        BY <2>6, <4>1
      <4> QED
        BY <2>3, <3>2, <4>1, <4>2
    <3> QED
      BY <3>1, <3>2
  <2>8. b = After(b)
    <3> HIDE DEF Goes
    <3> QED
      BY <2>2, <2>7
  <2> QED
    BY <2>8
<1>2. balance = After(balance)
  <2> HIDE DEF After
  <2> QED
    BY <1>1
<1>3. RunningBalance(es, ls) = balance
  BY DEF RunningBalance
<1> HIDE DEF balance
<1>4. \A n \in 1..N : balance[n] = amount[n] + (IF Goes(n) THEN balance[n - 1] ELSE 0)
  <2> SUFFICES ASSUME NEW n \in 1..N
               PROVE  balance[n] = LineAmount(es, ls[n]) + (IF Goes(n) THEN balance[n - 1] ELSE 0)
    OBVIOUS
  <2>1. n \in 0..N /\ n # 0
    OBVIOUS
  <2> HIDE DEF Goes
  <2> QED
    BY <1>2, <2>1
<1>5. \A n \in 1..N : amount[n] \in Int
  OBVIOUS
<1> HIDE DEF amount
<1> DEFINE P == {n \in 0..N : n > 0 => balance[n] = SumFunctionOnSet(amount, RunTo(es, ls, n))}
<1>6. 0 \in P
  OBVIOUS
<1>7. ASSUME NEW n \in 1..N, n - 1 \in P
      PROVE  n \in P
  <2>1. CASE Goes(n)
    <3>1. n - 1 \in 1..N /\ n - 1 > 0
      BY <2>1
    <3>2. RunTo(es, ls, n) = RunTo(es, ls, n - 1) \cup {n}
      <4>1. ASSUME NEW k \in RunTo(es, ls, n) PROVE k \in RunTo(es, ls, n - 1) \cup {n}
        BY <3>1, <4>1, <2>1 DEF RunTo
      <4>2. ASSUME NEW k \in RunTo(es, ls, n - 1) PROVE k \in RunTo(es, ls, n)
        BY <3>1, <4>2, <2>1 DEF RunTo
      <4>3. n \in RunTo(es, ls, n)
        BY DEF RunTo
      <4> QED
        BY <4>1, <4>2, <4>3
    <3>3. n \notin RunTo(es, ls, n - 1)
      BY <3>1 DEF RunTo
    <3>4. IsFiniteSet(RunTo(es, ls, n - 1)) /\ \A k \in RunTo(es, ls, n - 1) \cup {n} : amount[k] \in Int
      <4>1. RunTo(es, ls, n - 1) \in SUBSET (1..N)
        BY <3>1 DEF RunTo
      <4>2. IsFiniteSet(1..N)
        BY FS_Interval
      <4> QED
        BY <1>5, <4>1, <4>2, FS_Subset
    <3>5. SumFunctionOnSet(amount, RunTo(es, ls, n - 1) \cup {n})
            = SumFunctionOnSet(amount, RunTo(es, ls, n - 1)) + amount[n]
      BY <3>3, <3>4, SumOfMore
    <3>6. balance[n - 1] = SumFunctionOnSet(amount, RunTo(es, ls, n - 1))
      BY <1>7, <3>1
    <3>7. SumFunctionOnSet(amount, RunTo(es, ls, n - 1)) \in Int
      BY <3>4, SumIsNumber
    <3>8. balance[n] = amount[n] + balance[n - 1]
      <4> HIDE DEF Goes
      <4> QED
        BY <1>4, <2>1
    <3>9. balance[n] = SumFunctionOnSet(amount, RunTo(es, ls, n))
      BY <1>5, <3>2, <3>5, <3>6, <3>7, <3>8
    <3> QED
      BY <3>9
  <2>2. CASE ~Goes(n)
    <3>1. RunTo(es, ls, n) = {n}
      <4>1. ASSUME NEW k \in RunTo(es, ls, n) PROVE k = n
        <5> SUFFICES ASSUME k # n PROVE FALSE
          OBVIOUS
        <5>1. k \in 1..n /\ n - 1 \in k..n /\ n \in k..n
          BY <4>1 DEF RunTo
        <5>2. AccountOf(es, ls[n - 1]) = AccountOf(es, ls[n])
          BY <4>1, <5>1 DEF RunTo
        <5> QED
          BY <2>2, <5>1, <5>2
      <4>2. n \in RunTo(es, ls, n)
        BY DEF RunTo
      <4> QED
        BY <4>1, <4>2
    <3>2. SumFunctionOnSet(amount, {n}) = amount[n]
      BY <1>5, SumOfSingle
    <3>3. balance[n] = amount[n] + 0
      <4> HIDE DEF Goes
      <4> QED
        BY <1>4, <2>2
    <3>4. amount[n] + 0 = amount[n]
      BY <1>5
    <3>5. balance[n] = SumFunctionOnSet(amount, RunTo(es, ls, n))
      BY <3>1, <3>2, <3>3, <3>4
    <3> QED
      BY <3>5
  <2> QED
    BY <2>1, <2>2
<1> HIDE DEF P
<1>8. 0..N \subseteq P
  BY <1>6, <1>7, CountingUp
<1> QED
  BY <1>3, <1>8 DEF P, amount

LineOrder == {p \in LedgerLines(book) \X LedgerLines(book) : LineBefore(book, p[1], p[2])}

LEMMA LinesAre ==
  ASSUME StatementsAssumption, BookInv
  PROVE  /\ IsFiniteSet(LedgerLines(book))
         /\ \A l \in LedgerLines(book) :
              /\ l = <<l[1], l[2]>> /\ l[1] \in Filtered(book, Dates) /\ l[1] \in 1..Len(book)
              /\ l[2] \in {"debit", "credit"}
              /\ AccountOf(book, l) \in ChartAccounts /\ LabelOf(book, l) \in Nat
              /\ LineAmount(book, l) \in Int
<1> PagesAssumption
  BY DEF StatementsAssumption
<1>1. IsFiniteSet(Filtered(book, Dates)) /\ Filtered(book, Dates) \subseteq 1..Len(book)
  BY BalancesAre, EntriesAre
<1>2. IsFiniteSet(LedgerLines(book))
  <2>1. IsFiniteSet({"debit", "credit"})
    <3>1. IsFiniteSet({"debit"}) /\ {"debit", "credit"} = {"debit"} \cup {"credit"}
      BY FS_Singleton
    <3> QED
      BY <3>1, FS_AddElement
  <2> QED
    BY <1>1, <2>1, FS_Product DEF LedgerLines
<1>3. ASSUME NEW l \in LedgerLines(book)
      PROVE  /\ l = <<l[1], l[2]>> /\ l[1] \in Filtered(book, Dates) /\ l[1] \in 1..Len(book)
             /\ l[2] \in {"debit", "credit"}
             /\ AccountOf(book, l) \in ChartAccounts /\ LabelOf(book, l) \in Nat
             /\ LineAmount(book, l) \in Int
  <2>1. /\ l = <<l[1], l[2]>> /\ l[1] \in Filtered(book, Dates) /\ l[1] \in 1..Len(book)
        /\ l[2] \in {"debit", "credit"}
    BY <1>1 DEF LedgerLines
  <2>2. PICK e \in Entry : e = book[l[1]]
    BY <2>1, EntriesAre
  <2>3. e.debit \in ChartAccounts /\ e.credit \in ChartAccounts /\ Shown(e) \in Nat
    BY <2>2 DEF Entry, StatementsAssumption, ChartAccounts, Shown
  <2>4. AccountOf(book, l) \in ChartAccounts
    <3>1. CASE l[2] = "debit"
      BY <2>2, <2>3, <3>1 DEF AccountOf
    <3>2. CASE l[2] = "credit"
      BY <2>2, <2>3, <3>2 DEF AccountOf
    <3> QED
      BY <2>1, <3>1, <3>2
  <2>5. LabelOf(book, l) \in Nat
    BY <2>4 DEF LabelOf, StatementsAssumption, ChartAccounts
  <2>6. LineAmount(book, l) \in Int
    BY <2>2, <2>3 DEF LineAmount
  <2> QED
    BY <2>1, <2>4, <2>5, <2>6
<1> QED
  BY <1>2, <1>3

\* A line's place among the lines of its account's label, in numbers.
Side(l) == IF l[2] = "debit" THEN 0 ELSE 1

LEMMA LineOrderIs ==
  ASSUME StatementsAssumption, BookInv, NEW k \in LedgerLines(book), NEW l \in LedgerLines(book)
  PROVE  /\ book[k[1]].date \in Nat /\ k[1] \in Nat /\ LabelOf(book, k) \in Nat /\ Side(k) \in {0, 1}
         /\ LineBefore(book, k, l) <=>
              \/ LabelOf(book, k) < LabelOf(book, l)
              \/ /\ LabelOf(book, k) = LabelOf(book, l)
                 /\ \/ book[k[1]].date < book[l[1]].date
                    \/ /\ book[k[1]].date = book[l[1]].date
                       /\ k[1] < l[1] \/ (k[1] = l[1] /\ Side(k) < Side(l))
<1> PagesAssumption
  BY DEF StatementsAssumption
<1>1. PICK i, j : i = k[1] /\ j = l[1] /\ i \in 1..Len(book) /\ j \in 1..Len(book)
  BY LinesAre
<1>2. /\ book[i].date \in Nat /\ book[j].date \in Nat /\ book[i].created = i /\ book[j].created = j
      /\ Len(book) \in Nat
  BY <1>1, EntriesAre
<1>3. Newest(book[j], book[i]) <=> \/ book[i].date < book[j].date
                                   \/ book[i].date = book[j].date /\ i < j
  BY <1>1, <1>2 DEF Newest
<1>4. k[2] = "debit" /\ l[2] = "credit" <=> Side(k) < Side(l)
  <2>1. k[2] \in {"debit", "credit"} /\ l[2] \in {"debit", "credit"}
    BY LinesAre
  <2> QED
    BY <2>1 DEF Side
<1>5. Side(k) \in {0, 1} /\ LabelOf(book, k) \in Nat
  BY LinesAre DEF Side
<1>6. i = j => book[i].date = book[j].date
  OBVIOUS
<1>7. LineBefore(book, k, l) <=>
        \/ LabelOf(book, k) < LabelOf(book, l)
        \/ /\ LabelOf(book, k) = LabelOf(book, l)
           /\ Newest(book[j], book[i]) \/ (i = j /\ Side(k) < Side(l))
  BY <1>1, <1>4 DEF LineBefore
<1>8. LineBefore(book, k, l) <=>
        \/ LabelOf(book, k) < LabelOf(book, l)
        \/ /\ LabelOf(book, k) = LabelOf(book, l)
           /\ \/ book[i].date < book[j].date
              \/ book[i].date = book[j].date /\ (i < j \/ (i = j /\ Side(k) < Side(l)))
  <2> HIDE DEF Newest
  <2> QED
    BY <1>3, <1>6, <1>7
<1>9. i \in Nat
  BY <1>1, <1>2
<1> QED
  BY <1>1, <1>2, <1>5, <1>8, <1>9

LEMMA LinesInOrder ==
  ASSUME StatementsAssumption, BookInv
  PROVE  Orders(LineOrder, LedgerLines(book))
<1> DEFINE S == LedgerLines(book)
           L(k) == LabelOf(book, k)
           D(k) == book[k[1]].date
           C(k) == k[1]
           Less(k, l) == \/ L(k) < L(l)
                         \/ /\ L(k) = L(l)
                            /\ D(k) < D(l) \/ (D(k) = D(l) /\ (C(k) < C(l) \/ (C(k) = C(l) /\ Side(k) < Side(l))))
<1>1. \A k, l \in S : <<k, l>> \in LineOrder <=> Less(k, l)
  BY LineOrderIs DEF LineOrder
<1>2. \A k \in S : L(k) \in Nat /\ D(k) \in Nat /\ C(k) \in Nat /\ Side(k) \in {0, 1}
  BY LineOrderIs
<1>3. \A k, l \in S : C(k) = C(l) /\ Side(k) = Side(l) => k = l
  <2> SUFFICES ASSUME NEW k \in S, NEW l \in S, k[1] = l[1], Side(k) = Side(l) PROVE k = l
    OBVIOUS
  <2>1. k = <<k[1], k[2]>> /\ l = <<l[1], l[2]>> /\ {k[2], l[2]} \subseteq {"debit", "credit"}
    BY LinesAre
  <2>2. k[2] = l[2]
    BY <2>1 DEF Side
  <2> QED
    BY <2>1, <2>2
<1> HIDE DEF S, L, D, C
<1>4. \A x \in S : <<x, x>> \notin LineOrder
  BY <1>1, <1>2
<1>5. \A x, y, z \in S : <<x, y>> \in LineOrder /\ <<y, z>> \in LineOrder => <<x, z>> \in LineOrder
  <2> SUFFICES ASSUME NEW x \in S, NEW y \in S, NEW z \in S, Less(x, y), Less(y, z) PROVE Less(x, z)
    BY <1>1
  <2> QED
    BY <1>2
<1>6. \A x, y \in S : x = y \/ <<x, y>> \in LineOrder \/ <<y, x>> \in LineOrder
  <2> SUFFICES ASSUME NEW x \in S, NEW y \in S, ~Less(x, y), ~Less(y, x) PROVE x = y
    BY <1>1
  <2>1. C(x) = C(y) /\ Side(x) = Side(y)
    BY <1>2
  <2> QED
    BY <1>3, <2>1
<1> QED
  BY <1>4, <1>5, <1>6 DEF Orders, S

\* The report lists the lines in that order.
LEMMA LedgerIsListed ==
  ASSUME StatementsAssumption, BookInv
  PROVE  Ordered(LedgerLines(book), LAMBDA k, l : LineBefore(book, k, l))
           = Listed(LineOrder, LedgerLines(book))
<1> DEFINE S == LedgerLines(book)
           s == Listed(LineOrder, S)
           Fewer(x) == {y \in S : LineBefore(book, y, x)}
<1>1. IsFiniteSet(S) /\ Orders(LineOrder, S)
  BY LinesAre, LinesInOrder
<1>2. \A x \in S : Fewer(x) = Lower(LineOrder, S, x)
  BY DEF Lower, LineOrder
<1>3. Ordered(S, LAMBDA k, l : LineBefore(book, k, l))
        = [n \in 1..Cardinality(S) |-> CHOOSE x \in S : Cardinality(Fewer(x)) = n - 1]
  BY DEF Ordered
<1> HIDE DEF S, Fewer
<1>4. /\ DOMAIN s = 1..Cardinality(S) /\ \A n \in 1..Cardinality(S) : s[n] \in S
      /\ \A n \in 1..Cardinality(S) :
           /\ Cardinality(Lower(LineOrder, S, s[n])) = n - 1
           /\ \A x \in S : Cardinality(Lower(LineOrder, S, x)) = n - 1 => x = s[n]
  BY <1>1, ListedIs
<1>5. s = [n \in 1..Cardinality(S) |-> s[n]]
  BY DEF Listed
<1> HIDE DEF s
<1>6. \A n \in 1..Cardinality(S) : (CHOOSE x \in S : Cardinality(Fewer(x)) = n - 1) = s[n]
  <2> SUFFICES ASSUME NEW n \in 1..Cardinality(S)
               PROVE  (CHOOSE x \in S : Cardinality(Fewer(x)) = n - 1) = s[n]
    OBVIOUS
  <2>1. s[n] \in S /\ Cardinality(Fewer(s[n])) = n - 1
    BY <1>2, <1>4
  <2>2. \A x \in S : Cardinality(Fewer(x)) = n - 1 => x = s[n]
    BY <1>2, <1>4
  <2> QED
    BY <2>1, <2>2
<1> QED
  BY <1>3, <1>5, <1>6 DEF S, s

\* What the lines of an account come to is its balance.
LEMMA LinesComeToNet ==
  ASSUME StatementsAssumption, BookInv, NEW a
  PROVE  SumFunctionOnSet([l \in LedgerLines(book) |-> LineAmount(book, l)],
                          {l \in LedgerLines(book) : AccountOf(book, l) = a})
           = Net(book, a, Dates)
<1> PagesAssumption
  BY DEF StatementsAssumption
<1> DEFINE S == LedgerLines(book)
           f == [l \in S |-> LineAmount(book, l)]
           T == {l \in S : AccountOf(book, l) = a}
           D == Debiting(Dates, a)
           C == Crediting(Dates, a)
           d == [i \in D |-> <<i, "debit">>]
           c == [i \in C |-> <<i, "credit">>]
           U == {d[i] : i \in D}
           V == {c[i] : i \in C}
           g == [i \in D |-> f[d[i]]]
           h == [i \in C |-> f[c[i]]]
           m == [i \in C |-> ShownEach[i]]
<1>1. \A i \in D : d[i] = <<i, "debit">> /\ d[i] \in S /\ f[d[i]] = ShownEach[i]
  <2> SUFFICES ASSUME NEW i \in D PROVE d[i] = <<i, "debit">> /\ d[i] \in S /\ f[d[i]] = ShownEach[i]
    OBVIOUS
  <2>1. i \in Filtered(book, Dates) /\ i \in DOMAIN book
    BY AmountsAre DEF Debiting
  <2>2. d[i] = <<i, "debit">> /\ d[i] \in S
    BY <2>1 DEF LedgerLines
  <2>3. LineAmount(book, d[i]) = ShownEach[i]
    BY <2>1, <2>2, AmountsAre DEF LineAmount
  <2> QED
    BY <2>2, <2>3
<1>2. \A i \in C : c[i] = <<i, "credit">> /\ c[i] \in S /\ f[c[i]] = -ShownEach[i]
  <2> SUFFICES ASSUME NEW i \in C PROVE c[i] = <<i, "credit">> /\ c[i] \in S /\ f[c[i]] = -ShownEach[i]
    OBVIOUS
  <2>1. i \in Filtered(book, Dates) /\ i \in DOMAIN book
    BY AmountsAre DEF Crediting
  <2>2. c[i] = <<i, "credit">> /\ c[i] \in S
    BY <2>1 DEF LedgerLines
  <2>3. LineAmount(book, c[i]) = -ShownEach[i]
    BY <2>1, <2>2, AmountsAre DEF LineAmount
  <2> QED
    BY <2>2, <2>3
<1>3. T = U \cup V /\ U \cap V = {}
  <2>1. ASSUME NEW l \in T PROVE l \in U \cup V
    <3>1. /\ l = <<l[1], l[2]>> /\ l[1] \in Filtered(book, Dates) /\ l[2] \in {"debit", "credit"}
          /\ book[l[1]][l[2]] = a
      BY LinesAre DEF AccountOf
    <3>2. CASE l[2] = "debit"
      <4>1. l[1] \in D
        BY <3>1, <3>2 DEF Debiting
      <4>2. l = d[l[1]]
        BY <3>1, <3>2, <4>1
      <4> QED
        BY <4>1, <4>2
    <3>3. CASE l[2] = "credit"
      <4>1. l[1] \in C
        BY <3>1, <3>3 DEF Crediting
      <4>2. l = c[l[1]]
        BY <3>1, <3>3, <4>1
      <4> QED
        BY <4>1, <4>2
    <3> QED
      BY <3>1, <3>2, <3>3
  <2>2. \A i \in D : d[i] \in T
    BY <1>1 DEF Debiting, AccountOf
  <2>3. \A i \in C : c[i] \in T
    BY <1>2 DEF Crediting, AccountOf
  <2>4. (\A l \in U : l[2] = "debit") /\ (\A l \in V : l[2] = "credit")
    BY <1>1, <1>2
  <2> QED
    BY <2>1, <2>2, <2>3, <2>4
<1>5. (\A i \in D : ShownEach[i] \in Int) /\ (\A i \in C : ShownEach[i] \in Int)
  BY AmountsAre
<1>6. IsFiniteSet(D) /\ IsFiniteSet(C)
  BY AmountsAre
<1> HIDE DEF S, f, D, C, T
<1>7. IsFiniteSet(U) /\ SumFunctionOnSet(f, U) = SumFunctionOnSet(g, D)
  <2>1. (\A i \in D : f[d[i]] \in Int) /\ \A i, j \in D : d[i] = d[j] => i = j
    BY <1>1, <1>5
  <2> HIDE DEF d
  <2> QED
    BY <1>6, <2>1, SumRenamed
<1>8. IsFiniteSet(V) /\ SumFunctionOnSet(f, V) = SumFunctionOnSet(h, C)
  <2>1. (\A i \in C : f[c[i]] \in Int) /\ \A i, j \in C : c[i] = c[j] => i = j
    BY <1>2, <1>5
  <2> HIDE DEF c
  <2> QED
    BY <1>6, <2>1, SumRenamed
<1>9. SumFunctionOnSet(g, D) = SumFunctionOnSet(ShownEach, D)
  <2>1. \A i \in D : g[i] = ShownEach[i]
    BY <1>1
  <2> HIDE DEF g
  <2> QED
    BY <1>6, <2>1, SumsAgree
<1>10. SumFunctionOnSet(h, C) = -SumFunctionOnSet(ShownEach, C)
  <2>1. \A i \in C : ShownEach[i] \in Int /\ h[i] = -ShownEach[i]
    BY <1>2, <1>5
  <2> HIDE DEF h
  <2> QED
    BY <1>6, <2>1, SumOfOpposites
<1>11. SumFunctionOnSet(f, U \cup V) = SumFunctionOnSet(f, U) + SumFunctionOnSet(f, V)
  <2>1. \A l \in U \cup V : f[l] \in Int
    BY <1>1, <1>2, <1>5
  <2> HIDE DEF U, V
  <2> QED
    BY <1>3, <1>7, <1>8, <2>1, SumOfParts
<1>12. SumFunctionOnSet(ShownEach, D) \in Int /\ SumFunctionOnSet(ShownEach, C) \in Int
  BY <1>5, <1>6, SumIsNumber
<1>13. Net(book, a, Dates) = SumFunctionOnSet(ShownEach, D) - SumFunctionOnSet(ShownEach, C)
  BY NetIs DEF D, C
<1>14. SumFunctionOnSet(f, T) = Net(book, a, Dates)
  <2> HIDE DEF U, V, g, h
  <2> QED
    BY <1>3, <1>7, <1>8, <1>9, <1>10, <1>11, <1>12, <1>13
<1> QED
  BY <1>14 DEF f, T, S

\* The lines from where an account of its own label begins are all it has.
LEMMA LinesStandTogether ==
  ASSUME StatementsAssumption, BookInv, NEW N \in Nat, NEW s, \A n \in 1..N : s[n] \in LedgerLines(book),
         \A m, n \in 1..N : m < n => <<s[m], s[n]>> \in LineOrder,
         NEW a \in ChartAccounts, \A b \in ChartAccounts : Chart[a].label = Chart[b].label => a = b,
         NEW i \in 1..N, AccountOf(book, s[i]) = a, \A j \in 1..N : j > i => AccountOf(book, s[j]) # a
  PROVE  RunTo(book, s, i) = {k \in 1..N : AccountOf(book, s[k]) = a}
<1>1. ASSUME NEW k \in RunTo(book, s, i) PROVE k \in 1..N /\ AccountOf(book, s[k]) = a
  BY <1>1 DEF RunTo
<1>2. ASSUME NEW k \in 1..N, AccountOf(book, s[k]) = a PROVE k \in RunTo(book, s, i)
  <2>1. k <= i
    BY <1>2
  <2>2. ASSUME NEW j \in k..i PROVE AccountOf(book, s[j]) = a
    <3>1. j \in 1..N /\ k <= j /\ j <= i
      BY <2>1
    <3>2. \A m, n \in 1..N : m <= n => LabelOf(book, s[m]) <= LabelOf(book, s[n])
      <4> SUFFICES ASSUME NEW m \in 1..N, NEW n \in 1..N, m <= n
                   PROVE  LabelOf(book, s[m]) <= LabelOf(book, s[n])
        OBVIOUS
      <4>1. s[m] \in LedgerLines(book) /\ s[n] \in LedgerLines(book)
        OBVIOUS
      <4>2. LabelOf(book, s[m]) \in Nat /\ LabelOf(book, s[n]) \in Nat
        BY <4>1, LinesAre
      <4>3. CASE m = n
        BY <4>2, <4>3
      <4>4. CASE m # n
        <5>1. <<s[m], s[n]>> \in LineOrder
          BY <4>4
        <5>2. LineBefore(book, s[m], s[n])
          BY <5>1 DEF LineOrder
        <5> QED
          BY <4>1, <4>2, <5>2, LineOrderIs
      <4> QED
        BY <4>3, <4>4
    <3>3. LabelOf(book, s[k]) = Chart[a].label /\ LabelOf(book, s[i]) = Chart[a].label
      BY <1>2 DEF LabelOf
    <3>4. LabelOf(book, s[j]) = Chart[a].label
      <4>1. LabelOf(book, s[k]) <= LabelOf(book, s[j]) /\ LabelOf(book, s[j]) <= LabelOf(book, s[i])
        BY <3>1, <3>2
      <4>2. LabelOf(book, s[j]) \in Nat /\ Chart[a].label \in Nat
        BY <3>1, <3>3, LinesAre
      <4> QED
        BY <3>3, <4>1, <4>2
    <3>5. AccountOf(book, s[j]) \in ChartAccounts
      BY <3>1, LinesAre
    <3> QED
      BY <3>4, <3>5 DEF LabelOf
  <2> QED
    BY <1>2, <2>1, <2>2 DEF RunTo
<1> QED
  BY <1>1, <1>2

LEMMA LedgerRuns ==
  ASSUME StatementsAssumption, BookInv
  PROVE  LedgerRunsToBalances
<1> DEFINE S  == LedgerLines(book)
           s  == Listed(LineOrder, S)
           N  == Cardinality(S)
           f  == [l \in S |-> LineAmount(book, l)]
           up == RunningBalance(book, s)
<1>1. IsFiniteSet(S) /\ Orders(LineOrder, S) /\ \A l \in S : f[l] = LineAmount(book, l) /\ f[l] \in Int
  BY LinesAre, LinesInOrder
<1>2. /\ DOMAIN s = 1..N /\ N \in Nat /\ \A n \in 1..N : s[n] \in S
      /\ \A m, n \in 1..N : m < n => <<s[m], s[n]>> \in LineOrder
  BY <1>1, ListedIs
<1>3. Len(s) = N
  <2>1. s = [n \in 1..N |-> s[n]]
    BY DEF Listed
  <2> HIDE DEF s, N, S
  <2>2. s \in [1..N -> S]
    BY <1>2, <2>1
  <2>3. s \in Seq(S)
    BY <1>2, <2>2
  <2> QED
    BY <1>2, <2>3
<1>4. generalLedger(book) = [n \in 1..N |-> [account |-> AccountOf(book, s[n]), balance |-> up[n]]]
  BY <1>2, LedgerIsListed DEF generalLedger
<1>5. \A n \in 1..N : up[n] = SumFunctionOnSet([k \in 1..N |-> LineAmount(book, s[k])], RunTo(book, s, n))
  <2>1. \A n \in 1..N : LineAmount(book, s[n]) \in Int
    BY <1>1, <1>2
  <2> HIDE DEF s, N, S
  <2> QED
    BY <1>2, <1>3, <2>1, RunningBalanceIs
<1> SUFFICES ASSUME NEW a \in ChartAccounts, \A b \in ChartAccounts : Chart[a].label = Chart[b].label => a = b,
                    NEW i \in 1..N, AccountOf(book, s[i]) = a,
                    \A j \in 1..N : j > i => AccountOf(book, s[j]) # a
             PROVE  up[i] = Net(book, a, Dates)
  <2> HIDE DEF s, N, S, up
  <2> QED
    BY <1>4 DEF LedgerRunsToBalances, RunsTo
<1>6. RunTo(book, s, i) = {k \in 1..N : AccountOf(book, s[k]) = a}
  <2> HIDE DEF s, N
  <2> QED
    BY <1>2, LinesStandTogether
<1> DEFINE T == {l \in S : AccountOf(book, l) = a}
<1>7. RunTo(book, s, i) = {n \in DOMAIN s : s[n] \in T}
  <2> HIDE DEF s, N, S
  <2> QED
    BY <1>2, <1>6
<1>8. [k \in 1..N |-> LineAmount(book, s[k])] = [n \in DOMAIN s |-> f[s[n]]]
  <2> HIDE DEF s, N
  <2> QED
    BY <1>2
<1>9. SumFunctionOnSet([n \in DOMAIN s |-> f[s[n]]], {n \in DOMAIN s : s[n] \in T}) = SumFunctionOnSet(f, T)
  <2>1. T \in SUBSET S
    OBVIOUS
  <2> HIDE DEF f, S, T
  <2> QED
    BY <1>1, <2>1, SumListed
<1>10. SumFunctionOnSet(f, T) = Net(book, a, Dates)
  BY LinesComeToNet
<1> HIDE DEF up, f, T, s, N, S
<1> QED
  BY <1>5, <1>7, <1>8, <1>9, <1>10

-----------------------------------------------------------------------------
(* The aging: payments are taken from the oldest amounts, so that what they   *)
(* leave is what they fall short of, or nothing.                              *)

LEMMA MinOfTwo ==
  ASSUME NEW m \in Int, NEW n \in Int
  PROVE  Min({m, n}) = IF m < n THEN m ELSE n
<1>1. \E x \in {m, n} : \A y \in {m, n} : x <= y
  OBVIOUS
<1>2. Min({m, n}) \in {m, n} /\ \A y \in {m, n} : Min({m, n}) <= y
  BY <1>1 DEF Min
<1> QED
  BY <1>2

LEMMA MaxOfTwo ==
  ASSUME NEW m \in Int, NEW n \in Int
  PROVE  Max({m, n}) = IF m < n THEN n ELSE m
<1>1. \E x \in {m, n} : \A y \in {m, n} : x >= y
  OBVIOUS
<1>2. Max({m, n}) \in {m, n} /\ \A y \in {m, n} : Max({m, n}) >= y
  BY <1>1 DEF Max
<1> QED
  BY <1>2

\* Payments leave of all that was open what they fall short of, whatever is
\* open and however much was paid.
LEMMA PaidOffIs ==
  ASSUME NEW N \in Nat, NEW open, DOMAIN open = 1..N, Len(open) = N, \A n \in 1..N : open[n] \in Nat,
         NEW payments \in Nat
  PROVE  /\ DOMAIN PaidOff(open, payments) = 1..N
         /\ \A n \in 1..N : PaidOff(open, payments)[n] \in Int
         /\ SumFunctionOnSet(PaidOff(open, payments), 1..N)
              = Max({0, SumFunctionOnSet(open, 1..N) - payments})
<1> DEFINE After(u) == [n \in 0..N |-> IF n = 0 THEN payments ELSE u[n - 1] - Min({u[n - 1], open[n]})]
           step     == [x \in (1..N) \X Nat |-> x[2] - Min({x[2], open[x[1]]})]
           left     == CHOOSE u : u = After(u)
           paid     == PaidOff(open, payments)
           Owed(n)  == SumFunctionOnSet(open, 1..n)
           Rest(n)  == SumFunctionOnSet(paid, 1..n)
<1>1. \A u \in Nat, n \in 1..N : u - Min({u, open[n]}) = IF u < open[n] THEN 0 ELSE u - open[n]
  <2> SUFFICES ASSUME NEW u \in Nat, NEW n \in 1..N
               PROVE  u - Min({u, open[n]}) = IF u < open[n] THEN 0 ELSE u - open[n]
    OBVIOUS
  <2>1. PICK o \in Nat : o = open[n]
    OBVIOUS
  <2>2. Min({u, o}) = IF u < o THEN u ELSE o
    BY MinOfTwo
  <2> QED
    BY <2>1, <2>2
<1>2. \E u : u = After(u)
  <2>1. PICK u : Iterates(u, N, payments, step)
    BY IterationExists
  <2>2. u = [n \in 0..N |-> IF n = 0 THEN payments ELSE step[<<n, u[n - 1]>>]]
    BY <2>1 DEF Iterates
  <2> DEFINE P == {n \in 0..N : u[n] \in Nat}
  <2>3. \A n \in 1..N : u[n - 1] \in Nat => u[n] = u[n - 1] - Min({u[n - 1], open[n]})
    <3> SUFFICES ASSUME NEW n \in 1..N, u[n - 1] \in Nat
                 PROVE  u[n] = u[n - 1] - Min({u[n - 1], open[n]})
      OBVIOUS
    <3>1. u[n] = step[<<n, u[n - 1]>>]
      <4> HIDE DEF step
      <4> QED
        BY <2>2
    <3>2. <<n, u[n - 1]>> \in (1..N) \X Nat
      OBVIOUS
    <3> QED
      BY <3>1, <3>2
  <2> HIDE DEF step
  <2>4. 0 \in P
    BY <2>2
  <2>5. \A n \in 1..N : n - 1 \in P => n \in P
    <3> SUFFICES ASSUME NEW n \in 1..N, u[n - 1] \in Nat PROVE u[n] \in Nat
      OBVIOUS
    <3>1. u[n] = IF u[n - 1] < open[n] THEN 0 ELSE u[n - 1] - open[n]
      BY <1>1, <2>3
    <3> QED
      BY <3>1
  <2>6. 0..N \subseteq P
    <3> HIDE DEF P
    <3> QED
      BY <2>4, <2>5, CountingUp
  <2>7. \A n \in 0..N : u[n] = IF n = 0 THEN payments ELSE u[n - 1] - Min({u[n - 1], open[n]})
    <3> SUFFICES ASSUME NEW n \in 0..N
                 PROVE  u[n] = IF n = 0 THEN payments ELSE u[n - 1] - Min({u[n - 1], open[n]})
      OBVIOUS
    <3>1. CASE n = 0
      BY <2>2, <3>1
    <3>2. CASE n # 0
      <4>1. n \in 1..N /\ n - 1 \in 0..N
        BY <3>2
      <4>2. u[n - 1] \in Nat
        BY <2>6, <4>1
      <4> QED
        BY <2>3, <3>2, <4>1, <4>2
    <3> QED
      BY <3>1, <3>2
  <2>8. u = After(u)
    BY <2>2, <2>7
  <2> QED
    BY <2>8
<1>3. left = After(left)
  <2> HIDE DEF After
  <2> QED
    BY <1>2
<1>4. paid = [n \in 1..N |-> open[n] - (left[n - 1] - left[n])]
  BY DEF PaidOff
<1> HIDE DEF left, paid
<1>5. left[0] = payments /\ \A n \in 1..N : left[n] = left[n - 1] - Min({left[n - 1], open[n]})
  <2>1. \A n \in 0..N : left[n] = IF n = 0 THEN payments ELSE left[n - 1] - Min({left[n - 1], open[n]})
    BY <1>3
  <2>2. left[0] = payments
    <3>1. 0 \in 0..N
      OBVIOUS
    <3> HIDE DEF After, left
    <3> QED
      BY <2>1, <3>1
  <2>3. ASSUME NEW n \in 1..N PROVE left[n] = left[n - 1] - Min({left[n - 1], open[n]})
    <3>1. n \in 0..N /\ n # 0
      OBVIOUS
    <3> HIDE DEF After
    <3> QED
      BY <2>1, <3>1
  <2> QED
    BY <2>2, <2>3
<1> HIDE DEF After
<1>6. \A n \in 1..N : left[n - 1] \in Nat =>
        /\ left[n] = IF left[n - 1] < open[n] THEN 0 ELSE left[n - 1] - open[n]
        /\ left[n] \in Nat /\ paid[n] = open[n] - (left[n - 1] - left[n])
  <2> SUFFICES ASSUME NEW n \in 1..N, left[n - 1] \in Nat
               PROVE  /\ left[n] = IF left[n - 1] < open[n] THEN 0 ELSE left[n - 1] - open[n]
                      /\ left[n] \in Nat /\ paid[n] = open[n] - (left[n - 1] - left[n])
    OBVIOUS
  <2>1. left[n] = IF left[n - 1] < open[n] THEN 0 ELSE left[n - 1] - open[n]
    BY <1>1, <1>5
  <2>2. left[n] \in Nat
    BY <2>1
  <2> QED
    BY <1>4, <2>1, <2>2
<1>7. \A n \in 0..N : left[n] \in Nat
  <2> DEFINE P == {n \in 0..N : left[n] \in Nat}
  <2>1. 0 \in P
    BY <1>5
  <2>2. \A n \in 1..N : n - 1 \in P => n \in P
    BY <1>6
  <2> HIDE DEF P
  <2>3. 0..N \subseteq P
    BY <2>1, <2>2, CountingUp
  <2> QED
    BY <2>3 DEF P
<1>8. \A n \in 1..N : paid[n] \in Int /\ paid[n] = open[n] - (left[n - 1] - left[n])
  <2> SUFFICES ASSUME NEW n \in 1..N PROVE paid[n] \in Int /\ paid[n] = open[n] - (left[n - 1] - left[n])
    OBVIOUS
  <2>1. left[n - 1] \in Nat /\ left[n] \in Nat /\ open[n] \in Nat
    <3>1. n - 1 \in 0..N /\ n \in 0..N
      OBVIOUS
    <3> QED
      BY <1>7, <3>1
  <2> QED
    BY <1>6, <2>1
<1>9. \A n \in 1..N : /\ 1..n = (1..(n - 1)) \cup {n} /\ n \notin 1..(n - 1) /\ IsFiniteSet(1..(n - 1))
  <2> SUFFICES ASSUME NEW n \in 1..N
               PROVE  /\ 1..n = (1..(n - 1)) \cup {n} /\ n \notin 1..(n - 1) /\ IsFiniteSet(1..(n - 1))
    OBVIOUS
  <2>1. 1 \in Int /\ n - 1 \in Int
    OBVIOUS
  <2>2. IsFiniteSet(1..(n - 1))
    BY <2>1, FS_Interval
  <2> QED
    BY <2>2
<1>10. \A n \in 1..N : Owed(n) = Owed(n - 1) + open[n] /\ Rest(n) = Rest(n - 1) + paid[n]
  <2> SUFFICES ASSUME NEW n \in 1..N
               PROVE  Owed(n) = Owed(n - 1) + open[n] /\ Rest(n) = Rest(n - 1) + paid[n]
    OBVIOUS
  <2>1. \A k \in (1..(n - 1)) \cup {n} : open[k] \in Int /\ paid[k] \in Int
    BY <1>8
  <2>2. Owed(n) = SumFunctionOnSet(open, (1..(n - 1)) \cup {n})
    BY <1>9
  <2>3. Rest(n) = SumFunctionOnSet(paid, (1..(n - 1)) \cup {n})
    BY <1>9
  <2>4. n \notin 1..(n - 1) /\ IsFiniteSet(1..(n - 1))
    BY <1>9
  <2>5. SumFunctionOnSet(open, (1..(n - 1)) \cup {n}) = SumFunctionOnSet(open, 1..(n - 1)) + open[n]
    BY <2>1, <2>4, SumOfMore
  <2>6. SumFunctionOnSet(paid, (1..(n - 1)) \cup {n}) = SumFunctionOnSet(paid, 1..(n - 1)) + paid[n]
    BY <2>1, <2>4, SumOfMore
  <2> QED
    BY <2>2, <2>3, <2>5, <2>6
<1>11. Owed(0) = 0 /\ Rest(0) = 0
  <2>1. 1..0 = {}
    OBVIOUS
  <2>2. SumFunctionOnSet(open, {}) = 0 /\ SumFunctionOnSet(paid, {}) = 0
    BY Zenon, SumOfNone
  <2> QED
    BY <2>1, <2>2
<1> HIDE DEF Owed, Rest
<1> DEFINE P == {n \in 0..N : /\ Owed(n) \in Nat /\ Rest(n) = Owed(n) - payments + left[n]
                              /\ left[n] = IF payments < Owed(n) THEN 0 ELSE payments - Owed(n)}
<1>12. 0 \in P
  BY <1>5, <1>11
<1>13. ASSUME NEW n \in 1..N, n - 1 \in P
       PROVE  n \in P
  <2>1. PICK l, m, o, q, r, p : /\ l = left[n - 1] /\ m = left[n] /\ o = open[n]
                                /\ q = Owed(n - 1) /\ r = Rest(n - 1) /\ p = paid[n]
    OBVIOUS
  <2>2. n - 1 \in 0..N /\ n \in 0..N
    OBVIOUS
  <2>3. l \in Nat /\ m \in Nat /\ o \in Nat /\ q \in Nat
    BY <1>7, <1>13, <2>1, <2>2
  <2>4. r = q - payments + l /\ l = IF payments < q THEN 0 ELSE payments - q
    BY <1>13, <2>1
  <2>5. m = (IF l < o THEN 0 ELSE l - o) /\ p = o - (l - m)
    BY <1>6, <1>8, <2>1, <2>3
  <2>6. Owed(n) = q + o /\ Rest(n) = r + p
    BY <1>10, <2>1
  <2>7. /\ q + o \in Nat /\ r + p = (q + o) - payments + m
        /\ m = IF payments < q + o THEN 0 ELSE payments - (q + o)
    BY <2>3, <2>4, <2>5
  <2> QED
    BY <2>1, <2>2, <2>6, <2>7
<1>14. N \in P
  <2> HIDE DEF P
  <2>1. 0..N \subseteq P
    BY <1>12, <1>13, CountingUp
  <2> QED
    BY <2>1
<1>15. Rest(N) = Max({0, Owed(N) - payments})
  <2>1. PICK o, m : o \in Nat /\ o = Owed(N) /\ m = left[N] /\ Rest(N) = o - payments + m
                            /\ m = IF payments < o THEN 0 ELSE payments - o
    BY <1>14
  <2>2. Max({0, o - payments}) = IF 0 < o - payments THEN o - payments ELSE 0
    <3>1. PICK d \in Int : d = o - payments
      BY <2>1
    <3>2. Max({0, d}) = IF 0 < d THEN d ELSE 0
      BY MaxOfTwo
    <3> QED
      BY <3>1, <3>2
  <2>3. o - payments + m = IF 0 < o - payments THEN o - payments ELSE 0
    BY <2>1
  <2> QED
    BY <2>1, <2>2, <2>3
<1>16. DOMAIN paid = 1..N
  BY <1>4
<1> QED
  BY <1>8, <1>15, <1>16 DEF Owed, Rest, paid

AgeOrder(D) == {p \in D \X D : Newest(book[p[2]], book[p[1]])}

LEMMA AgesInOrder ==
  ASSUME PagesAssumption, BookInv, NEW D \in SUBSET DOMAIN book
  PROVE  Orders(AgeOrder(D), D)
<1>1. \A i \in D : book[i].date \in Nat /\ book[i].created = i /\ i \in Nat
  BY EntriesAre
<1> DEFINE Younger(i, j) == book[i].date < book[j].date \/ (book[i].date = book[j].date /\ i < j)
<1>2. \A i, j \in D : <<i, j>> \in AgeOrder(D) <=> Younger(i, j)
  <2> SUFFICES ASSUME NEW i \in D, NEW j \in D PROVE <<i, j>> \in AgeOrder(D) <=> Younger(i, j)
    OBVIOUS
  <2>1. <<i, j>> \in AgeOrder(D) <=> Newest(book[j], book[i])
    BY DEF AgeOrder
  <2>2. Newest(book[j], book[i]) <=> Younger(i, j)
    BY <1>1 DEF Newest
  <2> QED
    BY <2>1, <2>2
<1>3. \A x \in D : <<x, x>> \notin AgeOrder(D)
  BY <1>1, <1>2
<1>4. \A x, y, z \in D : <<x, y>> \in AgeOrder(D) /\ <<y, z>> \in AgeOrder(D) => <<x, z>> \in AgeOrder(D)
  BY <1>1, <1>2
<1>5. \A x, y \in D : x = y \/ <<x, y>> \in AgeOrder(D) \/ <<y, x>> \in AgeOrder(D)
  <2> SUFFICES ASSUME NEW x \in D, NEW y \in D, x # y PROVE Younger(x, y) \/ Younger(y, x)
    BY <1>2
  <2>1. book[x].date \in Nat /\ book[y].date \in Nat /\ x \in Nat /\ y \in Nat
    BY <1>1
  <2> QED
    BY <2>1
<1> QED
  BY <1>3, <1>4, <1>5 DEF Orders

LEMMA AgesAreListed ==
  ASSUME PagesAssumption, BookInv, NEW D \in SUBSET DOMAIN book
  PROVE  Ordered(D, LAMBDA i, j : Newest(book[j], book[i])) = Listed(AgeOrder(D), D)
<1> DEFINE s == Listed(AgeOrder(D), D)
           Older(x) == {y \in D : Newest(book[x], book[y])}
<1>1. IsFiniteSet(D) /\ Orders(AgeOrder(D), D)
  <2>1. IsFiniteSet(DOMAIN book)
    BY EntriesAre
  <2> QED
    BY <2>1, AgesInOrder, FS_Subset
<1>2. \A x \in D : Older(x) = Lower(AgeOrder(D), D, x)
  BY DEF Lower, AgeOrder
<1>3. Ordered(D, LAMBDA i, j : Newest(book[j], book[i]))
        = [n \in 1..Cardinality(D) |-> CHOOSE x \in D : Cardinality(Older(x)) = n - 1]
  BY DEF Ordered
<1> HIDE DEF Older
<1>4. /\ DOMAIN s = 1..Cardinality(D) /\ \A n \in 1..Cardinality(D) : s[n] \in D
      /\ \A n \in 1..Cardinality(D) :
           /\ Cardinality(Lower(AgeOrder(D), D, s[n])) = n - 1
           /\ \A x \in D : Cardinality(Lower(AgeOrder(D), D, x)) = n - 1 => x = s[n]
  BY <1>1, ListedIs
<1>5. s = [n \in 1..Cardinality(D) |-> s[n]]
  BY DEF Listed
<1> HIDE DEF s
<1>6. \A n \in 1..Cardinality(D) : (CHOOSE x \in D : Cardinality(Older(x)) = n - 1) = s[n]
  <2> SUFFICES ASSUME NEW n \in 1..Cardinality(D)
               PROVE  (CHOOSE x \in D : Cardinality(Older(x)) = n - 1) = s[n]
    OBVIOUS
  <2>1. s[n] \in D /\ Cardinality(Older(s[n])) = n - 1
    BY <1>2, <1>4
  <2>2. \A x \in D : Cardinality(Older(x)) = n - 1 => x = s[n]
    BY <1>2, <1>4
  <2> QED
    BY <2>1, <2>2
<1> QED
  BY <1>3, <1>5, <1>6 DEF s

LEMMA AgingOwes ==
  ASSUME StatementsAssumption, BookInv
  PROVE  AgingIsWhatIsOwed
<1> PagesAssumption
  BY DEF StatementsAssumption
<1> SUFFICES ASSUME NEW a, NEW to
             PROVE  Aged(a, to) = Max({0, Net(book, a, Until(to))})
  BY DEF AgingIsWhatIsOwed
<1> DEFINE D    == Debiting(Until(to), a)
           C    == Crediting(Until(to), a)
           s    == Listed(AgeOrder(D), D)
           N    == Cardinality(D)
           open == [n \in DOMAIN s |-> Shown(book[s[n]])]
           paid == SumFunction([i \in C |-> Shown(book[i])])
           left == PaidOff(open, paid)
           date == [n \in DOMAIN s |-> book[s[n]].date]
<1>1. /\ IsFiniteSet(D) /\ IsFiniteSet(C) /\ D \in SUBSET DOMAIN book
      /\ (\A i \in D : ShownEach[i] = Shown(book[i]) /\ ShownEach[i] \in Nat)
      /\ (\A i \in C : ShownEach[i] = Shown(book[i]) /\ ShownEach[i] \in Nat)
  BY AmountsAre
<1>2. /\ DOMAIN s = 1..N /\ N \in Nat /\ \A n \in 1..N : s[n] \in D
  BY <1>1, AgesInOrder, ListedIs
<1>3. Ordered(D, LAMBDA i, j : Newest(book[j], book[i])) = s
  BY <1>1, AgesAreListed
<1>4. arAging(book, a, to)
        = [d \in {date[n] : n \in DOMAIN s} |-> SumFunctionOnSet(left, {n \in DOMAIN s : date[n] = d})]
  BY <1>3 DEF arAging, Debiting, Crediting
<1>5. DOMAIN open = 1..N /\ Len(open) = N /\ \A n \in 1..N : open[n] = ShownEach[s[n]] /\ open[n] \in Nat
  <2>1. DOMAIN open = 1..N /\ \A n \in 1..N : open[n] = ShownEach[s[n]] /\ open[n] \in Nat
    BY <1>1, <1>2
  <2>2. open \in [1..N -> Nat]
    <3> HIDE DEF s, N, D
    <3> QED
      BY <1>2, <2>1
  <2> HIDE DEF open, N
  <2>3. open \in Seq(Nat)
    BY <1>2, <2>2
  <2> QED
    BY <1>2, <2>1, <2>3
<1>6. paid = SumFunctionOnSet(ShownEach, C) /\ paid \in Nat
  <2> DEFINE g == [i \in C |-> Shown(book[i])]
  <2>1. paid = SumFunctionOnSet(g, C)
    BY DEF SumFunction
  <2>2. \A i \in C : g[i] = ShownEach[i]
    BY <1>1
  <2> HIDE DEF paid, g, C
  <2> QED
    BY <1>1, <2>1, <2>2, SumsAgree, SumIsNatural
<1>7. SumFunctionOnSet(open, 1..N) = SumFunctionOnSet(ShownEach, D)
  <2> DEFINE f == [n \in DOMAIN s |-> ShownEach[s[n]]]
  <2>1. SumFunctionOnSet(f, {n \in DOMAIN s : s[n] \in D}) = SumFunctionOnSet(ShownEach, D)
    <3>1. D \in SUBSET D /\ \A i \in D : ShownEach[i] \in Int
      BY <1>1
    <3> HIDE DEF D
    <3> QED
      BY <1>1, <3>1, AgesInOrder, SumListed
  <2>2. {n \in DOMAIN s : s[n] \in D} = 1..N
    BY <1>2
  <2>3. \A n \in 1..N : open[n] = f[n]
    BY <1>2, <1>5
  <2>4. IsFiniteSet(1..N)
    BY <1>2, FS_Interval
  <2> HIDE DEF open, f, s, D, N
  <2>5. SumFunctionOnSet(open, 1..N) = SumFunctionOnSet(f, 1..N)
    BY <2>3, <2>4, SumsAgree
  <2> QED
    BY <2>1, <2>2, <2>5
<1> HIDE DEF open, paid, s, N, C, D
<1>8. /\ DOMAIN left = 1..N /\ \A n \in 1..N : left[n] \in Int
      /\ SumFunctionOnSet(left, 1..N) = Max({0, SumFunctionOnSet(open, 1..N) - paid})
  <2>1. PICK n, f, p : n = N /\ f = open /\ p = paid
    OBVIOUS
  <2>2. n \in Nat /\ DOMAIN f = 1..n /\ Len(f) = n /\ p \in Nat
    BY <1>2, <1>5, <1>6, <2>1
  <2>3. \A k \in 1..n : f[k] \in Nat
    BY <1>5, <2>1
  <2>4. /\ DOMAIN PaidOff(f, p) = 1..n /\ \A k \in 1..n : PaidOff(f, p)[k] \in Int
        /\ SumFunctionOnSet(PaidOff(f, p), 1..n) = Max({0, SumFunctionOnSet(f, 1..n) - p})
    BY ZenonT(40), <2>2, <2>3, PaidOffIs
  <2> QED
    BY <2>1, <2>4
<1> HIDE DEF left, date
<1>9. Aged(a, to) = SumFunctionOnSet(left, 1..N)
  <2>1. IsFiniteSet(1..N)
    BY <1>2, FS_Interval
  <2>2. SumFunction([d \in {date[n] : n \in 1..N} |-> SumFunctionOnSet(left, {n \in 1..N : date[n] = d})])
          = SumFunctionOnSet(left, 1..N)
    <3>1. PICK S, f : S = 1..N /\ f = left
      OBVIOUS
    <3>2. IsFiniteSet(S) /\ \A x \in S : f[x] \in Int
      BY <1>8, <2>1, <3>1
    <3>3. SumFunction([k \in {date[x] : x \in S} |-> SumFunctionOnSet(f, {x \in S : date[x] = k})])
            = SumFunctionOnSet(f, S)
      BY <3>2, SumByClass
    <3> QED
      BY <3>1, <3>3
  <2> QED
    BY <1>2, <1>4, <2>2 DEF Aged
<1>10. Net(book, a, Until(to)) = SumFunctionOnSet(ShownEach, D) - SumFunctionOnSet(ShownEach, C)
  BY NetIs DEF D, C
<1> QED
  BY <1>6, <1>7, <1>8, <1>9, <1>10

-----------------------------------------------------------------------------
(* The reports together. *)

LEMMA ReportsAgreeByInv ==
  ASSUME StatementsAssumption, BookInv, ChainInv
  PROVE  ReportsAgree
<1> PagesAssumption
  BY DEF StatementsAssumption
<1>1. StatementsTie /\ LedgerRunsToBalances /\ AgingIsWhatIsOwed
  BY StatementsAddUp, LedgerRuns, AgingOwes
<1>2. ReversalsNetOut
  BY ChainsNetOut DEF ReversalsNetOut
<1> QED
  BY <1>1, <1>2 DEF ReportsAgree

\* For any chart, any postings and any paging: on whatever entries were posted,
\* approved and reversed, every report says what the others say.
THEOREM ReportsAlwaysAgree ==
  ASSUME StatementsAssumption
  PROVE  PagesSpec => []ReportsAgree
<1> PagesAssumption
  BY DEF StatementsAssumption
<1>1. PagesInit => BookInv /\ ReadInv /\ ChainInv
  BY PagesInitially DEF PagesInit, ChainInv
<1>2. (BookInv /\ ReadInv /\ ChainInv) /\ [PagesNext]_pagesVars => (BookInv /\ ReadInv /\ ChainInv)'
  BY PagesStep, ChainsStay
<1>3. BookInv /\ ChainInv => ReportsAgree
  BY ReportsAgreeByInv
<1> QED
  BY <1>1, <1>2, <1>3, PTL DEF PagesSpec

-----------------------------------------------------------------------------
(* Fixed assets: what a year takes is clamped to what is left, and the last   *)
(* line takes the rest, so that every schedule comes to the cost, and all the *)
(* schedules of one class are one.                                            *)

LEMMA Multiples ==
  ASSUME NEW m \in Nat, NEW n \in Nat
  PROVE  m * n \in Nat
  OBVIOUS

\* Of a whole no part is more than the whole.
LEMMA PartOfWhole ==
  ASSUME NEW m \in Nat, NEW w \in Nat \ {0}, NEW p \in 0..w
  PROVE  (m * p) \div w \in 0..m
<1>1. PICK q \in Nat : q = m * p
  BY Multiples
<1>2. m * w = m * p + m * (w - p)
  OBVIOUS
<1>3. m * (w - p) \in Nat
  BY Multiples
<1>4. q <= m * w
  BY <1>1, <1>2, <1>3
<1>5. q \div w \in Nat /\ w * (q \div w) <= q
  OBVIOUS
<1>6. q \div w <= m
  <2>1. PICK d \in Nat : d = q \div w
    BY <1>5
  <2> SUFFICES ASSUME d > m PROVE FALSE
    BY <2>1
  <2>2. w * d = w * m + w * (d - m) 
    BY <2>1
  <2>3. w * (d - m) > 0
    BY <2>1
  <2>4. w * m = m * w
    OBVIOUS
  <2> QED
    BY <1>1, <1>4, <1>5, <2>1, <2>2, <2>3, <2>4
<1> QED
  BY <1>1, <1>5, <1>6

\* A quotient of numbers is one.
LEMMA QuotientIsNumber ==
  ASSUME NEW m \in Nat, NEW w \in Nat \ {0}
  PROVE  m \div w \in Nat
  OBVIOUS

LEMMA MultipleIsNotNone ==
  ASSUME NEW m \in Nat \ {0}, NEW w \in Nat \ {0}, m % w = 0
  PROVE  m \div w # 0
<1>1. m = w * (m \div w) + (m % w)
  OBVIOUS
<1> SUFFICES ASSUME m \div w = 0 PROVE FALSE
  OBVIOUS
<1>2. w * (m \div w) = 0
  OBVIOUS
<1> QED
  BY <1>1, <1>2

-----------------------------------------------------------------------------

\* A percentage of an amount is a part of it, also when it is a cent short.
LEMMA PortionIs ==
  ASSUME FixedAssetsAssumption, NEW m \in Nat, NEW p \in Nat, NEW short \in SUBSET Short
  PROVE  Portion(m, p, short) \in Nat /\ (p <= Whole => Portion(m, p, short) <= m)
<1>1. Whole \in Nat \ {0}
  BY DEF FixedAssetsAssumption
<1>2. PICK q \in Nat : q = m * p
  BY Multiples
<1>3. q \div Whole \in Nat
  BY <1>1, QuotientIsNumber
<1>4. p <= Whole => q \div Whole <= m
  <2> SUFFICES ASSUME p <= Whole PROVE (m * p) \div Whole \in 0..m
    BY <1>2
  <2>1. p \in 0..Whole
    BY <1>1
  <2> QED
    BY <1>1, <2>1, PartOfWhole
<1>5. CASE <<m, p>> \in short
  <2>1. q > 0 /\ q % Whole = 0
    BY <1>2, <1>5 DEF FixedAssetsAssumption
  <2>3. q \div Whole # 0
    BY <1>1, <2>1, MultipleIsNotNone
  <2>4. Portion(m, p, short) = q \div Whole - 1
    BY <1>2, <1>5 DEF Portion
  <2> HIDE DEF Portion
  <2> QED
    BY <1>3, <1>4, <2>3, <2>4
<1>6. CASE <<m, p>> \notin short
  <2>1. Portion(m, p, short) = q \div Whole - 0
    BY <1>2, <1>6 DEF Portion
  <2> QED
    BY <1>3, <1>4, <2>1
<1> QED
  BY <1>5, <1>6

\* What is left for the table.
LEMMA RemainingIs ==
  ASSUME FixedAssetsAssumption, NEW a \in Assets, NEW i \in DOMAIN Laws, NEW short \in SUBSET Short
  PROVE  /\ Expensed(a, Laws[i]) \in 0..a.cost
         /\ Bonus(a, Laws[i], short) \in 0..(a.cost - Expensed(a, Laws[i]))
         /\ Remaining(a, Laws[i], short) \in 0..a.cost
<1>1. /\ a.cost \in Nat /\ a.elected179 \in Nat /\ Laws[i].cap \in Nat
      /\ Laws[i].bonus \in Nat /\ Laws[i].bonus <= Whole
  BY DEF FixedAssetsAssumption
<1>2. PICK e \in 0..a.cost : e = Expensed(a, Laws[i]) /\ a.cost - e \in Nat
  BY <1>1 DEF Expensed, Least
<1>3. Portion(a.cost - e, Laws[i].bonus, short) \in 0..(a.cost - e)
  BY <1>1, <1>2, PortionIs
<1>4. Bonus(a, Laws[i], short) \in 0..(a.cost - e)
  BY <1>2, <1>3 DEF Bonus
<1> QED
  BY <1>1, <1>2, <1>4 DEF Remaining

\* What a year takes before it is clamped is never negative.
LEMMA TakesNothingBack ==
  ASSUME FixedAssetsAssumption, NEW a \in Assets, NEW i \in DOMAIN Laws, NEW y \in Nat, NEW tail,
         NEW short \in SUBSET Short
  PROVE  /\ taxDepreciationForYear(a, Laws[i], y, short) \in Nat
         /\ bookDepreciationForYear(a, y, tail) \in Nat
<1>1. /\ a.cost \in Nat /\ a.salvage \in Nat /\ a.life2 \in Nat \ {0}
      /\ \A x \in DOMAIN Laws[i].percent : Laws[i].percent[x] \in Nat
  BY DEF FixedAssetsAssumption
<1>2. taxDepreciationForYear(a, Laws[i], y, short) \in Nat
  <2> DEFINE t == IF y \in DOMAIN Laws[i].percent
                  THEN Portion(Remaining(a, Laws[i], short), Laws[i].percent[y], short) ELSE 0
  <2>1. /\ Expensed(a, Laws[i]) \in Nat /\ Bonus(a, Laws[i], short) \in Nat
        /\ Remaining(a, Laws[i], short) \in Nat
    BY <1>1, RemainingIs
  <2>2. t \in Nat
    BY <1>1, <2>1, PortionIs
  <2> HIDE DEF t
  <2>3. taxDepreciationForYear(a, Laws[i], y, short)
          = (IF y = 1 THEN Expensed(a, Laws[i]) + Bonus(a, Laws[i], short) ELSE 0) + t
    BY DEF taxDepreciationForYear, t
  <2> QED
    BY <2>1, <2>2, <2>3
<1>3. bookDepreciationForYear(a, y, tail) \in Nat
  <2>1. PICK base \in Int : base = BookBase(a)
    BY <1>1 DEF BookBase
  <2>2. CASE base <= 0
    BY <2>1, <2>2 DEF bookDepreciationForYear
  <2>3. CASE base > 0
    <3>1. base \in Nat /\ 2 * base \in Nat /\ base + a.life2 - 1 \in Nat
      BY <1>1, <2>3
    <3>2. base \div a.life2 \in Nat /\ (2 * base) \div a.life2 \in Nat /\ (base + a.life2 - 1) \div a.life2 \in Nat
      BY <1>1, <3>1, QuotientIsNumber
    <3> QED
      BY <2>1, <2>3, <3>2 DEF bookDepreciationForYear
  <2> QED
    BY <2>1, <2>2, <2>3
<1> QED
  BY <1>2, <1>3

\* What is left to take of an amount, when some has been taken.
LEMMA ClampedIsLeft ==
  ASSUME NEW amount \in Nat, NEW taken \in Nat, NEW basis \in Int
  PROVE  /\ Clamped(amount, taken, basis) \in Nat
         /\ taken <= basis => taken + Clamped(amount, taken, basis) <= basis
         /\ amount = 0 => Clamped(amount, taken, basis) = 0
  BY DEF Clamped, Larger

\* A line before the last one takes what is left.
Taken == [book : Nat, tax : Nat, bookAcc : Nat, taxAcc : Nat, stored : BOOLEAN]
Runs  == [bookAcc : Nat, taxAcc : Nat, last : Nat, rows : [Years -> Taken]]

BookColumn(rows) == [y \in Years |-> rows[y].book]
TaxColumn(rows)  == [y \in Years |-> rows[y].tax]

\* A run that has come to year y: no column takes more than there is, the last
\* line is stored, a year without a line takes nothing.
RunInv(a, y, run) ==
  /\ run \in Runs
  /\ BookBase(a) >= 0 => run.bookAcc <= BookBase(a)
  /\ run.taxAcc <= a.cost
  /\ run.last \in 0..y /\ (y > 0 => run.last \in Years /\ run.rows[run.last].stored)
  /\ \A x \in Years : x > y \/ ~run.rows[x].stored => run.rows[x] = NoLine
  /\ SumFunctionOnSet(BookColumn(run.rows), Years) = run.bookAcc
  /\ SumFunctionOnSet(TaxColumn(run.rows), Years) = run.taxAcc

LEMMA RunBegins ==
  ASSUME FixedAssetsAssumption, NEW a \in Assets
  PROVE  RunInv(a, 0, Nothing)
<1>1. Nothing \in Runs
  BY DEF Nothing, NoLines, NoLine, Runs, Taken
<1>2. \A y \in Years : BookColumn(NoLines)[y] = 0 /\ TaxColumn(NoLines)[y] = 0
  BY DEF BookColumn, TaxColumn, NoLines, NoLine
<1>3. IsFiniteSet(Years)
  BY FS_Interval DEF Years, FixedAssetsAssumption
<1>4. SumFunctionOnSet(BookColumn(NoLines), Years) = 0 /\ SumFunctionOnSet(TaxColumn(NoLines), Years) = 0
  <2>1. {} \in SUBSET Years /\ SumFunctionOnSet(BookColumn(NoLines), {}) = 0 /\ SumFunctionOnSet(TaxColumn(NoLines), {}) = 0
    BY SumOfNone
  <2>2. \A y \in Years : BookColumn(NoLines)[y] \in Int /\ TaxColumn(NoLines)[y] \in Int
    BY <1>2
  <2> QED
    BY <1>2, <1>3, <2>1, <2>2, SumWithoutZeros
<1>5. a.cost \in Nat
  BY DEF FixedAssetsAssumption
<1> QED
  BY <1>1, <1>4, <1>5 DEF RunInv, Nothing, NoLines

LEMMA RunContinues ==
  ASSUME FixedAssetsAssumption, NEW a \in Assets, NEW i \in DOMAIN Laws, NEW y \in Years, NEW tail,
         NEW short \in SUBSET Short, NEW run, RunInv(a, y - 1, run)
  PROVE  RunInv(a, y, AfterYear(a, Laws[i], tail, short, y, run))
<1> DEFINE bookPart == Clamped(bookDepreciationForYear(a, y, tail), run.bookAcc, BookBase(a))
           taxPart  == Clamped(taxDepreciationForYear(a, Laws[i], y, short), run.taxAcc, a.cost)
           line == [book |-> bookPart, tax |-> taxPart, bookAcc |-> run.bookAcc + bookPart,
                    taxAcc |-> run.taxAcc + taxPart, stored |-> TRUE]
           rows == [run.rows EXCEPT ![y] = line]
           next == [bookAcc |-> line.bookAcc, taxAcc |-> line.taxAcc, last |-> y, rows |-> rows]
<1>1. a.cost \in Nat /\ BookBase(a) \in Int /\ y \in Nat /\ y >= 1 /\ Horizon \in Nat
  BY DEF FixedAssetsAssumption, BookBase, Years
<1>2. run \in Runs /\ run.bookAcc \in Nat /\ run.taxAcc \in Nat /\ run.rows \in [Years -> Taken]
  BY DEF RunInv, Runs
<1>3. /\ bookPart \in Nat /\ (run.bookAcc <= BookBase(a) => run.bookAcc + bookPart <= BookBase(a))
      /\ taxPart \in Nat /\ run.taxAcc + taxPart <= a.cost
  <2>1. bookDepreciationForYear(a, y, tail) \in Nat /\ taxDepreciationForYear(a, Laws[i], y, short) \in Nat
    BY <1>1, TakesNothingBack
  <2>2. run.taxAcc <= a.cost
    BY DEF RunInv
  <2>3. bookPart \in Nat /\ (run.bookAcc <= BookBase(a) => run.bookAcc + bookPart <= BookBase(a))
    BY <1>1, <1>2, <2>1, ClampedIsLeft
  <2>4. taxPart \in Nat /\ (run.taxAcc <= a.cost => run.taxAcc + taxPart <= a.cost)
    <3>1. a.cost \in Int
      BY <1>1
    <3> QED
      BY <1>2, <2>1, <3>1, ClampedIsLeft
  <2> QED
    BY <2>2, <2>3, <2>4
<1>4. AfterYear(a, Laws[i], tail, short, y, run) = IF bookPart = 0 /\ taxPart = 0 /\ y > 1 THEN run ELSE next
  BY DEF AfterYear
<1> HIDE DEF bookPart, taxPart
<1>5. CASE bookPart = 0 /\ taxPart = 0 /\ y > 1
  BY <1>1, <1>4, <1>5 DEF RunInv, Years
<1>6. CASE ~ (bookPart = 0 /\ taxPart = 0 /\ y > 1)
  <2>1. line \in Taken /\ line.stored /\ line.book = bookPart /\ line.tax = taxPart
    BY <1>2, <1>3 DEF Taken
  <2> HIDE DEF line
  <2>2. rows \in [Years -> Taken] /\ rows[y] = line /\ \A x \in Years \ {y} : rows[x] = run.rows[x]
    BY <1>2, <2>1
  <2>3. run.rows[y] = NoLine
    BY <1>1 DEF RunInv
  <2> HIDE DEF rows
  <2>4. /\ SumFunctionOnSet(BookColumn(rows), Years) = run.bookAcc + bookPart
        /\ SumFunctionOnSet(TaxColumn(rows), Years) = run.taxAcc + taxPart
    <3>1. \A x \in Years : /\ BookColumn(rows)[x] \in Int /\ BookColumn(run.rows)[x] \in Int
                           /\ TaxColumn(rows)[x] \in Int /\ TaxColumn(run.rows)[x] \in Int
      BY <1>2, <2>2 DEF BookColumn, TaxColumn, Taken
    <3>2. \A x \in Years \ {y} : /\ BookColumn(run.rows)[x] = BookColumn(rows)[x]
                                 /\ TaxColumn(run.rows)[x] = TaxColumn(rows)[x]
      BY <2>2 DEF BookColumn, TaxColumn
    <3>3. /\ BookColumn(rows)[y] = bookPart /\ BookColumn(run.rows)[y] = 0
          /\ TaxColumn(rows)[y] = taxPart /\ TaxColumn(run.rows)[y] = 0
      BY <2>1, <2>2, <2>3 DEF BookColumn, TaxColumn, NoLine
    <3>4. IsFiniteSet(Years)
      BY <1>1, FS_Interval DEF Years
    <3>5. /\ SumFunctionOnSet(BookColumn(run.rows), Years) = run.bookAcc
          /\ SumFunctionOnSet(TaxColumn(run.rows), Years) = run.taxAcc
      BY DEF RunInv
    <3>6. SumFunctionOnSet(BookColumn(rows), Years) =
            SumFunctionOnSet(BookColumn(run.rows), Years) + BookColumn(rows)[y] - BookColumn(run.rows)[y]
      BY <3>1, <3>2, <3>4, SumChanged
    <3>7. SumFunctionOnSet(TaxColumn(rows), Years) =
            SumFunctionOnSet(TaxColumn(run.rows), Years) + TaxColumn(rows)[y] - TaxColumn(run.rows)[y]
      BY <3>1, <3>2, <3>4, SumChanged
    <3> QED
      BY <1>2, <1>3, <3>3, <3>5, <3>6, <3>7
  <2>5. next = [bookAcc |-> run.bookAcc + bookPart, taxAcc |-> run.taxAcc + taxPart, last |-> y, rows |-> rows]
    BY DEF line
  <2> HIDE DEF next
  <2>6. next \in Runs
    BY <1>1, <1>2, <1>3, <2>2, <2>5 DEF Runs
  <2>7. \A x \in Years : x > y \/ ~rows[x].stored => rows[x] = NoLine
    <3> SUFFICES ASSUME NEW x \in Years, x > y \/ ~rows[x].stored PROVE rows[x] = NoLine
      OBVIOUS
    <3>1. x # y /\ rows[x] = run.rows[x]
      BY <1>1, <2>1, <2>2
    <3>2. x > y - 1 \/ ~run.rows[x].stored
      BY <1>1, <3>1 DEF Years
    <3> QED
      BY <3>1, <3>2 DEF RunInv
  <2>8. BookBase(a) >= 0 => run.bookAcc + bookPart <= BookBase(a)
    BY <1>3 DEF RunInv
  <2>9. y \in 0..y /\ rows[y].stored
    BY <1>1, <2>1, <2>2
  <2>10. RunInv(a, y, next)
    BY <1>3, <2>4, <2>5, <2>6, <2>7, <2>8, <2>9 DEF RunInv
  <2> QED
    BY <1>4, <1>6, <2>10
<1> QED
  BY <1>5, <1>6

\* The run is what its recursion says, for as many years as there are.
LEMMA RunIs ==
  ASSUME FixedAssetsAssumption, NEW a \in Assets, NEW i \in DOMAIN Laws, NEW years \in 0..Horizon, NEW tail,
         NEW short \in SUBSET Short
  PROVE  \E upTo :
           /\ Recovered(a, Laws[i], years, tail, short) = upTo[years]
           /\ upTo[0] = Nothing
           /\ \A y \in 1..years : upTo[y] = AfterYear(a, Laws[i], tail, short, y, upTo[y - 1])
           /\ \A y \in 0..years : RunInv(a, y, upTo[y])
<1> DEFINE After(f)  == [y \in 0..years |-> IF y = 0 THEN Nothing
                                           ELSE AfterYear(a, Laws[i], tail, short, y, f[y - 1])]
           step      == [x \in (1..years) \X Runs |-> AfterYear(a, Laws[i], tail, short, x[1], x[2])]
           upTo      == CHOOSE f : f = After(f)
<1>1. years \in Nat /\ 1..years \subseteq Years /\ Horizon \in Nat
  BY DEF Years, FixedAssetsAssumption
<1>2. \A f : f = After(f) => \A y \in 0..years : RunInv(a, y, f[y])
  <2> SUFFICES ASSUME NEW f, f = After(f) PROVE \A y \in 0..years : RunInv(a, y, f[y])
    OBVIOUS
  <2> DEFINE P == {y \in 0..years : RunInv(a, y, f[y])}
  <2>1. 0 \in P
    BY <1>1, RunBegins
  <2>2. ASSUME NEW y \in 1..years, y - 1 \in P
        PROVE  y \in P
    <3>1. f[y] = AfterYear(a, Laws[i], tail, short, y, f[y - 1])
      <4> HIDE DEF P
      <4>1. y \in 0..years /\ y # 0
        BY <1>1
      <4> QED
        BY <4>1
    <3>2. y \in Years /\ y \in 0..years
      BY <1>1
    <3> HIDE DEF After
    <3> QED
      BY <2>2, <3>1, <3>2, RunContinues
  <2> HIDE DEF P
  <2>3. 0..years \subseteq P
    BY <1>1, <2>1, <2>2, CountingUp
  <2> QED
    BY <2>3 DEF P
<1>3. \E f : f = After(f)
  <2>1. PICK f : Iterates(f, years, Nothing, step)
    BY <1>1, IterationExists
  <2>2. f = [y \in 0..years |-> IF y = 0 THEN Nothing ELSE step[<<y, f[y - 1]>>]]
    BY <2>1 DEF Iterates
  <2> DEFINE P == {y \in 0..years : RunInv(a, y, f[y])}
  <2>3. \A y \in 1..years : RunInv(a, y - 1, f[y - 1]) => f[y] = AfterYear(a, Laws[i], tail, short, y, f[y - 1])
    <3> SUFFICES ASSUME NEW y \in 1..years, RunInv(a, y - 1, f[y - 1])
                 PROVE  f[y] = AfterYear(a, Laws[i], tail, short, y, f[y - 1])
      OBVIOUS
    <3>1. f[y] = step[<<y, f[y - 1]>>]
      <4> HIDE DEF step
      <4> QED
        BY <1>1, <2>2
    <3>2. f[y - 1] \in Runs
      BY DEF RunInv
    <3>3. <<y, f[y - 1]>> \in (1..years) \X Runs
      BY <3>2
    <3> QED
      BY <3>1, <3>3
  <2> HIDE DEF step
  <2>4. 0 \in P
    BY <1>1, <2>2, RunBegins
  <2>5. ASSUME NEW y \in 1..years, y - 1 \in P
        PROVE  y \in P
    <3>1. RunInv(a, y - 1, f[y - 1]) /\ y \in Years /\ y \in 0..years
      BY <1>1, <2>5
    <3> QED
      BY <2>3, <3>1, RunContinues
  <2> HIDE DEF P
  <2>6. 0..years \subseteq P
    BY <1>1, <2>4, <2>5, CountingUp
  <2>7. \A y \in 1..years : f[y] = AfterYear(a, Laws[i], tail, short, y, f[y - 1])
    <3> SUFFICES ASSUME NEW y \in 1..years PROVE RunInv(a, y - 1, f[y - 1])
      BY <2>3
    <3> QED
      BY <1>1, <2>6 DEF P
  <2>8. f = After(f)
    <3>1. f[0] = Nothing
      BY <1>1, <2>2
    <3>2. \A y \in 0..years : f[y] = IF y = 0 THEN Nothing ELSE AfterYear(a, Laws[i], tail, short, y, f[y - 1])
      BY <1>1, <2>7, <3>1
    <3>3. \E X : f = [y \in 0..years |-> X[y]]
      <4>1. f = [y \in 0..years |-> f[y]]
        BY <2>2
      <4> QED
        BY <4>1
    <3> QED
      BY <3>2, <3>3
  <2> QED
    BY <2>8
<1>4. upTo = After(upTo)
  <2> HIDE DEF After
  <2> QED
    BY <1>3
<1>5. Recovered(a, Laws[i], years, tail, short) = upTo[years]
  BY DEF Recovered
<1> HIDE DEF upTo
<1>6. upTo[0] = Nothing /\ \A y \in 1..years : upTo[y] = AfterYear(a, Laws[i], tail, short, y, upTo[y - 1])
  <2>1. \A y \in 0..years : upTo[y] = IF y = 0 THEN Nothing ELSE AfterYear(a, Laws[i], tail, short, y, upTo[y - 1])
    BY <1>4
  <2> QED
    BY <1>1, <2>1
<1> HIDE DEF After
<1> QED
  BY <1>2, <1>4, <1>5, <1>6

\* upTo is a run of so many years, and each year's part of it is in order.
RunOf(a, percents, years, tail, short, upTo) ==
  /\ Recovered(a, percents, years, tail, short) = upTo[years]
  /\ upTo[0] = Nothing
  /\ \A y \in 1..years : upTo[y] = AfterYear(a, percents, tail, short, y, upTo[y - 1])
  /\ \A y \in 0..years : RunInv(a, y, upTo[y])

LEMMA RunExists ==
  ASSUME FixedAssetsAssumption, NEW a \in Assets, NEW i \in DOMAIN Laws, NEW years \in 0..Horizon, NEW tail,
         NEW short \in SUBSET Short
  PROVE  \E upTo : RunOf(a, Laws[i], years, tail, short, upTo)
BY RunIs DEF RunOf

\* What a stored schedule is: every column comes to what there is to take.
Exact(a, rows) ==
  /\ rows \in [Years -> Line] /\ \E y \in Years : rows[y].stored
  /\ \A y \in Years : ~rows[y].stored => rows[y] = NoLine
  /\ SumFunctionOnSet(BookColumn(rows), Years) = BookBase(a)
  /\ SumFunctionOnSet(TaxColumn(rows), Years) = a.cost
  /\ BookBase(a) >= 0 => \A y \in Years : rows[y].book >= 0

LEMMA TrueUpIsExact ==
  ASSUME FixedAssetsAssumption, NEW a \in Assets, NEW y \in Years, NEW run, RunInv(a, y, run)
  PROVE  Exact(a, TrueUp(a, run))
<1> DEFINE old  == run.rows[run.last]
           line == [book |-> old.book + BookBase(a) - run.bookAcc, tax |-> old.tax + a.cost - run.taxAcc,
                    bookAcc |-> BookBase(a), taxAcc |-> a.cost, stored |-> TRUE]
           rows == TrueUp(a, run)
<1>1. /\ a.cost \in Nat /\ BookBase(a) \in Int /\ y > 0 /\ run.last \in Years /\ IsFiniteSet(Years)
      /\ run \in Runs /\ run.bookAcc \in Nat /\ run.taxAcc \in Nat /\ run.rows \in [Years -> Taken]
      /\ run.taxAcc <= a.cost /\ (BookBase(a) >= 0 => run.bookAcc <= BookBase(a))
  <2>1. a.cost \in Nat /\ BookBase(a) \in Int /\ y > 0 /\ Horizon \in Nat
    BY DEF FixedAssetsAssumption, BookBase, Years
  <2>2. IsFiniteSet(Years)
    BY <2>1, FS_Interval DEF Years
  <2>3. /\ run \in Runs /\ run.last \in Years
        /\ run.taxAcc <= a.cost /\ (BookBase(a) >= 0 => run.bookAcc <= BookBase(a))
    BY <2>1 DEF RunInv
  <2>4. run.bookAcc \in Nat /\ run.taxAcc \in Nat /\ run.rows \in [Years -> Taken]
    BY <2>3 DEF Runs
  <2> QED
    BY <2>1, <2>2, <2>3, <2>4
<1>2. old \in Taken /\ old.book \in Nat /\ old.tax \in Nat
  BY <1>1 DEF Taken
<1> HIDE DEF old
<1>3. rows = [run.rows EXCEPT ![run.last] = line]
  BY DEF TrueUp, old
<1>4. /\ line \in Line /\ line.stored /\ line.book = old.book + BookBase(a) - run.bookAcc
      /\ line.tax = old.tax + a.cost - run.taxAcc /\ (BookBase(a) >= 0 => line.book >= 0)
  BY <1>1, <1>2 DEF Line
<1> HIDE DEF line, rows
<1>5. rows[run.last] = line /\ \A x \in Years \ {run.last} : rows[x] = run.rows[x]
  BY <1>1, <1>3
<1>6. \A x \in Years : run.rows[x] \in Line /\ run.rows[x].book >= 0
  BY <1>1 DEF Taken, Line
<1>7. rows \in [Years -> Line]
  BY <1>1, <1>3, <1>4, <1>5, <1>6
<1>8. \A x \in Years : ~rows[x].stored => rows[x] = NoLine
  BY <1>4, <1>5 DEF RunInv
<1>9. \A x \in Years : /\ BookColumn(rows)[x] \in Int /\ BookColumn(run.rows)[x] \in Int
                       /\ TaxColumn(rows)[x] \in Int /\ TaxColumn(run.rows)[x] \in Int
  BY <1>1, <1>7 DEF BookColumn, TaxColumn, Taken, Line
<1>10. \A x \in Years \ {run.last} : /\ BookColumn(run.rows)[x] = BookColumn(rows)[x]
                                     /\ TaxColumn(run.rows)[x] = TaxColumn(rows)[x]
  BY <1>5 DEF BookColumn, TaxColumn
<1>11. /\ BookColumn(rows)[run.last] = line.book /\ BookColumn(run.rows)[run.last] = old.book
       /\ TaxColumn(rows)[run.last] = line.tax /\ TaxColumn(run.rows)[run.last] = old.tax
  BY <1>1, <1>5 DEF BookColumn, TaxColumn, old
<1>12. SumFunctionOnSet(BookColumn(rows), Years) = BookBase(a)
  <2>1. SumFunctionOnSet(BookColumn(rows), Years) =
          SumFunctionOnSet(BookColumn(run.rows), Years) + BookColumn(rows)[run.last] - BookColumn(run.rows)[run.last]
    <3>1. PICK last \in Years : last = run.last
      BY <1>1
    <3>2. PICK f, g : f = BookColumn(run.rows) /\ g = BookColumn(rows)
      OBVIOUS
    <3>3. (\A x \in Years : f[x] \in Int /\ g[x] \in Int) /\ \A x \in Years \ {last} : f[x] = g[x]
      BY <1>9, <1>10, <3>1, <3>2
    <3>4. IsFiniteSet(Years)
      BY <1>1
    <3>5. SumFunctionOnSet(g, Years) = SumFunctionOnSet(f, Years) + g[last] - f[last]
      BY <3>1, <3>3, <3>4, SumChanged
    <3> QED
      BY <3>1, <3>2, <3>5
  <2>2. SumFunctionOnSet(BookColumn(run.rows), Years) = run.bookAcc
    BY DEF RunInv
  <2> QED
    BY <1>1, <1>2, <1>4, <1>11, <2>1, <2>2
<1>13. SumFunctionOnSet(TaxColumn(rows), Years) = a.cost
  <2>1. SumFunctionOnSet(TaxColumn(rows), Years) =
          SumFunctionOnSet(TaxColumn(run.rows), Years) + TaxColumn(rows)[run.last] - TaxColumn(run.rows)[run.last]
    <3>1. PICK last \in Years : last = run.last
      BY <1>1
    <3>2. PICK f, g : f = TaxColumn(run.rows) /\ g = TaxColumn(rows)
      OBVIOUS
    <3>3. (\A x \in Years : f[x] \in Int /\ g[x] \in Int) /\ \A x \in Years \ {last} : f[x] = g[x]
      BY <1>9, <1>10, <3>1, <3>2
    <3>4. IsFiniteSet(Years)
      BY <1>1
    <3>5. SumFunctionOnSet(g, Years) = SumFunctionOnSet(f, Years) + g[last] - f[last]
      BY <3>1, <3>3, <3>4, SumChanged
    <3> QED
      BY <3>1, <3>2, <3>5
  <2>2. SumFunctionOnSet(TaxColumn(run.rows), Years) = run.taxAcc
    BY DEF RunInv
  <2> QED
    BY <1>1, <1>2, <1>4, <1>11, <2>1, <2>2
<1>14. BookBase(a) >= 0 => \A x \in Years : rows[x].book >= 0
  BY <1>4, <1>5, <1>6
<1>15. Exact(a, rows)
  BY <1>1, <1>4, <1>5, <1>7, <1>8, <1>12, <1>13, <1>14 DEF Exact
<1> QED
  BY <1>15 DEF rows

\* The last year a schedule of the class can have is a year looked at.
LEMMA SpansAre ==
  ASSUME FixedAssetsAssumption, NEW a \in Assets, NEW i \in DOMAIN Laws
  PROVE  /\ Span(a, Laws[i]) \in Nat \ {0} /\ Span(a, Laws[i]) + 1 \in Years /\ Span(a, Laws[i]) + 2 \in Years
         /\ Span(a, Laws[i]) >= Laws[i].period /\ 2 * Span(a, Laws[i]) >= a.life2
<1>1. a.life2 \in Nat \ {0} /\ (a.life2 + 1) \div 2 + 2 <= Horizon /\ Horizon \in Nat
      /\ Laws[i].period \in Nat /\ Laws[i].period + 2 <= Horizon
  BY DEF FixedAssetsAssumption
<1>2. PICK n \in Nat \ {0} : n = a.life2
  BY <1>1
<1>3. PICK h \in Nat : h = (n + 1) \div 2 /\ h >= 1 /\ 2 * h >= n
  OBVIOUS
<1> QED
  BY <1>1, <1>2, <1>3 DEF Span, Larger, Years

LEMMA StoredScheduleIsExact ==
  ASSUME FixedAssetsAssumption, NEW a \in Assets, NEW i \in DOMAIN Laws
  PROVE  Exact(a, StoredSchedule(a, Laws[i]))
<1>1. PICK n \in Nat : n = Span(a, Laws[i]) + 2 /\ n \in Years /\ n \in 0..Horizon /\ n \in 0..n
  BY SpansAre DEF Years
<1>2. PICK upTo : /\ Recovered(a, Laws[i], n, storedTail(a), {}) = upTo[n]
                  /\ \A y \in 0..n : RunInv(a, y, upTo[y])
  <2>1. {} \in SUBSET Short
    OBVIOUS
  <2>2. PICK upTo : RunOf(a, Laws[i], n, storedTail(a), {}, upTo)
    BY <1>1, <2>1, RunExists
  <2> QED
    BY <2>2 DEF RunOf
<1>3. Exact(a, TrueUp(a, upTo[n]))
  BY <1>1, <1>2, TrueUpIsExact
<1> QED
  BY <1>1, <1>2, <1>3 DEF StoredSchedule

\* The year after the last finds nothing to take.
LEMMA NothingAfterLast ==
  ASSUME FixedAssetsAssumption, NEW a \in Assets, NEW i \in DOMAIN Laws, NEW run,
         RunInv(a, Span(a, Laws[i]) + 1, run), a.life2 % 2 = 0
  PROVE  AfterYear(a, Laws[i], storedTail(a), {}, Span(a, Laws[i]) + 2, run) = run
<1>1. PICK n \in Nat \ {0} : n = Span(a, Laws[i]) /\ n >= Laws[i].period /\ 2 * n >= a.life2
  BY SpansAre
<1>2. /\ a.life2 \in Nat \ {0} /\ Laws[i].period \in Nat /\ a.cost \in Int /\ BookBase(a) \in Int
      /\ DOMAIN Laws[i].percent \subseteq 1..(Laws[i].period + 1)
  BY DEF FixedAssetsAssumption, BookBase
<1>3. n + 2 \notin DOMAIN Laws[i].percent /\ n + 2 # 1 /\ n + 2 > 1
  BY <1>1, <1>2
<1>4. taxDepreciationForYear(a, Laws[i], n + 2, {}) = 0
  BY <1>3 DEF taxDepreciationForYear
<1>5. ~ (2 * (n + 2) <= a.life2)
  BY <1>1, <1>2
<1>6. n + 2 # storedTail(a)
  <2>1. storedTail(a) = a.life2 \div 2 + 1
    BY DEF storedTail
  <2>2. PICK l \in Nat : l = a.life2
    BY <1>2
  <2>3. l \div 2 <= n
    BY <1>1, <2>2
  <2> QED
    BY <2>1, <2>2, <2>3
<1>7. bookDepreciationForYear(a, n + 2, storedTail(a)) = 0
  BY <1>3, <1>5, <1>6 DEF bookDepreciationForYear
<1>8. /\ Clamped(0, run.bookAcc, BookBase(a)) = 0 /\ Clamped(0, run.taxAcc, a.cost) = 0
  <2>1. run.bookAcc \in Nat /\ run.taxAcc \in Nat
    BY DEF RunInv, Runs
  <2> QED
    BY <1>2, <2>1, ClampedIsLeft
<1> QED
  BY <1>1, <1>3, <1>4, <1>7, <1>8 DEF AfterYear

\* From one product to the next a quotient grows by one at most, and by one when it
\* comes out even.
LEMMA QuotientGrows ==
  ASSUME NEW q \in Nat, NEW w \in Nat \ {0}, NEW p \in 0..w
  PROVE  /\ (q + p) \div w \in {q \div w, q \div w + 1}
         /\ (q + p) % w = 0 /\ p > 0 => (q + p) \div w = q \div w + 1
<1>1. PICK d \in Nat : d = q \div w
  OBVIOUS
<1>2. PICK e \in Nat : e = (q + p) \div w
  OBVIOUS
<1>3. w * d <= q /\ q < w * d + w
  BY <1>1
<1>4. /\ w * e <= q + p /\ q + p < w * e + w
      /\ (q + p) % w = 0 => q + p = w * e
  BY <1>2
<1>5. e < d + 2
  <2> SUFFICES ASSUME e >= d + 2 PROVE FALSE
    OBVIOUS
  <2>1. w * e = w * d + 2 * w + w * (e - d - 2) /\ w * (e - d - 2) >= 0
    OBVIOUS
  <2> QED
    BY <1>3, <1>4, <2>1
<1>6. e >= d
  <2> SUFFICES ASSUME e < d PROVE FALSE
    OBVIOUS
  <2>1. w * d = w * e + w + w * (d - e - 1) /\ w * (d - e - 1) >= 0
    OBVIOUS
  <2> QED
    BY <1>3, <1>4, <2>1
<1>7. (q + p) % w = 0 /\ p > 0 => e # d
  BY <1>3, <1>4
<1> QED
  BY <1>1, <1>2, <1>5, <1>6, <1>7

\* Of an amount and of the next, the part in doubles is at most a cent more and at
\* most a cent less, and of the next it is not less.
LEMMA PortionsAreClose ==
  ASSUME FixedAssetsAssumption, NEW m \in Nat, NEW p \in 0..Whole
  PROVE  /\ Portion(m, p, Short) - Portion(m, p, {}) \in {-1, 0}
         /\ Portion(m + 1, p, Short) - Portion(m, p, {}) \in {0, 1}
<1>1. Whole \in Nat \ {0} /\ p \in Nat
  BY DEF FixedAssetsAssumption
<1>2. PICK q \in Nat : q = m * p
  BY <1>1, Multiples
<1>3. (m + 1) * p = q + p
  BY <1>1, <1>2
<1>4. PICK d \in Nat : d = q \div Whole
  BY <1>1, QuotientIsNumber
<1>5. Portion(m, p, {}) = d
  BY <1>2, <1>4 DEF Portion
<1>6. Portion(m, p, Short) \in {d - 1, d}
  BY <1>2, <1>4 DEF Portion
<1>7. PICK e \in {d, d + 1} : /\ e = (q + p) \div Whole
                              /\ (q + p) % Whole = 0 /\ p > 0 => e = d + 1
  BY <1>1, <1>4, QuotientGrows
<1>8. Portion(m + 1, p, Short) = e - (IF <<m + 1, p>> \in Short THEN 1 ELSE 0)
  BY <1>3, <1>7 DEF Portion
<1>9. <<m + 1, p>> \in Short => e = d + 1
  <2> SUFFICES ASSUME <<m + 1, p>> \in Short PROVE p > 0 /\ (q + p) % Whole = 0
    BY <1>7
  <2>1. (m + 1) * p > 0 /\ ((m + 1) * p) % Whole = 0
    BY DEF FixedAssetsAssumption
  <2>2. p # 0
    BY <2>1
  <2> QED
    BY <1>1, <1>3, <2>1, <2>2
<1>10. Portion(m + 1, p, Short) \in {d, d + 1}
  BY <1>7, <1>8, <1>9
<1> QED
  BY <1>5, <1>6, <1>10

\* What a year takes is in the browser and in the database the same but for a cent.
LEMMA TakesAlmostTheSame ==
  ASSUME FixedAssetsAssumption, NEW a \in Assets, NEW i \in DOMAIN Laws, NEW y \in Nat
  PROVE  taxDepreciationForYear(a, Laws[i], y, Short) - taxDepreciationForYear(a, Laws[i], y, {}) \in -1..1
<1>1. /\ a.cost \in Nat /\ Laws[i].bonus \in 0..Whole /\ {} \in SUBSET Short /\ Short \in SUBSET Short
      /\ \A x \in DOMAIN Laws[i].percent : Laws[i].percent[x] \in 0..Whole
  BY DEF FixedAssetsAssumption
<1>2. PICK e \in Nat : e = Expensed(a, Laws[i]) /\ a.cost - e \in Nat
  BY <1>1, RemainingIs
<1>3. PICK b, c \in Nat : b = Bonus(a, Laws[i], {}) /\ c = Bonus(a, Laws[i], Short)
  BY <1>1, <1>2, RemainingIs
<1>4. c - b \in {-1, 0}
  <2>1. Portion(a.cost - e, Laws[i].bonus, Short) - Portion(a.cost - e, Laws[i].bonus, {}) \in {-1, 0}
    BY <1>1, <1>2, PortionsAreClose
  <2> QED
    BY <1>2, <1>3, <2>1 DEF Bonus
<1>5. PICK m, n \in Nat : m = Remaining(a, Laws[i], {}) /\ n = Remaining(a, Laws[i], Short)
  BY <1>1, RemainingIs
<1>6. m = a.cost - e - b /\ n = a.cost - e - c
  BY <1>2, <1>3, <1>5 DEF Remaining
<1>7. (c = b /\ n = m) \/ (c = b - 1 /\ n = m + 1)
  BY <1>1, <1>2, <1>3, <1>4, <1>6
<1> DEFINE t == IF y \in DOMAIN Laws[i].percent THEN Portion(m, Laws[i].percent[y], {}) ELSE 0
           u == IF y \in DOMAIN Laws[i].percent THEN Portion(n, Laws[i].percent[y], Short) ELSE 0
<1>8. taxDepreciationForYear(a, Laws[i], y, {}) = (IF y = 1 THEN e + b ELSE 0) + t
  BY <1>2, <1>3, <1>5 DEF taxDepreciationForYear, t
<1>9. taxDepreciationForYear(a, Laws[i], y, Short) = (IF y = 1 THEN e + c ELSE 0) + u
  BY <1>2, <1>3, <1>5 DEF taxDepreciationForYear, u
<1>10. t \in Nat /\ u \in Nat
  BY <1>1, PortionIs DEF t, u
<1>11. /\ n = m => u - t \in {-1, 0}
       /\ n = m + 1 => u - t \in {0, 1}
  BY <1>1, PortionsAreClose DEF t, u
<1> HIDE DEF t, u
<1> QED
  BY <1>7, <1>8, <1>9, <1>10, <1>11

\* A year in which a run takes book and tax, as far as that is left.
TakesInYear(a, y, straight, tax, run, next) ==
  /\ next.bookAcc = run.bookAcc + Clamped(straight, run.bookAcc, BookBase(a))
  /\ next.taxAcc = run.taxAcc + Clamped(tax, run.taxAcc, a.cost)
  /\ \A x \in Years \ {y} : next.rows[x] = run.rows[x]
  /\ next.rows[y].stored =>
       next.rows[y].bookAcc = next.bookAcc /\ next.rows[y].taxAcc = next.taxAcc /\ next.last = y
  /\ next.last \in {run.last, y}

LEMMA AfterYearIs ==
  ASSUME FixedAssetsAssumption, NEW a \in Assets, NEW i \in DOMAIN Laws, NEW y \in Years, NEW tail,
         NEW short \in SUBSET Short, NEW run, RunInv(a, y - 1, run)
  PROVE  TakesInYear(a, y, bookDepreciationForYear(a, y, tail),
                     taxDepreciationForYear(a, Laws[i], y, short), run,
                     AfterYear(a, Laws[i], tail, short, y, run))
<1> DEFINE next == AfterYear(a, Laws[i], tail, short, y, run)
           bookPart == Clamped(bookDepreciationForYear(a, y, tail), run.bookAcc, BookBase(a))
           taxPart  == Clamped(taxDepreciationForYear(a, Laws[i], y, short), run.taxAcc, a.cost)
           line == [book |-> bookPart, tax |-> taxPart, bookAcc |-> run.bookAcc + bookPart,
                    taxAcc |-> run.taxAcc + taxPart, stored |-> TRUE]
           taken == [bookAcc |-> line.bookAcc, taxAcc |-> line.taxAcc, last |-> y,
                     rows |-> [run.rows EXCEPT ![y] = line]]
<1>1. next = IF bookPart = 0 /\ taxPart = 0 /\ y > 1 THEN run ELSE taken
  BY DEF AfterYear
<1>2. run \in Runs /\ run.bookAcc \in Nat /\ run.taxAcc \in Nat /\ run.rows \in [Years -> Taken]
  BY DEF RunInv, Runs
<1>3. ~run.rows[y].stored
  <2>1. y > y - 1
    BY DEF Years, FixedAssetsAssumption
  <2> QED
    BY <2>1 DEF RunInv, NoLine
<1> HIDE DEF bookPart, taxPart, next
<1>4. CASE bookPart = 0 /\ taxPart = 0 /\ y > 1
  <2>1. next = run /\ run.bookAcc = run.bookAcc + bookPart /\ run.taxAcc = run.taxAcc + taxPart
    BY <1>1, <1>2, <1>4
  <2> QED
    BY <1>3, <2>1 DEF bookPart, taxPart, next, TakesInYear
<1>5. CASE ~ (bookPart = 0 /\ taxPart = 0 /\ y > 1)
  <2>1. /\ next.bookAcc = run.bookAcc + bookPart /\ next.taxAcc = run.taxAcc + taxPart /\ next.last = y
        /\ next.rows = [run.rows EXCEPT ![y] = line]
    BY <1>1, <1>5
  <2>2. next.rows[y] = line /\ \A x \in Years \ {y} : next.rows[x] = run.rows[x]
    BY <1>2, <2>1
  <2> QED
    BY <2>1, <2>2 DEF bookPart, taxPart, next, TakesInYear
<1> QED
  BY <1>4, <1>5

\* The browser's run f and the database's run g up to year y.
RunsAreClose(f, g, y) ==
  /\ f.bookAcc = g.bookAcc /\ f.taxAcc - g.taxAcc \in (-y)..y
  /\ \A x \in Years : f.rows[x].stored /\ g.rows[x].stored =>
       f.rows[x].bookAcc = g.rows[x].bookAcc /\ f.rows[x].taxAcc - g.rows[x].taxAcc \in (-x)..x
  /\ \A x \in Years : (f.rows[x].stored => x <= f.last) /\ (g.rows[x].stored => x <= g.last)

LEMMA RunsStayClose ==
  ASSUME FixedAssetsAssumption, NEW a \in Assets, NEW i \in DOMAIN Laws, NEW y \in Years, NEW tail,
         NEW f, RunInv(a, y - 1, f), NEW g, RunInv(a, y - 1, g), RunsAreClose(f, g, y - 1)
  PROVE  RunsAreClose(AfterYear(a, Laws[i], tail, Short, y, f), AfterYear(a, Laws[i], tail, {}, y, g), y)
<1>1. /\ y \in Nat /\ y >= 1 /\ a.cost \in Nat /\ BookBase(a) \in Int
      /\ {} \in SUBSET Short /\ Short \in SUBSET Short /\ Years \subseteq Nat
  BY DEF FixedAssetsAssumption, BookBase, Years
<1>2. /\ f.taxAcc \in Nat /\ g.taxAcc \in Nat /\ f.taxAcc <= a.cost /\ g.taxAcc <= a.cost
      /\ f.last \in 0..(y - 1) /\ g.last \in 0..(y - 1)
  BY DEF RunInv, Runs
<1>3. PICK u \in Nat : u = taxDepreciationForYear(a, Laws[i], y, Short)
  BY <1>1, TakesNothingBack
<1>4. PICK t \in Nat : t = taxDepreciationForYear(a, Laws[i], y, {})
  BY <1>1, TakesNothingBack
<1>5. u - t \in -1..1
  BY <1>1, <1>3, <1>4, TakesAlmostTheSame
<1>6. PICK next : next = AfterYear(a, Laws[i], tail, Short, y, f)
  OBVIOUS
<1>7. PICK after : after = AfterYear(a, Laws[i], tail, {}, y, g)
  OBVIOUS
<1>8. PICK straight : straight = bookDepreciationForYear(a, y, tail)
  OBVIOUS
<1>9. TakesInYear(a, y, straight, u, f, next) /\ TakesInYear(a, y, straight, t, g, after)
  BY <1>1, <1>3, <1>4, <1>6, <1>7, <1>8, AfterYearIs
<1>10. next.bookAcc = after.bookAcc
  BY <1>9 DEF RunsAreClose, TakesInYear
<1>11. next.taxAcc - after.taxAcc \in (-y)..y
  <2>1. f.taxAcc - g.taxAcc \in (-(y - 1))..(y - 1)
    BY DEF RunsAreClose
  <2>2. PICK v, w \in Nat : v = f.taxAcc /\ w = g.taxAcc /\ v <= a.cost /\ w <= a.cost
    BY <1>2
  <2>3. PICK c \in Nat : c = a.cost
    BY <1>1
  <2>4. v - w \in (-(y - 1))..(y - 1)
    BY <2>1, <2>2
  <2>5. v + Clamped(u, v, c) = (IF v + u > c THEN c ELSE v + u)
    BY <2>2, <2>3 DEF Clamped, Larger
  <2>6. w + Clamped(t, w, c) = (IF w + t > c THEN c ELSE w + t)
    BY <2>2, <2>3 DEF Clamped, Larger
  <2>7. (v + Clamped(u, v, c)) - (w + Clamped(t, w, c)) \in (-y)..y
    <3>1. v + u - (w + t) \in (-y)..y
      BY <1>1, <1>5, <2>4
    <3> HIDE DEF Clamped
    <3> QED
      BY <1>1, <2>5, <2>6, <3>1
  <2> QED
    BY <1>9, <2>2, <2>3, <2>7 DEF TakesInYear
<1>12. ASSUME NEW x \in Years, next.rows[x].stored, after.rows[x].stored
       PROVE  /\ next.rows[x].bookAcc = after.rows[x].bookAcc
              /\ next.rows[x].taxAcc - after.rows[x].taxAcc \in (-x)..x
  BY <1>9, <1>10, <1>11, <1>12 DEF RunsAreClose, TakesInYear
<1>13. ASSUME NEW x \in Years
       PROVE  (next.rows[x].stored => x <= next.last) /\ (after.rows[x].stored => x <= after.last)
  <2>1. CASE x = y
    BY <1>1, <1>9, <2>1 DEF TakesInYear
  <2>2. CASE x # y
    <3>1. /\ next.rows[x].stored => x <= f.last
          /\ after.rows[x].stored => x <= g.last
      BY <1>9, <2>2 DEF RunsAreClose, TakesInYear
    <3> QED
      BY <1>1, <1>2, <1>9, <3>1 DEF TakesInYear
  <2> QED
    BY <2>1, <2>2
<1> QED
  BY <1>6, <1>7, <1>10, <1>11, <1>12, <1>13 DEF RunsAreClose

\* What PreviewKeepsPace says of any two schedules.
KeepPace(preview, rows) ==
  \A y \in Years :
    preview[y].stored /\ rows[y].stored /\ ~IsLast(preview, y) /\ ~IsLast(rows, y) =>
      preview[y].bookAcc = rows[y].bookAcc /\ preview[y].taxAcc - rows[y].taxAcc \in (-y)..y

\* A line after which there is another is the run's, not the one that takes the rest.
LEMMA BeforeTheLast ==
  ASSUME FixedAssetsAssumption, NEW a \in Assets, NEW y \in Years, NEW run, RunInv(a, y, run),
         \A x \in Years : run.rows[x].stored => x <= run.last,
         NEW z \in Years, ~IsLast(TrueUp(a, run), z)
  PROVE  TrueUp(a, run)[z] = run.rows[z]
<1>1. y \in Nat /\ y > 0 /\ Years \subseteq Nat
  BY DEF Years, FixedAssetsAssumption
<1>2. run.last \in Years /\ run.rows \in [Years -> Taken]
  BY <1>1 DEF RunInv, Runs
<1>3. \A x \in Years \ {run.last} : TrueUp(a, run)[x] = run.rows[x]
  BY <1>2 DEF TrueUp
<1>4. PICK x \in Years : x > z /\ TrueUp(a, run)[x].stored
  BY DEF IsLast
<1>5. x <= run.last
  BY <1>1, <1>2, <1>3, <1>4
<1>6. z # run.last
  BY <1>1, <1>2, <1>4, <1>5
<1> QED
  BY <1>3, <1>6

LEMMA PreviewIsClose ==
  ASSUME FixedAssetsAssumption, NEW a \in Assets, NEW i \in DOMAIN Laws, a.life2 % 2 = 0
  PROVE  /\ Exact(a, computeSchedule(a, Laws[i]))
         /\ KeepPace(computeSchedule(a, Laws[i]), StoredSchedule(a, Laws[i]))
<1>1. PICK n \in Nat : n = Span(a, Laws[i]) + 1 /\ n \in 1..Horizon /\ n + 1 \in 1..Horizon
                       /\ n + 1 = Span(a, Laws[i]) + 2
  BY SpansAre DEF Years
<1>2. tailYear(a) = storedTail(a)
  BY DEF tailYear, storedTail
<1>3. PICK f : /\ Recovered(a, Laws[i], n, storedTail(a), Short) = f[n] /\ f[0] = Nothing
               /\ \A y \in 1..n : f[y] = AfterYear(a, Laws[i], storedTail(a), Short, y, f[y - 1])
               /\ \A y \in 0..n : RunInv(a, y, f[y])
  <2>1. n \in 0..Horizon /\ Short \in SUBSET Short
    BY <1>1
  <2>2. PICK f : RunOf(a, Laws[i], n, storedTail(a), Short, f)
    BY <2>1, RunExists
  <2> QED
    BY <2>2 DEF RunOf
<1>4. PICK g : /\ Recovered(a, Laws[i], n + 1, storedTail(a), {}) = g[n + 1] /\ g[0] = Nothing
               /\ \A y \in 1..(n + 1) : g[y] = AfterYear(a, Laws[i], storedTail(a), {}, y, g[y - 1])
               /\ \A y \in 0..(n + 1) : RunInv(a, y, g[y])
  <2>1. n + 1 \in 0..Horizon /\ {} \in SUBSET Short
    BY <1>1
  <2>2. PICK g : RunOf(a, Laws[i], n + 1, storedTail(a), {}, g)
    BY <2>1, RunExists
  <2> QED
    BY <2>2 DEF RunOf
<1>5. \A y \in 0..n : RunsAreClose(f[y], g[y], y)
  <2> DEFINE P == {y \in 0..n : RunsAreClose(f[y], g[y], y)}
  <2>1. 0 \in P
    BY <1>3, <1>4 DEF RunsAreClose, Nothing, NoLines, NoLine
  <2>2. \A y \in 1..n : y - 1 \in P => y \in P
    <3> SUFFICES ASSUME NEW y \in 1..n, RunsAreClose(f[y - 1], g[y - 1], y - 1)
                 PROVE  RunsAreClose(f[y], g[y], y)
      OBVIOUS
    <3>1. y \in 1..(n + 1) /\ y - 1 \in 0..n /\ y - 1 \in 0..(n + 1) /\ y \in Years
      <4>1. y \in Nat /\ y >= 1 /\ y <= n /\ n <= Horizon /\ Horizon \in Nat
        BY <1>1 DEF FixedAssetsAssumption
      <4> QED
        BY <4>1 DEF Years
    <3>2. RunInv(a, y - 1, f[y - 1]) /\ RunInv(a, y - 1, g[y - 1])
      BY <1>3, <1>4, <3>1
    <3>3. RunsAreClose(AfterYear(a, Laws[i], storedTail(a), Short, y, f[y - 1]),
                       AfterYear(a, Laws[i], storedTail(a), {}, y, g[y - 1]), y)
      BY <3>1, <3>2, RunsStayClose
    <3> QED
      BY <1>3, <1>4, <3>1, <3>3
  <2> HIDE DEF P
  <2>3. 0..n \subseteq P
    BY <2>1, <2>2, CountingUp
  <2> QED
    BY <2>3 DEF P
<1>6. g[n + 1] = g[n] /\ RunInv(a, n, g[n]) /\ RunInv(a, n, f[n]) /\ n \in Years
  <2>1. n \in 0..n /\ n \in 0..(n + 1) /\ n + 1 \in 1..(n + 1) /\ (n + 1) - 1 = n
    OBVIOUS
  <2>2. RunInv(a, n, g[n]) /\ g[n + 1] = AfterYear(a, Laws[i], storedTail(a), {}, n + 1, g[n])
    BY <1>4, <2>1
  <2> QED
    BY <1>1, <1>3, <2>1, <2>2, NothingAfterLast DEF Years
<1>7. /\ computeSchedule(a, Laws[i]) = TrueUp(a, f[n])
      /\ StoredSchedule(a, Laws[i]) = TrueUp(a, g[n])
  BY <1>1, <1>2, <1>3, <1>4, <1>6 DEF computeSchedule, StoredSchedule
<1>8. Exact(a, TrueUp(a, f[n]))
  BY <1>6, TrueUpIsExact
<1>9. RunsAreClose(f[n], g[n], n)
  BY <1>5
<1>10. KeepPace(TrueUp(a, f[n]), TrueUp(a, g[n]))
  <2> SUFFICES ASSUME NEW y \in Years, ~IsLast(TrueUp(a, f[n]), y), ~IsLast(TrueUp(a, g[n]), y),
                      TrueUp(a, f[n])[y].stored, TrueUp(a, g[n])[y].stored
               PROVE  /\ TrueUp(a, f[n])[y].bookAcc = TrueUp(a, g[n])[y].bookAcc
                      /\ TrueUp(a, f[n])[y].taxAcc - TrueUp(a, g[n])[y].taxAcc \in (-y)..y
    BY DEF KeepPace
  <2>1. \A x \in Years : (f[n].rows[x].stored => x <= f[n].last) /\ (g[n].rows[x].stored => x <= g[n].last)
    BY <1>9 DEF RunsAreClose
  <2>2. TrueUp(a, f[n])[y] = f[n].rows[y]
    BY <1>6, <2>1, BeforeTheLast
  <2>3. TrueUp(a, g[n])[y] = g[n].rows[y]
    BY <1>6, <2>1, BeforeTheLast
  <2> QED
    BY <1>9, <2>2, <2>3 DEF RunsAreClose
<1> QED
  BY <1>7, <1>8, <1>10
-----------------------------------------------------------------------------

\* Until the class is superseded the lines are those of one schedule, whichever
\* call stored them.
FixedAssetsInv ==
  /\ FixedAssetsTypeOK
  /\ law = 1 => lines = NoLines \/ lines = StoredSchedule(asset, Laws[1])
  /\ PostedIsScheduled

LEMMA FixedAssetsInitially ==
  ASSUME FixedAssetsAssumption, FixedAssetsInit PROVE FixedAssetsInv
<1>1. NoLine \in Line /\ NoDisposal \in [year : 0..Horizon, cleared : Nat, gain : Int, recapture : Nat]
  BY DEF NoLine, Line, NoDisposal, FixedAssetsAssumption
<1>2. FixedAssetsTypeOK
  BY <1>1 DEF FixedAssetsInit, FixedAssetsTypeOK, NoLines, FixedAssetsAssumption
<1>3. PostedIsScheduled
  BY DEF FixedAssetsInit, PostedIsScheduled
<1> QED
  BY <1>2, <1>3 DEF FixedAssetsInv, FixedAssetsInit

\* The invariant says what the property does.
LEMMA SchedulesAgreeByInv ==
  ASSUME FixedAssetsAssumption, FixedAssetsInv PROVE SchedulesAgree
<1> SUFFICES ASSUME law = 1 PROVE SchedulesAgree
  BY DEF SchedulesAgree, RecoversUnderOneLaw, PostedIsScheduled, PreviewStaysClose
<1>1. asset \in Assets /\ 1 \in DOMAIN Laws
  BY DEF FixedAssetsInv, FixedAssetsTypeOK, FixedAssetsAssumption
<1>2. PICK stored : stored = StoredSchedule(asset, Laws[1]) /\ Exact(asset, stored)
  BY <1>1, StoredScheduleIsExact
<1>3. lines = NoLines \/ lines = stored
  BY <1>2 DEF FixedAssetsInv
<1>4. CASE lines = NoLines
  <2>1. \A y \in Years : lines[y] = NoLine
    BY <1>4 DEF NoLines
  <2>2. ~Computed /\ \A y \in Years : lines[y].book >= 0 /\ lines[y].tax >= 0
    BY <2>1 DEF NoLine, Computed
  <2> QED
    BY <2>2 DEF SchedulesAgree, RecoversUnderOneLaw, RecoversExactly, PreviewStaysClose, FixedAssetsInv
<1>5. CASE lines = stored
  <2>1. BookTaken = BookBase(asset) /\ TaxTaken = asset.cost
    <3>1. /\ BookTaken = SumFunctionOnSet(BookColumn(lines), Years)
          /\ TaxTaken = SumFunctionOnSet(TaxColumn(lines), Years)
      BY DEF BookTaken, TaxTaken, BookColumn, TaxColumn, SumFunction
    <3> QED
      BY <1>2, <1>5, <3>1 DEF Exact
  <2>2. BookBase(asset) >= 0 => \A y \in Years : lines[y].book >= 0 /\ lines[y].tax >= 0
    BY <1>2, <1>5 DEF Exact, Line
  <2>3. PreviewStaysClose
    <3> SUFFICES ASSUME asset.life2 % 2 = 0
                 PROVE  /\ PreviewRecovers(computeSchedule(asset, Laws[1]))
                        /\ PreviewKeepsPace(computeSchedule(asset, Laws[1]))
      BY DEF PreviewStaysClose
    <3>1. PICK preview : preview = computeSchedule(asset, Laws[1])
      OBVIOUS
    <3>2. Exact(asset, preview) /\ KeepPace(preview, lines)
      BY <1>1, <1>2, <1>5, <3>1, PreviewIsClose
    <3>3. PreviewRecovers(preview)
      <4>1. /\ SumFunction([y \in Years |-> preview[y].book]) = SumFunctionOnSet(BookColumn(preview), Years)
            /\ SumFunction([y \in Years |-> preview[y].tax]) = SumFunctionOnSet(TaxColumn(preview), Years)
        BY DEF BookColumn, TaxColumn, SumFunction
      <4>2. BookBase(asset) >= 0 => \A y \in Years : preview[y].book >= 0 /\ preview[y].tax >= 0
        BY <3>2 DEF Exact, Line
      <4> QED
        BY <3>2, <4>1, <4>2 DEF Exact, PreviewRecovers
    <3>4. PreviewKeepsPace(preview)
      BY <3>2 DEF KeepPace, PreviewKeepsPace
    <3> QED
      BY <3>1, <3>3, <3>4
  <2> QED
    BY <2>1, <2>2, <2>3 DEF SchedulesAgree, RecoversUnderOneLaw, RecoversExactly, FixedAssetsInv
<1> QED
  BY <1>3, <1>4, <1>5

\* An upsert stores a schedule over lines that are of the same or not there.
LEMMA UpsertedIs ==
  ASSUME FixedAssetsAssumption, FixedAssetsInv, NEW i \in DOMAIN Laws, i <= law
  PROVE  /\ Upserted(Laws[i]) \in [Years -> Line]
         /\ law = 1 => Upserted(Laws[i]) = StoredSchedule(asset, Laws[1])
<1>1. /\ asset \in Assets /\ lines \in [Years -> Line] /\ law \in Nat /\ i \in Nat \ {0}
      /\ law = 1 => i = 1
  BY DEF FixedAssetsInv, FixedAssetsTypeOK, FixedAssetsAssumption
<1>2. PICK new : new = StoredSchedule(asset, Laws[i]) /\ Exact(asset, new)
  BY <1>1, StoredScheduleIsExact
<1>3. Upserted(Laws[i]) = [y \in Years |-> IF new[y].stored THEN new[y] ELSE lines[y]]
  BY <1>2 DEF Upserted
<1>4. new \in [Years -> Line] /\ \A y \in Years : ~new[y].stored => new[y] = NoLine
  BY <1>2 DEF Exact
<1>5. Upserted(Laws[i]) \in [Years -> Line]
  BY <1>1, <1>3, <1>4
<1>6. ASSUME law = 1 PROVE Upserted(Laws[i]) = new /\ new = StoredSchedule(asset, Laws[1])
  <2>1. new = StoredSchedule(asset, Laws[1])
    BY <1>1, <1>2, <1>6
  <2>2. lines = NoLines \/ lines = new
    BY <1>6, <2>1 DEF FixedAssetsInv
  <2>3. \A y \in Years : ~new[y].stored => lines[y] = new[y]
    BY <1>4, <2>2 DEF NoLines
  <2>4. \A y \in Years : (IF new[y].stored THEN new[y] ELSE lines[y]) = new[y]
    BY <2>3
  <2> QED
    BY <1>3, <1>4, <2>1, <2>4
<1> QED
  BY <1>2, <1>5, <1>6

\* What has been posted is on the lines that an upsert stores.
LEMMA UpsertKeepsPosted ==
  ASSUME FixedAssetsAssumption, FixedAssetsInv, NEW i \in DOMAIN Laws, i <= law,
         lines' = Upserted(Laws[i]), UNCHANGED <<asset, law, posted>>
  PROVE  /\ lines' \in [Years -> Line]
         /\ law' = 1 => lines' = StoredSchedule(asset', Laws[1])
         /\ PostedIsScheduled'
<1>1. lines' \in [Years -> Line] /\ (law = 1 => lines' = StoredSchedule(asset, Laws[1]))
  BY UpsertedIs
<1>2. ASSUME law = 1, NEW y \in Years, posted[y] > 0
      PROVE  posted[y] = lines'[y].book
  <2>1. posted[y] = lines[y].book
    BY <1>2 DEF FixedAssetsInv, PostedIsScheduled
  <2>2. lines # NoLines
    BY <1>2, <2>1 DEF NoLines, NoLine
  <2>3. lines' = lines
    BY <1>1, <1>2, <2>2 DEF FixedAssetsInv
  <2> QED
    BY <2>1, <2>3
<1> QED
  BY <1>1, <1>2 DEF PostedIsScheduled

LEMMA PriorLineIs ==
  ASSUME FixedAssetsAssumption, NEW ls \in [Years -> Line], NEW y \in Years
  PROVE  PriorLine(ls, y) \in Line
<1> DEFINE before == {x \in Years : x < y /\ ls[x].stored}
<1>1. CASE before = {}
  BY <1>1 DEF PriorLine, NoLine, Line
<1>2. CASE before # {}
  <2>1. before \in SUBSET (1..Horizon) /\ Horizon \in Nat
    BY DEF Years, FixedAssetsAssumption
  <2>2. \E m \in before : \A x \in before : m >= x
    <3> HIDE DEF before
    <3> QED
      BY <1>2, <2>1, LargestExists
  <2>3. Max(before) \in before
    <3> HIDE DEF before
    <3> QED
      BY <2>2 DEF Max
  <2>4. PriorLine(ls, y) = ls[Max(before)]
    BY <1>2 DEF PriorLine
  <2> QED
    BY <2>3, <2>4
<1> QED
  BY <1>1, <1>2

LEMMA DisposalTypes ==
  ASSUME FixedAssetsAssumption, FixedAssetsInv, NEW y \in Years, NEW q \in {1, 4}, NEW p \in Proceeds,
         NEW i \in DOMAIN Laws, Dispose(y, q, p, i)
  PROVE  disposal' \in [year : 0..Horizon, cleared : Nat, gain : Int, recapture : Nat]
<1> DEFINE class   == Laws[i]
           ls      == Upserted(class)
           part(n) == (n * disposalYearEighths(class.convention, q)) \div 8
           bookPart == Least(PriorLine(ls, y).bookAcc
                        + part(bookDepreciationForYear(asset, y, storedTail(asset))), BookBase(asset))
           taxPart == Least(PriorLine(ls, y).taxAcc + part(taxDepreciationForYear(asset, class, y, {})), asset.cost)
           taxGain == p - (asset.cost - taxPart)
<1>1. /\ i <= law /\ bookPart >= 0
      /\ disposal' = [year |-> y, cleared |-> bookPart, gain |-> p - (asset.cost - bookPart),
                      recapture |-> IF taxGain > 0 THEN Least(taxGain, taxPart) ELSE 0]
  BY DEF Dispose
<1>2. /\ asset \in Assets /\ asset.cost \in Nat /\ BookBase(asset) \in Int /\ p \in Nat
      /\ y \in Nat /\ y \in 0..Horizon
  <2>1. asset \in Assets /\ Horizon \in Nat /\ p \in Nat
    BY DEF FixedAssetsInv, FixedAssetsTypeOK, FixedAssetsAssumption
  <2>2. asset.cost \in Nat /\ asset.salvage \in Nat
    BY <2>1 DEF FixedAssetsAssumption
  <2> QED
    BY <2>1, <2>2 DEF BookBase, Years
<1>3. PriorLine(ls, y).bookAcc \in Int /\ PriorLine(ls, y).taxAcc \in Nat
  <2>1. ls \in [Years -> Line]
    BY <1>1, UpsertedIs
  <2>2. PriorLine(ls, y) \in Line
    <3> HIDE DEF ls
    <3> QED
      BY <2>1, PriorLineIs
  <2> HIDE DEF ls
  <2> QED
    BY <2>2 DEF Line
<1>4. \A n \in Nat : part(n) \in Nat
  <2> SUFFICES ASSUME NEW n \in Nat PROVE part(n) \in Nat
    OBVIOUS
  <2>1. disposalYearEighths(class.convention, q) \in {1, 4, 7}
    BY DEF disposalYearEighths
  <2> HIDE DEF class
  <2>2. PICK e \in {1, 4, 7} : e = disposalYearEighths(class.convention, q)
    BY <2>1
  <2>3. n * e \in Nat
    BY <2>2
  <2> QED
    BY <2>2, <2>3, QuotientIsNumber
<1>5. /\ part(bookDepreciationForYear(asset, y, storedTail(asset))) \in Nat
      /\ part(taxDepreciationForYear(asset, class, y, {})) \in Nat
  <2>1. /\ bookDepreciationForYear(asset, y, storedTail(asset)) \in Nat
        /\ taxDepreciationForYear(asset, class, y, {}) \in Nat
    <3>1. {} \in SUBSET Short
      OBVIOUS
    <3> QED
      BY <1>2, <3>1, TakesNothingBack
  <2> HIDE DEF part, class
  <2> QED
    BY <1>4, <2>1
<1> HIDE DEF part, ls, class
<1>6. bookPart \in Int /\ taxPart \in Nat
  BY <1>2, <1>3, <1>5 DEF Least
<1> HIDE DEF bookPart, taxPart
<1>7. (IF taxGain > 0 THEN Least(taxGain, taxPart) ELSE 0) \in Nat
  BY <1>2, <1>6 DEF Least
<1>8. bookPart \in Nat /\ p - (asset.cost - bookPart) \in Int
  BY <1>1, <1>2, <1>6
<1> QED
  BY <1>1, <1>2, <1>7, <1>8

LEMMA FixedAssetsStep ==
  ASSUME FixedAssetsAssumption, FixedAssetsInv, [FixedAssetsNext]_fixedAssetsVars
  PROVE  FixedAssetsInv'
<1> USE DEF FixedAssetsInv, FixedAssetsTypeOK
<1>1. CASE SupersedeClass
  <2>1. law' \in DOMAIN Laws /\ law' # 1
    BY <1>1 DEF SupersedeClass, FixedAssetsAssumption
  <2> QED
    BY <1>1, <2>1 DEF SupersedeClass, PostedIsScheduled
<1>2. ASSUME NEW i \in DOMAIN Laws, ComputeSchedule(i)
      PROVE  FixedAssetsInv'
  <2>1. i <= law /\ lines' = Upserted(Laws[i]) /\ UNCHANGED <<asset, law, posted, disposal>>
    BY <1>2 DEF ComputeSchedule
  <2>2. /\ lines' \in [Years -> Line] /\ (law' = 1 => lines' = StoredSchedule(asset', Laws[1]))
        /\ PostedIsScheduled'
    BY <2>1, UpsertKeepsPosted
  <2> QED
    BY <2>1, <2>2
<1>3. ASSUME NEW y \in Years, PostBook(y)
      PROVE  FixedAssetsInv'
  <2>1. /\ lines[y].book > 0 /\ posted' = [posted EXCEPT ![y] = lines[y].book]
        /\ UNCHANGED <<asset, law, lines, disposal>>
    BY <1>3 DEF PostBook, LinesDepreciation
  <2>2. lines[y].book \in Nat
    BY <2>1 DEF Line
  <2>3. posted' \in [Years -> Nat] /\ \A x \in Years : posted'[x] = IF x = y THEN lines[y].book ELSE posted[x]
    BY <2>1, <2>2
  <2> QED
    BY <2>1, <2>3 DEF PostedIsScheduled
<1>4. ASSUME NEW y \in Years, NEW q \in {1, 4}, NEW p \in Proceeds, NEW i \in DOMAIN Laws, Dispose(y, q, p, i)
      PROVE  FixedAssetsInv'
  <2>1. i <= law /\ lines' = Upserted(Laws[i]) /\ UNCHANGED <<asset, law, posted>>
    BY <1>4 DEF Dispose
  <2>2. /\ lines' \in [Years -> Line] /\ (law' = 1 => lines' = StoredSchedule(asset', Laws[1]))
        /\ PostedIsScheduled'
    BY <2>1, UpsertKeepsPosted
  <2>3. disposal' \in [year : 0..Horizon, cleared : Nat, gain : Int, recapture : Nat]
    BY <1>4, DisposalTypes
  <2> QED
    BY <2>1, <2>2, <2>3
<1>5. CASE UNCHANGED fixedAssetsVars
  BY <1>5 DEF fixedAssetsVars, PostedIsScheduled
<1> QED
  BY <1>1, <1>2, <1>3, <1>4, <1>5 DEF FixedAssetsNext

\* For every asset, class, horizon and rate, and however the browser's products come
\* out: a schedule takes exactly the cost, what is posted is what is scheduled, and the
\* preview takes the cost, too, a cent a year apart from what is stored.
THEOREM SchedulesAlwaysAgree ==
  ASSUME FixedAssetsAssumption PROVE FixedAssetsSpec => [](FixedAssetsTypeOK /\ SchedulesAgree)
<1>1. FixedAssetsInit => FixedAssetsInv
  BY FixedAssetsInitially
<1>2. FixedAssetsInv /\ [FixedAssetsNext]_fixedAssetsVars => FixedAssetsInv'
  BY FixedAssetsStep
<1>3. FixedAssetsInv => FixedAssetsTypeOK /\ SchedulesAgree
  BY SchedulesAgreeByInv DEF FixedAssetsInv
<1> QED
  BY <1>1, <1>2, <1>3, PTL DEF FixedAssetsSpec

-----------------------------------------------------------------------------
(* The office together: a step of one component leaves the others where they  *)
(* are, so what each of them keeps by itself it keeps in their company.       *)

OfficeInv ==
  /\ DocumentsInv /\ AutonomyInv /\ MembershipInv
  /\ PayoutsInv /\ PayoutsTyped
  /\ FixedAssetsInv
  /\ BookInv /\ ReadInv /\ PagesBounded /\ ChainInv
  /\ MonthInv /\ FxInv /\ MonthTyped

LEMMA OfficeInvSuffices ==
  ASSUME OfficeInv
  PROVE  /\ TypeOK /\ DocumentsTie /\ AutonomyHolds /\ MembershipHolds /\ DepositsAreTransfers
         /\ SchedulesAgree /\ ReportsAgree /\ ReadMissesNothing
         /\ NothingBehindTheCount /\ RevaluationsNet
<1> USE OfficeAssumption DEF OfficeAssumption
<1> PagesAssumption
  BY DEF StatementsAssumption
<1>1. DocumentsTypeOK /\ DocumentsTie
  BY InvTies DEF OfficeInv, DocumentsInv
<1>2. AutonomyTypeOK /\ AutonomyHolds
  BY AutonomyInvHolds DEF OfficeInv, AutonomyInv, FilingInv
<1>3. MembershipTypeOK /\ MembershipHolds
  BY MembershipInvHolds DEF OfficeInv, MembershipInv, InviteInv
<1>4. PayoutsTypeOK /\ DepositsAreTransfers
  BY PayoutsTypesByInv, DepositsMatch DEF OfficeInv
<1>5. FixedAssetsTypeOK /\ SchedulesAgree
  BY SchedulesAgreeByInv DEF OfficeInv, FixedAssetsInv
<1>6. PagesTypeOK /\ ReportsAgree
  BY PagesTypesByInv, ReportsAgreeByInv DEF OfficeInv
<1>7. ReadMissesNothing
  BY DEF OfficeInv, ReadInv, ReadMissesNothing, Seen
<1>8. MonthEndTypeOK /\ NothingBehindTheCount /\ RevaluationsNet
  BY MonthTypesByInv, RevaluedNets DEF OfficeInv, MonthInv
<1> QED
  BY <1>1, <1>2, <1>3, <1>4, <1>5, <1>6, <1>7, <1>8 DEF TypeOK

LEMMA OfficeInitially ==
  ASSUME Init PROVE OfficeInv
<1> USE OfficeAssumption DEF OfficeAssumption
<1> PagesAssumption
  BY DEF StatementsAssumption
<1>1. FixedAssetsInit /\ MonthEndInit /\ PagesInit
  BY DEF Init
<1>2. DocumentsInv /\ AutonomyInv /\ MembershipInv
  BY DocumentsInitially, AutonomyInitially, MembershipInitially DEF Init
<1>3. PayoutsInv /\ PayoutsTyped /\ FixedAssetsInv
  BY <1>1, PayoutsInitially, PayoutsTypedInitially, FixedAssetsInitially DEF Init
<1>4. BookInv /\ ReadInv /\ PagesBounded
  BY PagesInitially, PagesBoundedInitially DEF Init
<1>5. ChainInv
  BY <1>1 DEF PagesInit, ChainInv
<1>6. MonthInv /\ FxInv /\ MonthTyped
  BY <1>1, MonthInitially, FxInitially, MonthTypedInitially
<1> QED
  BY <1>2, <1>3, <1>4, <1>5, <1>6 DEF OfficeInv

LEMMA OfficeStep ==
  ASSUME [Next]_vars
  PROVE  /\ [DocumentsNext]_documentsVars /\ [AutonomyNext]_autonomyVars
         /\ [MembershipNext]_membershipVars /\ [PayoutsNext]_payoutsVars
         /\ [FixedAssetsNext]_fixedAssetsVars /\ [PagesNext]_pagesVars
         /\ [MonthEndNext]_monthEndVars
BY DEF Next, vars

LEMMA OfficeKeeps ==
  ASSUME OfficeInv, [Next]_vars PROVE OfficeInv'
<1> USE OfficeAssumption DEF OfficeAssumption
<1> PagesAssumption
  BY DEF StatementsAssumption
<1>1. DocumentsInv' /\ AutonomyInv' /\ MembershipInv'
  BY OfficeStep, DocumentsStep, AutonomyStep, MembershipStep DEF OfficeInv
<1>2. PayoutsInv' /\ PayoutsTyped' /\ FixedAssetsInv'
  BY OfficeStep, PayoutsStep, PayoutsTypedStep, FixedAssetsStep DEF OfficeInv
<1>3. BookInv' /\ ReadInv' /\ PagesBounded' /\ ChainInv'
  BY OfficeStep, PagesStep, PagesStayBounded, ChainsStay DEF OfficeInv
<1>4. MonthInv' /\ FxInv' /\ MonthTyped'
  BY OfficeStep, MonthStep, FxStep, MonthTypedStep DEF OfficeInv
<1> QED
  BY <1>1, <1>2, <1>3, <1>4 DEF OfficeInv

\* Everything the office promises, of the composition and for any constants: every
\* variable of a component has its type, documents tie to the ledger, Penny keeps to
\* her budget, organisations keep an owner, deposits are the transfers, schedules and
\* reports agree, a paged read misses nothing, nothing slips behind the count of a
\* batch, and revaluations net.
THEOREM OfficeKeepsItsPromises ==
  Spec => [](/\ TypeOK /\ DocumentsTie /\ AutonomyHolds /\ MembershipHolds
             /\ DepositsAreTransfers /\ SchedulesAgree /\ ReportsAgree /\ ReadMissesNothing
             /\ NothingBehindTheCount /\ RevaluationsNet)
<1>1. Init => OfficeInv
  BY OfficeInitially
<1>2. OfficeInv /\ [Next]_vars => OfficeInv'
  BY OfficeKeeps
<1>3. OfficeInv => /\ TypeOK /\ DocumentsTie /\ AutonomyHolds /\ MembershipHolds
                   /\ DepositsAreTransfers /\ SchedulesAgree /\ ReportsAgree /\ ReadMissesNothing
                   /\ NothingBehindTheCount /\ RevaluationsNet
  BY OfficeInvSuffices
<1> QED
  BY <1>1, <1>2, <1>3, PTL DEF Spec
=============================================================================
