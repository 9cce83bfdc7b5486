----------------------------- MODULE Membership -----------------------------
(***************************************************************************)
(* Who belongs to which organisation: removal and transfer of ownership,   *)
(* invitations to a business and to a client of a firm, engagements.  The  *)
(* RPCs read under READ COMMITTED and write afterwards; only accept_invite *)
(* locks what it read, the row of the invitation.                          *)
(***************************************************************************)
EXTENDS Integers, FiniteSets

CONSTANTS Users, Founder,  \* Founder created the business
          Firms,           \* firms that may come to be
          MemberInvites, ClientInvites, Recipient,
          Requests,        \* RPCs in flight
          NoUser, NoFirm

\* What the constants have to be: the modules that use this one assume it.
MembershipAssumption ==
  /\ Founder \in Users /\ NoUser \notin Users
  /\ NoFirm \notin Firms /\ "business" \notin Firms
  /\ MemberInvites \cap ClientInvites = {}
  /\ {"none", "remove", "transfer"} \cap (MemberInvites \cup ClientInvites) = {}
  /\ \A i \in MemberInvites \cup ClientInvites : Recipient[i] \in Users
  /\ "free" \notin Requests

VARIABLES staff,      \* memberships of the business and of the firms
          creator,    \* who created a firm
          invites,    \* issued, accepted, and what each has granted so far
          engaged,    \* engagements of the firms with the business
          assigned,   \* client_assignments: firm and user
          tokenLock, requests,
          raced       \* two removals have overlapped

membershipVars == <<staff, creator, invites, engaged, assigned, tokenLock, requests, raced>>

Business  == "business"
Orgs      == {Business} \cup Firms
Invites   == MemberInvites \cup ClientInvites
OwnerRole(o) == IF o = Business THEN "owner" ELSE "firm_admin"
Roles     == {"none", "owner", "firm_admin", "member", "cpa"}
Nobody    == [role |-> "none", active |-> FALSE]
NoRequest == [op |-> "none", org |-> Business, user |-> NoUser, firm |-> NoFirm]

MembershipTypeOK ==
  /\ staff \in [Orgs -> [Users -> [role : Roles, active : BOOLEAN]]]
  /\ creator \in [Firms -> Users \cup {NoUser}]
  /\ invites \in [Invites -> [status : {"unsent", "sent", "accepted"}, org : Orgs, grants : Nat]]
  /\ engaged \in [Firms -> {"none", "active", "revoked"}]
  /\ assigned \in SUBSET (Firms \X Users)
  /\ tokenLock \in [Invites -> Requests \cup {"free"}]
  /\ requests \in [Requests -> [op : {"none", "remove", "transfer"} \cup Invites, org : Orgs,
                                user : Users \cup {NoUser}, firm : Firms \cup {NoFirm}]]
  /\ raced \in BOOLEAN

Owners(o) == {u \in Users : staff[o][u] = [role |-> OwnerRole(o), active |-> TRUE]}
Active(o) == {u \in Users : staff[o][u].active}
Exists(o) == o = Business \/ creator[o] # NoUser

MembershipInit ==
  /\ staff = [o \in Orgs |-> [u \in Users |->
       IF o = Business /\ u = Founder THEN [role |-> "owner", active |-> TRUE] ELSE Nobody]]
  /\ creator = [f \in Firms |-> NoUser]
  /\ invites = [i \in Invites |-> [status |-> "unsent", org |-> Business, grants |-> 0]]
  /\ engaged = [f \in Firms |-> "none"] /\ assigned = {}
  /\ tokenLock = [i \in Invites |-> "free"]
  /\ requests = [r \in Requests |-> NoRequest] /\ raced = FALSE

Waiting(r, op, o, u) ==
  requests' = [requests EXCEPT ![r] = [op |-> op, org |-> o, user |-> u, firm |-> NoFirm]]
Finish(r) == requests' = [requests EXCEPT ![r] = NoRequest]

-----------------------------------------------------------------------------
(* remove_member, transfer_ownership *)

\* The last owner stays.
MayGo(o, u) == staff[o][u].role = OwnerRole(o) => Cardinality(Owners(o)) > 1

BeginRemove(r, actor, o, u) ==
  /\ requests[r] = NoRequest
  /\ actor \in Owners(o) /\ u \in Active(o) /\ MayGo(o, u)
  /\ Waiting(r, "remove", o, u)
  /\ raced' = (raced \/ \E q \in Requests : requests[q].op = "remove")
  /\ UNCHANGED <<staff, creator, invites, engaged, assigned, tokenLock>>

EndRemove(r) ==
  LET q == requests[r]
  IN  /\ q.op = "remove"
      /\ staff' = [staff EXCEPT ![q.org][q.user].active = FALSE]
      /\ Finish(r)
      /\ UNCHANGED <<creator, invites, engaged, assigned, tokenLock, raced>>

BeginTransfer(r, actor, o, u) ==
  /\ requests[r] = NoRequest /\ actor \in Owners(o) /\ u \in Active(o)
  /\ Waiting(r, "transfer", o, u)
  /\ UNCHANGED <<staff, creator, invites, engaged, assigned, tokenLock, raced>>

EndTransfer(r) ==
  LET q == requests[r]
  IN  /\ q.op = "transfer"
      /\ staff' = [staff EXCEPT ![q.org][q.user].role = OwnerRole(q.org)]
      /\ Finish(r)
      /\ UNCHANGED <<creator, invites, engaged, assigned, tokenLock, raced>>

-----------------------------------------------------------------------------
(* Invitations and engagements *)

\* By an owner of the organisation; a CPA is invited by the business.
Invite(i, o) ==
  /\ invites[i].status = "unsent" /\ Owners(o) # {}
  /\ i \in ClientInvites => o = Business
  /\ invites' = [invites EXCEPT ![i].status = "sent", ![i].org = o]
  /\ UNCHANGED <<staff, creator, engaged, assigned, tokenLock, requests, raced>>

\* Wrong: the invitation is read without its lock.
ReadToken(r, i) ==
  /\ requests[r] = NoRequest /\ invites[i].status = "sent"
  /\ \E f \in {x \in Firms : Recipient[i] \in Active(x)} \cup {NoFirm} :
       requests' = [requests EXCEPT ![r] =
         [op |-> i, org |-> invites[i].org, user |-> Recipient[i], firm |-> f]]
  /\ UNCHANGED <<staff, creator, invites, engaged, assigned, tokenLock, raced>>

\* accept_invite locks the invitation and reads it, and looks up a firm.
LockToken(r, i) ==
  /\ requests[r] = NoRequest /\ tokenLock[i] = "free" /\ invites[i].status = "sent"
  /\ \E f \in {x \in Firms : Recipient[i] \in Active(x)} \cup {NoFirm} :
       /\ (f = NoFirm => \A x \in Firms : Recipient[i] \notin Active(x))
       /\ requests' = [requests EXCEPT ![r] =
            [op |-> i, org |-> invites[i].org, user |-> Recipient[i], firm |-> f]]
  /\ tokenLock' = [tokenLock EXCEPT ![i] = r]
  /\ UNCHANGED <<staff, creator, invites, engaged, assigned, raced>>

Accepted(r, i) ==
  /\ invites' = [invites EXCEPT ![i].status = "accepted", ![i].grants = @ + 1]
  /\ tokenLock' = [tokenLock EXCEPT ![i] = "free"]
  /\ Finish(r)
  /\ UNCHANGED raced

\* Wrong: the conflict takes the invitation's role.
JoinedDemoted(o, u) == [role |-> IF o = Business THEN "member" ELSE "cpa", active |-> TRUE]

\* An owner keeps the role an invitation would lower.
Joined(o, u) ==
  [role |-> IF staff[o][u].role \in {"owner", "firm_admin"} THEN staff[o][u].role
            ELSE IF o = Business THEN "member" ELSE "cpa",
   active |-> TRUE]

AcceptMember(r, i) ==
  LET q == requests[r]
  IN  /\ q.op = i
      /\ staff' = [staff EXCEPT ![q.org][q.user] = Joined(q.org, q.user)]
      /\ Accepted(r, i)
      /\ UNCHANGED <<creator, engaged, assigned>>

\* A CPA without a firm founds one; a link that is not active is made active.
AcceptClient(r, i) ==
  LET u == requests[r].user
  IN  /\ requests[r].op = i
      /\ \E f \in IF requests[r].firm # NoFirm THEN {requests[r].firm}
                  ELSE {x \in Firms : creator[x] = NoUser} :
           /\ engaged[f] # "active"
           /\ creator' = [creator EXCEPT ![f] = IF requests[r].firm = NoFirm THEN u ELSE @]
           /\ staff' = [staff EXCEPT ![f][u] =
                IF requests[r].firm = NoFirm THEN [role |-> "firm_admin", active |-> TRUE] ELSE @]
           /\ engaged' = [engaged EXCEPT ![f] = "active"]
           /\ assigned' = assigned \cup {<<f, u>>}
      /\ Accepted(r, i)

\* already_engaged rolls the transaction back.
RefuseClient(r, i) ==
  /\ requests[r].op = i /\ requests[r].firm # NoFirm
  /\ engaged[requests[r].firm] = "active"
  /\ tokenLock' = [tokenLock EXCEPT ![i] = "free"] /\ Finish(r)
  /\ UNCHANGED <<staff, creator, invites, engaged, assigned, raced>>

\* By the client's owner or the firm's admin.
RevokeEngagement(actor, f) ==
  /\ engaged[f] # "none" /\ actor \in Owners(Business) \cup Owners(f)
  /\ engaged' = [engaged EXCEPT ![f] = "revoked"]
  /\ UNCHANGED <<staff, creator, invites, assigned, tokenLock, requests, raced>>

AssignCpa(actor, f, u) ==
  /\ engaged[f] # "none" /\ actor \in Owners(f)
  /\ u \in Active(f) /\ staff[f][u].role \in {"firm_admin", "cpa"}
  /\ assigned' = assigned \cup {<<f, u>>}
  /\ UNCHANGED <<staff, creator, invites, engaged, tokenLock, requests, raced>>

UnassignCpa(actor, f, u) ==
  /\ engaged[f] # "none" /\ actor \in Owners(f)
  /\ assigned' = assigned \ {<<f, u>>}
  /\ UNCHANGED <<staff, creator, invites, engaged, tokenLock, requests, raced>>

MembershipNext ==
  \/ \E r \in Requests, o \in Orgs, a, u \in Users : BeginRemove(r, a, o, u) \/ BeginTransfer(r, a, o, u)
  \/ \E r \in Requests : EndRemove(r) \/ EndTransfer(r)
  \/ \E i \in Invites, o \in Orgs : Invite(i, o)
  \/ \E r \in Requests, i \in Invites : LockToken(r, i)
  \/ \E r \in Requests, i \in MemberInvites : AcceptMember(r, i)
  \/ \E r \in Requests, i \in ClientInvites : AcceptClient(r, i) \/ RefuseClient(r, i)
  \/ \E a, u \in Users, f \in Firms : AssignCpa(a, f, u) \/ UnassignCpa(a, f, u)
  \/ \E a \in Users, f \in Firms : RevokeEngagement(a, f)

MembershipSpec == MembershipInit /\ [][MembershipNext]_membershipVars

-----------------------------------------------------------------------------
(* Properties *)

\* A business keeps an active owner and a firm an active admin, whatever is
\* removed, transferred or accepted meanwhile, unless two removals overlap.
KeepsAnOwnerAlone == raced \/ \A o \in Orgs : Exists(o) => Owners(o) # {}

\* The comment on remove_member without the exception: two owners who remove
\* each other at the same time both pass the count, and nobody is left.
KeepsAnOwner == \A o \in Orgs : Exists(o) => Owners(o) # {}

\* An invitation grants once: a link answered twice, at once or after the
\* engagement it made was revoked, does not bring the access back.
InviteGrantsOnce ==
  \A i \in Invites :
    /\ invites[i].grants <= 1
    /\ invites[i].grants = 1 <=> invites[i].status = "accepted"

\* An owner remains, and no link opens a door twice.
MembershipHolds == KeepsAnOwnerAlone /\ InviteGrantsOnce
=============================================================================
