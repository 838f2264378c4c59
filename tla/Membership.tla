------------------------------ MODULE Membership ------------------------------
(***************************************************************************)
(* OrgService of identity-service: members of orgs, their roles, and the   *)
(* invites that bring new ones in or disabled ones back.  A request runs   *)
(* in one transaction at READ COMMITTED: each read sees what is committed  *)
(* then, and all its writes appear when it ends.  Only the creation of an  *)
(* org takes a lock.  The role of who asks was resolved before.            *)
(*                                                                         *)
(* A user stands for one e-mail address, and an org for one slug; times    *)
(* are the order of the invites and whether they have expired.             *)
(***************************************************************************)
EXTENDS Naturals, Sequences, FiniteSets

CONSTANTS
    Users,
    Orgs,           \* slugs
    Requests,       \* requests that may be under way at once
    MaxRequests,    \* bound on all requests
    MaxInvites      \* bound on rows of membership_invites

ASSUME MembershipAssumption ==
    /\ MaxRequests \in Nat /\ MaxInvites \in Nat
    /\ IsFiniteSet(Users) /\ IsFiniteSet(Orgs)

VARIABLES
    member,     \* rows of memberships: [role, active, signup], or Stranger
    invites,    \* rows of membership_invites in the order of createdAt
    request,    \* requests under way
    asked,      \* how many requests there were
    raced       \* orgs where a request wrote what it decided on overtaken reads

vars == <<member, invites, request, asked, raced>>

Roles == {"owner", "admin", "developer"}
Stranger == [role |-> "none", active |-> FALSE, signup |-> FALSE]
Idle == [op |-> "none"]

Managers == {"owner", "admin"}     \* ROLE_PERMISSIONS: who has member:manage
Founded(o) == \E u \in Users : member[o][u] # Stranger
Owners(o) == {u \in Users : member[o][u].active /\ member[o][u].role = "owner"}
InvitesOf(o, u) == {i \in DOMAIN invites : invites[i].org = o /\ invites[i].user = u}
Newest(i, I) == i \in I /\ \A j \in I : j <= i

\* One field fits all: actor is the role of who asks, role the one asked for,
\* found the membership read, row the invite read, stale whether another
\* request has written to the org since the first read.
Asking(op, o, actor, user, role) ==
    [role |-> role, op |-> op, org |-> o, user |-> user, actor |-> actor, at |-> "asked",
     found |-> Stranger, row |-> 0, invite |-> Idle, stale |-> FALSE]

\* One org may have some owners already, of whom one founded it.
Beginnings ==
    {[u \in Users |-> Stranger]} \cup
    UNION {{[u \in Users |-> IF u \in S THEN [role |-> "owner", active |-> TRUE, signup |-> u = f]
                             ELSE Stranger] : f \in S} : S \in SUBSET Users}

Init ==
    /\ member \in [Orgs -> Beginnings]
    /\ Cardinality({o \in Orgs : Founded(o)}) <= 1
    /\ invites = <<>>
    /\ request = [r \in Requests |-> Idle]
    /\ asked = 0
    /\ raced = {}

-----------------------------------------------------------------------------
(***************************************************************************)
(* Steps of a request                                                      *)
(***************************************************************************)
Ask(r, asking) ==
    /\ request[r] = Idle /\ asked < MaxRequests
    /\ request' = [request EXCEPT ![r] = asking]
    /\ asked' = asked + 1
    /\ UNCHANGED <<member, invites, raced>>
At(r, ops, at) == request[r].op \in ops /\ request[r].at = at
GoOn(r, next) == /\ request' = [request EXCEPT ![r] = next]
                 /\ UNCHANGED <<member, invites, asked, raced>>
Refuse(r) == GoOn(r, Idle)

\* The commit: whatever other requests have read of the org is now stale.
Commit(r) ==
    LET o == request[r].org IN
    /\ request' = [q \in Requests |->
                     IF q = r \/ request[q] = Idle THEN IF q = r THEN Idle ELSE request[q]
                     ELSE IF request[q].org = o /\ request[q].at # "asked"
                       THEN [request[q] EXCEPT !.stale = TRUE] ELSE request[q]]
    /\ raced' = IF request[r].stale THEN raced \cup {o} ELSE raced
    /\ UNCHANGED asked

Read(r, at) == [request[r] EXCEPT !.at = at,
                                  !.found = member[request[r].org][request[r].user]]

-----------------------------------------------------------------------------
(***************************************************************************)
(* setRole and disable                                                     *)
(***************************************************************************)
Manage(r, o, actor, user, op, role) ==
    /\ member[o][actor].active /\ member[o][actor].role \in Managers
    /\ Ask(r, Asking(op, o, member[o][actor].role, user, role))

\* requireMembership and assertOwnerRoleChange.
ReadMember(r) ==
    /\ At(r, {"setRole", "disable"}, "asked")
    /\ LET q == request[r]
           row == member[q.org][q.user]
           moves == q.op = "disable" \/ q.role # "owner"
       IN IF \/ row = Stranger
             \/ q.op = "disable" /\ ~row.active
             \/ q.op = "setRole" /\ q.role = "owner" /\ q.actor # "owner"
             \/ row.role = "owner" /\ moves /\ q.actor # "owner"
          THEN Refuse(r)
          ELSE GoOn(r, Read(r, IF row.role = "owner" /\ moves THEN "count" ELSE "write"))

\* Mutant: the disabled owners count too.
CountAllOwners(r) ==
    /\ At(r, {"setRole", "disable"}, "count")
    /\ LET o == request[r].org
       IN IF Cardinality({u \in Users : member[o][u].role = "owner"}) <= 1 THEN Refuse(r)
          ELSE GoOn(r, [request[r] EXCEPT !.at = "write"])

\* assertNotLastActiveOwner.
CountOwners(r) ==
    /\ At(r, {"setRole", "disable"}, "count")
    /\ IF Cardinality(Owners(request[r].org)) <= 1 THEN Refuse(r)
       ELSE GoOn(r, [request[r] EXCEPT !.at = "write"])

WriteMember(r) ==
    /\ At(r, {"setRole", "disable"}, "write")
    /\ LET q == request[r] IN
         /\ member' = IF q.op = "setRole" THEN [member EXCEPT ![q.org][q.user].role = q.role]
                      ELSE [member EXCEPT ![q.org][q.user].active = FALSE]
         \* History: the invites that were open when the user was disabled.
         /\ invites' = [i \in DOMAIN invites |->
                          IF q.op = "disable" /\ i \in InvitesOf(q.org, q.user)
                          THEN [invites[i] EXCEPT !.outlived = TRUE] ELSE invites[i]]
    /\ Commit(r)

-----------------------------------------------------------------------------
(***************************************************************************)
(* invite                                                                  *)
(***************************************************************************)
Invite(r, o, actor, user, role) ==
    /\ role = "owner" => member[o][actor].role = "owner"
    /\ Manage(r, o, actor, user, "invite", role)

ReadInvited(r) ==
    /\ At(r, {"invite"}, "asked")
    /\ IF member[request[r].org][request[r].user].active THEN Refuse(r)
       ELSE GoOn(r, Read(r, "pending"))

ReadPending(r) ==
    /\ At(r, {"invite"}, "pending")
    /\ LET open == {i \in InvitesOf(request[r].org, request[r].user) : ~invites[i].accepted}
       IN \/ open = {} /\ GoOn(r, [request[r] EXCEPT !.at = "write"])
          \/ \E i \in open :
               Newest(i, open) /\ GoOn(r, [request[r] EXCEPT !.at = "write", !.row = i])

\* The row that is pending is used again, or a new one is written.
WriteInvite(r) ==
    /\ At(r, {"invite"}, "write")
    /\ LET q == request[r]
           row == [role |-> q.role, org |-> q.org, user |-> q.user, outlived |-> FALSE,
                   accepted |-> FALSE, expired |-> FALSE]
       IN IF q.row # 0 THEN invites' = [invites EXCEPT ![q.row] = row]
          ELSE /\ Len(invites) < MaxInvites
               /\ invites' = Append(invites, row)
    /\ UNCHANGED member
    /\ Commit(r)

Expire(i) ==
    /\ ~invites[i].expired
    /\ invites' = [invites EXCEPT ![i].expired = TRUE]
    /\ UNCHANGED <<member, request, asked, raced>>

-----------------------------------------------------------------------------
(***************************************************************************)
(* resolveJwt: a log-in, which accepts an invite if there is no membership *)
(***************************************************************************)
Login(r, o, user) == Ask(r, Asking("login", o, "none", user, "none"))

ReadOwn(r) ==
    /\ At(r, {"login"}, "asked")
    /\ IF member[request[r].org][request[r].user].active THEN Refuse(r) ELSE GoOn(r, Read(r, "invite"))

FindInvite(r) ==
    /\ At(r, {"login"}, "invite")
    /\ LET open == {i \in InvitesOf(request[r].org, request[r].user) :
                      ~invites[i].accepted /\ ~invites[i].expired}
       IN \/ open = {} /\ Refuse(r)
          \/ \E i \in open :
               Newest(i, open) /\ GoOn(r, [request[r] EXCEPT !.at = "write", !.row = i,
                                                            !.invite = invites[i]])

\* Mutant: the invite is not used up.
AcceptAgain(r) ==
    /\ At(r, {"login"}, "write")
    /\ LET q == request[r] IN
         /\ q.found = Stranger => member[q.org][q.user] = Stranger
         /\ member' = [member EXCEPT ![q.org][q.user] =
                         [role |-> q.invite.role, active |-> TRUE, signup |-> FALSE]]
    /\ UNCHANGED invites
    /\ Commit(r)

\* Mutant: a founder who comes back is a founder again.
AcceptKeepsSignup(r) ==
    /\ At(r, {"login"}, "write")
    /\ LET q == request[r] IN
         /\ q.found = Stranger => member[q.org][q.user] = Stranger
         /\ invites' = [invites EXCEPT ![q.row].accepted = TRUE]
         /\ member' = [member EXCEPT ![q.org][q.user] =
                         [role |-> q.invite.role, active |-> TRUE, signup |-> @.signup]]
    /\ Commit(r)

\* acceptPendingInvite: the role is the one read; the row created, or made
\* active again.
AcceptInvite(r) ==
    /\ At(r, {"login"}, "write")
    /\ LET q == request[r] IN
         /\ q.found = Stranger => member[q.org][q.user] = Stranger
         /\ invites' = [invites EXCEPT ![q.row].accepted = TRUE]
         /\ member' = [member EXCEPT ![q.org][q.user] =
                         [role |-> q.invite.role, active |-> TRUE, signup |-> FALSE]]
    /\ Commit(r)

\* The row to be created is there already: the transaction is rolled back.
AcceptTwice(r) ==
    /\ At(r, {"login"}, "write")
    /\ request[r].found = Stranger
    /\ member[request[r].org][request[r].user] # Stranger
    /\ Refuse(r)

-----------------------------------------------------------------------------
(***************************************************************************)
(* createOrgForSubject                                                     *)
(***************************************************************************)
Create(r, o, user) == Ask(r, Asking("create", o, "none", user, "owner"))

\* pg_advisory_xact_lock on the user, then the active memberships.
ReadActive(r) ==
    /\ At(r, {"create"}, "asked")
    /\ \A q \in Requests : ~(At(q, {"create"}, "write") /\ request[q].user = request[r].user)
    /\ IF \E o \in Orgs : member[o][request[r].user].active THEN Refuse(r)
       ELSE GoOn(r, Read(r, "write"))

\* The slug is taken, or the org is founded with its first owner.
CreateOrg(r) ==
    /\ At(r, {"create"}, "write")
    /\ LET q == request[r] IN
       IF Founded(q.org) THEN Refuse(r)
       ELSE /\ member' = [member EXCEPT ![q.org][q.user] =
                            [role |-> "owner", active |-> TRUE, signup |-> TRUE]]
            /\ UNCHANGED invites
            /\ Commit(r)

-----------------------------------------------------------------------------
Next ==
    \/ \E r \in Requests, o \in Orgs, u \in Users :
         \/ Login(r, o, u) \/ Create(r, o, u)
         \/ \E a \in Users : \/ \E role \in Roles : Manage(r, o, a, u, "setRole", role)
                             \/ Manage(r, o, a, u, "disable", "none")
                             \/ \E role \in Roles : Invite(r, o, a, u, role)
    \/ \E r \in Requests :
         \/ ReadMember(r) \/ CountOwners(r) \/ WriteMember(r)
         \/ ReadInvited(r) \/ ReadPending(r) \/ WriteInvite(r)
         \/ ReadOwn(r) \/ FindInvite(r) \/ AcceptInvite(r) \/ AcceptTwice(r)
         \/ ReadActive(r) \/ CreateOrg(r)
    \/ \E i \in DOMAIN invites : Expire(i)

Spec == Init /\ [][Next]_vars

-----------------------------------------------------------------------------
(***************************************************************************)
(* Properties                                                              *)
(***************************************************************************)
\* "Cannot modify the last owner": an org that was founded keeps an active
\* owner through every sequence of role changes, disablings, invites and
\* returns, unless one of them was decided on reads that another had overtaken
\* (two owners who demote each other at once leave none).
KeepsAnOwner == \A o \in Orgs \ raced : Founded(o) => Owners(o) # {}

\* Who was disabled comes back only by an invite written after that: no invite
\* is used twice, or left over for later, except where requests overtook each
\* other (two invites at once write two rows, and one of them stays open).
DisabledStaysOut ==
    [][\A o \in Orgs \ raced', u \in Users :
         member[o][u] # Stranger /\ ~member[o][u].active /\ member'[o][u].active
           => \E r \in Requests : At(r, {"login"}, "write") /\ ~invites[request[r].row].outlived
                /\ request[r].org = o /\ request[r].user = u /\ request'[r] = Idle]_vars

\* A user has one active membership by sign-up, which is what the partial unique
\* index memberships_userId_signup_active_key demands: no request, however they
\* interleave, runs into it, be it a second creation or the return of a founder
\* who has founded another org since.
OneSignup ==
    \A u \in Users :
      Cardinality({o \in Orgs : member[o][u].active /\ member[o][u].signup}) <= 1
=============================================================================
