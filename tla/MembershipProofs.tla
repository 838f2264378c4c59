--------------------------- MODULE MembershipProofs ---------------------------
(***************************************************************************)
(* Membership for any finite sets of users and orgs and any requests: one  *)
(* sign-up per user always; and, in every org where no request has decided *)
(* on overtaken reads, an owner, and no return of who was disabled but by  *)
(* an invite written since.                                                *)
(***************************************************************************)
EXTENDS Membership, FiniteSetTheorems, TLAPS

-----------------------------------------------------------------------------
(***************************************************************************)
(* The inductive invariant                                                 *)
(***************************************************************************)
MemberRow == [role : Roles, active : BOOLEAN, signup : BOOLEAN] \cup {Stranger}
InviteRow == [role : Roles, org : Orgs, user : Users, outlived : BOOLEAN, accepted : BOOLEAN,
              expired : BOOLEAN]
Ops == {"setRole", "disable", "invite", "login", "create"}
Pending == [role : Roles \cup {"none"}, op : Ops, org : Orgs, user : Users,
            actor : Roles \cup {"none"}, at : {"asked", "count", "pending", "invite", "write"},
            found : MemberRow, row : Nat, invite : InviteRow \cup {Idle}, stale : BOOLEAN]

\* The type invariant.
TypeOK ==
    /\ member \in [Orgs -> [Users -> MemberRow]]
    /\ invites \in Seq(InviteRow)
    /\ request \in [Requests -> Pending \cup {Idle}]
    /\ raced \in SUBSET Orgs

Open(i, o, u) == i \in InvitesOf(o, u) /\ ~invites[i].accepted

\* What a request q has read: no membership is deleted, no invite changes hands,
\* and all else still stands if nobody has written to the org since.
Reads(q) ==
    q.op \in Ops /\ q.at # "asked" =>
      /\ ~q.stale => q.found = member[q.org][q.user]
      /\ q.op \in {"setRole", "disable"} => member[q.org][q.user] # Stranger
      /\ q.op = "disable" => q.found.active
      /\ q.op \in {"invite", "login"} => ~q.found.active
      /\ q.op = "invite" /\ q.at = "write" =>
           IF q.row = 0 THEN ~q.stale => \A i \in DOMAIN invites : ~Open(i, q.org, q.user)
                        ELSE q.row \in InvitesOf(q.org, q.user) /\ (~q.stale => ~invites[q.row].accepted)
      /\ q.op = "login" /\ q.at = "write" =>
           /\ q.row \in InvitesOf(q.org, q.user)
           /\ ~q.stale => ~invites[q.row].accepted
           /\ q.invite \in InviteRow

\* Who is about to move an owner has counted another.
Counted(q) ==
    q.op \in {"setRole", "disable"} /\ q.at = "write" /\ ~q.stale
      /\ q.found.role = "owner" /\ (q.op = "disable" \/ q.role # "owner")
    => \E w \in Owners(q.org) : w # q.user

\* Roles are given by the one who asks, and invites by a member; no invite has
\* been chosen to be written again before one was looked for.
Asked(q) ==
    /\ q.op \in {"setRole", "invite"} => q.role \in Roles
    /\ q.op = "invite" => Founded(q.org)
    /\ q.op = "invite" /\ q.at # "write" => q.row = 0

Sound(q) == Reads(q) /\ Counted(q) /\ Asked(q)
RequestInv == \A r \in Requests : Sound(request[r])

\* At most one invite is open, to somebody who is not a member, since nobody was
\* disabled after it was written; and only to an org that was founded.
InviteInv ==
    /\ \A i \in DOMAIN invites : Founded(invites[i].org)
    /\ \A o \in Orgs \ raced, u \in Users :
         /\ \A i \in DOMAIN invites : Open(i, o, u) => ~invites[i].outlived /\ ~member[o][u].active
         /\ \A i, j \in DOMAIN invites : Open(i, o, u) /\ Open(j, o, u) => i = j

SignedUp(o, u) == member[o][u].active /\ member[o][u].signup
Creating(r, u) == At(r, {"create"}, "write") /\ request[r].user = u

\* The lock of createOrgForSubject: one creation of a user is past its read, and
\* meanwhile nothing else makes the user active by sign-up.
SignupInv ==
    \A u \in Users :
      /\ \A o, p \in Orgs : SignedUp(o, u) /\ SignedUp(p, u) => o = p
      /\ \A r \in Requests, o \in Orgs : Creating(r, u) => ~SignedUp(o, u)
      /\ \A r, q \in Requests : Creating(r, u) /\ Creating(q, u) => r = q

IInv == TypeOK /\ RequestInv /\ KeepsAnOwner /\ InviteInv /\ SignupInv

-----------------------------------------------------------------------------
(***************************************************************************)
(* Requests                                                                *)
(***************************************************************************)
LEMMA IdleSound == Sound(Idle)
  BY DEF Sound, Reads, Counted, Asked, Idle, Ops

LEMMA NotIdle ==
    ASSUME NEW q \in Pending \cup {Idle}, q.op \in Ops
    PROVE  q \in Pending
  BY DEF Idle, Ops

\* A step of one request that writes nothing.
LEMMA QuietStep ==
    ASSUME IInv, NEW r \in Requests, NEW next \in Pending \cup {Idle},
           request' = [request EXCEPT ![r] = next],
           UNCHANGED <<member, invites, raced>>,
           Sound(next),
           next.op = "create" /\ next.at = "write" =>
             /\ \A o \in Orgs : ~SignedUp(o, next.user)
             /\ \A q \in Requests : ~Creating(q, next.user)
    PROVE  IInv'
<1>1. \A q \in Requests : request'[q] = IF q = r THEN next ELSE request[q]
  BY DEF IInv, TypeOK
<1>2. TypeOK'
  BY DEF IInv, TypeOK
<1>3. RequestInv'
  <2> SUFFICES ASSUME NEW q \in Requests
               PROVE  Sound(request[q])'
    BY DEF RequestInv
  <2>1. \E s : s = request'[q] /\ Sound(s)
    BY <1>1 DEF IInv, RequestInv
  <2> QED BY <2>1 DEF Sound, Reads, Counted, Asked, Open, InvitesOf, Owners, Founded
<1>4. KeepsAnOwner'
  BY DEF IInv, KeepsAnOwner, Owners, Founded
<1>5. InviteInv'
  BY DEF IInv, InviteInv, Open, InvitesOf, Founded
<1>6. SignupInv'
  <2>1. \A q \in Requests, u \in Users :
           Creating(q, u)' => IF q = r THEN next.op = "create" /\ next.at = "write" /\ next.user = u
                              ELSE Creating(q, u)
    BY <1>1 DEF Creating, At
  <2> QED BY <2>1 DEF IInv, SignupInv, SignedUp
<1> QED BY <1>2, <1>3, <1>4, <1>5, <1>6 DEF IInv

LEMMA AskStep ==
    ASSUME IInv, NEW r \in Requests, NEW o \in Orgs, NEW u \in Users,
           NEW op \in Ops, NEW actor \in Roles \cup {"none"}, NEW role \in Roles \cup {"none"},
           Ask(r, Asking(op, o, actor, u, role)),
           op \in {"setRole", "invite"} => role \in Roles,
           op = "invite" => Founded(o)
    PROVE  IInv'
<1> DEFINE next == Asking(op, o, actor, u, role)
<1>1. next \in Pending
  BY DEF Asking, Pending, MemberRow
<1>2. next.at = "asked" /\ next.op = op /\ next.role = role /\ next.org = o /\ next.row = 0
  BY DEF Asking
<1>3. Sound(next)
  BY <1>2 DEF Sound, Reads, Counted, Asked
<1>4. request' = [request EXCEPT ![r] = next] /\ UNCHANGED <<member, invites, raced>>
  BY DEF Ask
<1> HIDE DEF next
<1> QED BY <1>1, <1>2, <1>3, <1>4, QuietStep

\* A member's role is one, and its org founded.
LEMMA Acting ==
    ASSUME TypeOK, NEW o \in Orgs, NEW a \in Users, member[o][a].active
    PROVE  member[o][a].role \in Roles /\ Founded(o)
<1>1. member[o][a] \in MemberRow /\ member[o][a] # Stranger
  BY DEF TypeOK, Stranger
<1> QED BY <1>1 DEF MemberRow, Founded

LEMMA ManageStep ==
    ASSUME IInv, NEW r \in Requests, NEW o \in Orgs, NEW a \in Users, NEW u \in Users,
           NEW role \in Roles,
           \/ Manage(r, o, a, u, "setRole", role)
           \/ Manage(r, o, a, u, "disable", "none")
           \/ Invite(r, o, a, u, role)
    PROVE  IInv'
<1>1. member[o][a].role \in Roles /\ Founded(o)
  BY Acting DEF IInv, Manage, Invite
<1>2. \E op \in {"setRole", "disable", "invite"}, x \in Roles \cup {"none"} :
         /\ Ask(r, Asking(op, o, member[o][a].role, u, x))
         /\ op # "disable" => x \in Roles
  BY DEF Manage, Invite
<1> QED BY <1>1, <1>2, AskStep DEF Ops

\* A refused request leaves nothing behind.
LEMMA RefuseStep ==
    ASSUME IInv, NEW r \in Requests, Refuse(r)
    PROVE  IInv'
<1>1. request' = [request EXCEPT ![r] = Idle] /\ UNCHANGED <<member, invites, raced>>
  BY DEF Refuse, GoOn
<1>2. ~(Idle.op = "create" /\ Idle.at = "write")
  BY DEF Idle
<1> QED BY <1>1, <1>2, IdleSound, QuietStep

LEMMA GoOnStep ==
    ASSUME IInv, NEW r \in Requests, NEW next \in Pending, GoOn(r, next), Sound(next),
           next.op # "create"
    PROVE  IInv'
  BY QuietStep DEF GoOn

\* The row that a request reads.
LEMMA ReadRow ==
    ASSUME TypeOK, NEW r \in Requests, request[r].op \in Ops,
           NEW at \in {"count", "pending", "invite", "write"}
    PROVE  /\ Read(r, at) \in Pending
           /\ Read(r, at) = [request[r] EXCEPT !.at = at, !.found = member[request[r].org][request[r].user]]
           /\ request[r] \in Pending
           /\ member[request[r].org][request[r].user] \in MemberRow
<1>1. request[r] \in Pending
  BY NotIdle DEF TypeOK
<1>2. request[r].org \in Orgs /\ request[r].user \in Users
  BY <1>1 DEF Pending
<1>3. member[request[r].org][request[r].user] \in MemberRow
  BY <1>2 DEF TypeOK
<1> QED BY <1>1, <1>3 DEF Read, Pending

\* More than one owner: another than u.
LEMMA Another ==
    ASSUME NEW o \in Orgs, NEW u \in Users, ~(Cardinality(Owners(o)) <= 1)
    PROVE  \E w \in Owners(o) : w # u
<1> SUFFICES ASSUME \A w \in Owners(o) : w = u
             PROVE  FALSE
  OBVIOUS
<1>1. Owners(o) \subseteq {u}
  OBVIOUS
<1>2. IsFiniteSet({u}) /\ Cardinality({u}) = 1
  BY FS_Singleton
<1>3. Cardinality(Owners(o)) <= Cardinality({u})
  BY <1>1, <1>2, FS_Subset
<1> QED BY <1>2, <1>3

LEMMA ReadMemberStep ==
    ASSUME IInv, NEW r \in Requests, ReadMember(r)
    PROVE  IInv'
<1> DEFINE q == request[r]
           row == member[q.org][q.user]
           moves == q.op = "disable" \/ q.role # "owner"
<1>1. CASE Refuse(r)
  BY <1>1, RefuseStep
<1>2. ASSUME NEW at \in {"count", "write"}, GoOn(r, Read(r, at)), row # Stranger,
             q.op = "disable" => row.active, at = "write" => ~(row.role = "owner" /\ moves)
      PROVE  IInv'
  <2>1. q.op \in {"setRole", "disable"} /\ q.op \in Ops
    BY DEF ReadMember, At, Ops
  <2>2. /\ Read(r, at) \in Pending /\ q \in Pending
        /\ Read(r, at) = [q EXCEPT !.at = at, !.found = row]
    BY <2>1, ReadRow DEF IInv
  <2>3. Asked(q) /\ q.at = "asked"
    BY DEF IInv, RequestInv, Sound, ReadMember, ReadInvited, ReadOwn, At
  <2> DEFINE next == Read(r, at)
  <2>4. /\ next.op = q.op /\ next.org = q.org /\ next.user = q.user /\ next.role = q.role
        /\ next.at = at /\ next.found = row /\ next.row = q.row
    BY <2>2 DEF Pending
  <2>5. Reads(next) /\ Counted(next) /\ Asked(next)
    <3> HIDE DEF next
    <3> QED BY <2>1, <2>3, <2>4, <1>2 DEF Reads, Counted, Asked
  <2> QED BY <1>2, <2>1, <2>2, <2>4, <2>5, GoOnStep DEF Sound
<1> QED BY <1>1, <1>2 DEF ReadMember, At

LEMMA CountOwnersStep ==
    ASSUME IInv, NEW r \in Requests, CountOwners(r)
    PROVE  IInv'
<1> DEFINE q == request[r]
           next == [q EXCEPT !.at = "write"]
<1>1. CASE Refuse(r)
  BY <1>1, RefuseStep
<1>2. CASE GoOn(r, next) /\ ~(Cardinality(Owners(q.org)) <= 1)
  <2>1. q.op \in {"setRole", "disable"} /\ q.op \in Ops /\ q.at = "count"
    BY DEF CountOwners, At, Ops
  <2>2. q \in Pending
    BY <2>1, NotIdle DEF IInv, TypeOK
  <2>3. /\ next \in Pending /\ next.op = q.op /\ next.org = q.org /\ next.user = q.user
        /\ next.role = q.role /\ next.at = "write" /\ next.found = q.found /\ next.stale = q.stale
        /\ q.org \in Orgs /\ q.user \in Users
    BY <2>2 DEF Pending
  <2>4. Sound(q)
    BY DEF IInv, RequestInv
  <2>5. \E w \in Owners(q.org) : w # q.user
    BY <1>2, <2>3, Another
  <2>6. Sound(next)
    <3> HIDE DEF next
    <3> QED BY <2>1, <2>3, <2>4, <2>5 DEF Sound, Reads, Counted, Asked
  <2> QED BY <1>2, <2>1, <2>3, <2>6, GoOnStep
<1> QED BY <1>1, <1>2 DEF CountOwners

LEMMA ReadInactiveStep ==
    ASSUME IInv, NEW r \in Requests, ReadInvited(r) \/ ReadOwn(r)
    PROVE  IInv'
<1> DEFINE q == request[r]
           row == member[q.org][q.user]
<1>1. CASE Refuse(r)
  BY <1>1, RefuseStep
<1>2. ASSUME NEW at \in {"pending", "invite"}, GoOn(r, Read(r, at)), ~row.active
      PROVE  IInv'
  <2>1. q.op \in {"invite", "login"} /\ q.op \in Ops
    BY DEF ReadInvited, ReadOwn, At, Ops
  <2>2. /\ Read(r, at) \in Pending /\ q \in Pending
        /\ Read(r, at) = [q EXCEPT !.at = at, !.found = row]
    BY <2>1, ReadRow DEF IInv
  <2>3. Asked(q) /\ q.at = "asked"
    BY DEF IInv, RequestInv, Sound, ReadMember, ReadInvited, ReadOwn, At
  <2> DEFINE next == Read(r, at)
  <2>4. /\ next.op = q.op /\ next.org = q.org /\ next.user = q.user /\ next.role = q.role
        /\ next.at = at /\ next.found = row /\ next.row = q.row
    BY <2>2 DEF Pending
  <2>5. Sound(next)
    <3> HIDE DEF next
    <3> QED BY <2>1, <2>3, <2>4, <1>2 DEF Sound, Reads, Counted, Asked
  <2> QED BY <1>2, <2>1, <2>2, <2>4, <2>5, GoOnStep
<1> QED BY <1>1, <1>2 DEF ReadInvited, ReadOwn

LEMMA ReadPendingStep ==
    ASSUME IInv, NEW r \in Requests, ReadPending(r)
    PROVE  IInv'
<1> DEFINE q == request[r]
           open == {i \in InvitesOf(q.org, q.user) : ~invites[i].accepted}
<1>1. q.op = "invite" /\ q.op \in Ops /\ q.at = "pending"
  BY DEF ReadPending, At, Ops
<1>2. q \in Pending /\ Sound(q)
  BY <1>1, NotIdle DEF IInv, TypeOK, RequestInv
<1>3. CASE open = {} /\ GoOn(r, [q EXCEPT !.at = "write"])
  <2> DEFINE next == [q EXCEPT !.at = "write"]
  <2>1. /\ next \in Pending /\ next.op = q.op /\ next.org = q.org /\ next.user = q.user
        /\ next.role = q.role /\ next.at = "write" /\ next.found = q.found /\ next.stale = q.stale
        /\ next.row = q.row
    BY <1>2 DEF Pending
  <2>2. q.row = 0
    BY <1>1, <1>2 DEF Sound, Asked
  <2>3. \A i \in DOMAIN invites : ~Open(i, q.org, q.user)
    BY <1>3 DEF Open
  <2>4. Sound(next)
    <3> HIDE DEF next
    <3> QED BY <1>1, <1>2, <2>1, <2>2, <2>3 DEF Sound, Reads, Counted, Asked
  <2> QED BY <1>1, <1>3, <2>1, <2>4, GoOnStep
<1>4. ASSUME NEW i \in open, GoOn(r, [q EXCEPT !.at = "write", !.row = i])
      PROVE  IInv'
  <2> DEFINE next == [q EXCEPT !.at = "write", !.row = i]
  <2>1. i \in Nat /\ i # 0 /\ i \in InvitesOf(q.org, q.user) /\ ~invites[i].accepted
    BY DEF IInv, TypeOK, InvitesOf
  <2>2. /\ next \in Pending /\ next.op = q.op /\ next.org = q.org /\ next.user = q.user
        /\ next.role = q.role /\ next.at = "write" /\ next.found = q.found /\ next.stale = q.stale
        /\ next.row = i
    BY <1>2, <2>1 DEF Pending
  <2>3. Sound(next)
    <3> HIDE DEF next
    <3> QED BY <1>1, <1>2, <2>1, <2>2 DEF Sound, Reads, Counted, Asked
  <2> QED BY <1>1, <1>4, <2>2, <2>3, GoOnStep
<1> QED BY <1>3, <1>4 DEF ReadPending

LEMMA FindInviteStep ==
    ASSUME IInv, NEW r \in Requests, FindInvite(r)
    PROVE  IInv'
<1> DEFINE q == request[r]
<1>1. q.op = "login" /\ q.op \in Ops /\ q.at = "invite"
  BY DEF FindInvite, At, Ops
<1>2. q \in Pending /\ Sound(q)
  BY <1>1, NotIdle DEF IInv, TypeOK, RequestInv
<1>3. CASE Refuse(r)
  BY <1>3, RefuseStep
<1>4. ASSUME NEW i \in InvitesOf(q.org, q.user), ~invites[i].accepted,
             GoOn(r, [q EXCEPT !.at = "write", !.row = i, !.invite = invites[i]])
      PROVE  IInv'
  <2> DEFINE next == [q EXCEPT !.at = "write", !.row = i, !.invite = invites[i]]
  <2>1. i \in Nat /\ invites[i] \in InviteRow
    BY DEF IInv, TypeOK, InvitesOf
  <2>2. /\ next \in Pending /\ next.op = q.op /\ next.org = q.org /\ next.user = q.user
        /\ next.role = q.role /\ next.at = "write" /\ next.found = q.found /\ next.stale = q.stale
        /\ next.row = i /\ next.invite = invites[i]
    BY <1>2, <2>1 DEF Pending
  <2>3. Sound(next)
    <3> HIDE DEF next
    <3> QED BY <1>1, <1>2, <1>4, <2>1, <2>2 DEF Sound, Reads, Counted, Asked
  <2> QED BY <1>1, <1>4, <2>2, <2>3, GoOnStep
<1> QED BY <1>3, <1>4 DEF FindInvite

LEMMA ReadActiveStep ==
    ASSUME IInv, NEW r \in Requests, ReadActive(r)
    PROVE  IInv'
<1> DEFINE q == request[r]
           row == member[q.org][q.user]
           next == Read(r, "write")
<1>1. CASE Refuse(r)
  BY <1>1, RefuseStep
<1>2. CASE GoOn(r, next) /\ ~\E o \in Orgs : member[o][q.user].active
  <2>1. q.op = "create" /\ q.op \in Ops
    BY DEF ReadActive, At, Ops
  <2>2. next \in Pending /\ q \in Pending /\ next = [q EXCEPT !.at = "write", !.found = row]
    BY <2>1, ReadRow DEF IInv
  <2>3. /\ next.op = q.op /\ next.org = q.org /\ next.user = q.user
        /\ next.at = "write" /\ next.found = row
    BY <2>2 DEF Pending
  <2>4. Sound(next)
    <3> HIDE DEF next
    <3> QED BY <2>1, <2>3 DEF Sound, Reads, Counted, Asked
  <2>5. \A o \in Orgs : ~SignedUp(o, next.user)
    BY <1>2, <2>3 DEF SignedUp
  <2>6. \A p \in Requests : ~Creating(p, next.user)
    BY <2>3 DEF ReadActive, Creating
  <2>7. request' = [request EXCEPT ![r] = next] /\ UNCHANGED <<member, invites, raced>>
    BY <1>2 DEF GoOn
  <2> HIDE DEF next
  <2> QED BY <2>2, <2>4, <2>5, <2>6, <2>7, QuietStep
<1> QED BY <1>1, <1>2 DEF ReadActive

-----------------------------------------------------------------------------
(***************************************************************************)
(* Commits                                                                 *)
(***************************************************************************)
\* What a commit of r may do to the tables: it writes to its own org, deletes no
\* row and hands no invite on.
Writes(r) ==
    LET o == request[r].org IN
    /\ member' \in [Orgs -> [Users -> MemberRow]]
    /\ \A p \in Orgs \ {o} : member'[p] = member[p]
    /\ \A u \in Users : member[o][u] # Stranger => member'[o][u] # Stranger
    /\ invites' \in Seq(InviteRow)
    /\ DOMAIN invites \subseteq DOMAIN invites'
    /\ \A i \in DOMAIN invites :
         /\ invites'[i].org = invites[i].org /\ invites'[i].user = invites[i].user
         /\ invites[i].org # o => invites'[i] = invites[i]
    /\ \A i \in DOMAIN invites' \ DOMAIN invites : invites'[i].org = o

LEMMA CommitRequests ==
    ASSUME IInv, NEW r \in Requests, request[r] \in Pending, request[r].at = "write",
           Commit(r), Writes(r)
    PROVE  /\ request' \in [Requests -> Pending \cup {Idle}]
           /\ RequestInv'
           /\ \A p \in Orgs : Founded(p) => Founded(p)'
<1> DEFINE o == request[r].org
<1>1. \A p \in Orgs : Founded(p) => Founded(p)'
  BY DEF Writes, Founded
<1>2. \A q \in Requests :
         request'[q] = IF q = r THEN Idle ELSE IF request[q] = Idle THEN Idle
                       ELSE IF request[q].org = o /\ request[q].at # "asked"
                         THEN [request[q] EXCEPT !.stale = TRUE] ELSE request[q]
  BY DEF Commit
<1>3. request' \in [Requests -> Pending \cup {Idle}]
  <2>1. \A q \in Requests : request[q] \in Pending \cup {Idle}
    BY DEF IInv, TypeOK
  <2>2. \A q \in Pending : [q EXCEPT !.stale = TRUE] \in Pending
    BY DEF Pending
  <2>3. \A q \in Requests : request'[q] \in Pending \cup {Idle}
    BY <1>2, <2>1, <2>2
  <2> QED BY <2>3 DEF Commit
<1>4. ASSUME NEW q \in Pending, Sound(q), q.org # o
      PROVE  Sound(q)'
  <2>1. q.org \in Orgs \ {o} /\ q.user \in Users
    BY <1>4 DEF Pending
  <2>2. member'[q.org] = member[q.org]
    BY <2>1 DEF Writes
  <2>3. InvitesOf(q.org, q.user)' = InvitesOf(q.org, q.user)
    BY <1>4 DEF Writes, InvitesOf
  <2>4. \A i \in InvitesOf(q.org, q.user) : invites'[i] = invites[i]
    BY <1>4 DEF Writes, InvitesOf
  <2>5. \A i : Open(i, q.org, q.user)' <=> Open(i, q.org, q.user)
    BY <2>3, <2>4 DEF Open
  <2>6. \A i : Open(i, q.org, q.user) => i \in DOMAIN invites
    BY DEF Open, InvitesOf
  <2>7. Reads(q)'
    BY <1>4, <2>2, <2>3, <2>4, <2>5, <2>6 DEF Sound, Reads
  <2>8. Counted(q)' /\ Asked(q)'
    BY <1>1, <1>4, <2>1, <2>2 DEF Sound, Counted, Asked, Owners
  <2> QED BY <2>7, <2>8 DEF Sound
<1>5. ASSUME NEW q \in Pending, Sound(q), q.org = o, q.at = "asked"
      PROVE  Sound(q)'
  BY <1>1, <1>5 DEF Sound, Reads, Counted, Asked, Pending
<1>6. ASSUME NEW q \in Pending, Sound(q), q.org = o, q.at # "asked"
      PROVE  Sound([q EXCEPT !.stale = TRUE])'
  <2> DEFINE late == [q EXCEPT !.stale = TRUE]
  <2>1. /\ late.op = q.op /\ late.org = q.org /\ late.user = q.user /\ late.role = q.role
        /\ late.at = q.at /\ late.found = q.found /\ late.row = q.row /\ late.invite = q.invite
        /\ late.stale = TRUE /\ q.org \in Orgs /\ q.user \in Users /\ q.op \in Ops
    BY DEF Pending
  <2>2. member[q.org][q.user] # Stranger => member'[q.org][q.user] # Stranger
    BY <1>6, <2>1 DEF Writes
  <2>3. InvitesOf(q.org, q.user) \subseteq InvitesOf(q.org, q.user)'
    BY DEF Writes, InvitesOf
  <2> HIDE DEF late
  <2>4. Reads(late)'
    BY <1>6, <2>1, <2>2, <2>3 DEF Sound, Reads
  <2>5. Counted(late)' /\ Asked(late)'
    BY <1>1, <1>6, <2>1 DEF Sound, Counted, Asked
  <2> QED BY <2>4, <2>5 DEF Sound, late
<1>7. RequestInv'
  <2> SUFFICES ASSUME NEW q \in Requests
               PROVE  Sound(request[q])'
    BY DEF RequestInv
  <2>1. CASE q = r \/ request[q] = Idle
    <3>1. request'[q] = Idle
      BY <1>2, <2>1
    <3> QED BY <3>1 DEF Sound, Reads, Counted, Asked, Idle, Ops
  <2>2. CASE q # r /\ request[q] # Idle
    <3>1. request[q] \in Pending /\ Sound(request[q])
      BY <2>2 DEF IInv, TypeOK, RequestInv
    <3>2. CASE request[q].org = o /\ request[q].at # "asked"
      <4>1. request'[q] = [request[q] EXCEPT !.stale = TRUE]
        BY <1>2, <2>2, <3>2
      <4>2. \A x \in Pending : Sound(x) /\ x.org = o /\ x.at # "asked"
               => Sound([x EXCEPT !.stale = TRUE])'
        BY <1>6
      <4> DEFINE x == request[q]
      <4> QED BY <3>1, <3>2, <4>1, <4>2 DEF Sound, Reads, Counted, Asked
    <3>3. CASE ~(request[q].org = o /\ request[q].at # "asked")
      <4>1. request'[q] = request[q]
        BY <1>2, <2>2, <3>3
      <4>2. \A x \in Pending : Sound(x) /\ (x.org # o \/ x.at = "asked") => Sound(x)'
        BY <1>4, <1>5
      <4> QED BY <3>1, <3>3, <4>1, <4>2 DEF Sound, Reads, Counted, Asked
    <3> QED BY <3>2, <3>3
  <2> QED BY <2>1, <2>2
<1> QED BY <1>1, <1>3, <1>7

\* A commit keeps the invariant if it keeps what the invariant says of its own
\* org, or decided on overtaken reads.
LEMMA CommitStep ==
    ASSUME IInv, NEW r \in Requests, request[r] \in Pending, request[r].at = "write",
           Commit(r), Writes(r),
           NEW o \in Orgs, o = request[r].org,
           request[r].stale \/ o \in raced \/ (Founded(o)' => Owners(o)' # {}),
           \A i \in DOMAIN invites' : invites'[i].org = o => Founded(o)',
           request[r].stale \/ o \in raced \/
             \A u \in Users :
               /\ \A i \in DOMAIN invites' : Open(i, o, u)' => ~invites'[i].outlived /\ ~member'[o][u].active
               /\ \A i, j \in DOMAIN invites' : Open(i, o, u)' /\ Open(j, o, u)' => i = j,
           \A u \in Users : SignedUp(o, u)' => SignedUp(o, u) \/ Creating(r, u)
    PROVE  IInv'
<1>1. /\ request' \in [Requests -> Pending \cup {Idle}] /\ RequestInv'
      /\ \A p \in Orgs : Founded(p) => Founded(p)'
  BY CommitRequests
<1>2. raced' \in SUBSET Orgs /\ raced \subseteq raced' /\ (request[r].stale => o \in raced')
  BY DEF Commit, IInv, TypeOK
<1>3. TypeOK'
  BY <1>1, <1>2 DEF TypeOK, Writes
<1>4. KeepsAnOwner'
  <2> SUFFICES ASSUME NEW p \in Orgs \ raced', Founded(p)'
               PROVE  Owners(p)' # {}
    BY DEF KeepsAnOwner
  <2>1. CASE p = o
    BY <1>2, <2>1
  <2>2. CASE p # o
    <3>1. member'[p] = member[p]
      BY <2>2 DEF Writes
    <3>2. Owners(p)' = Owners(p) /\ Founded(p)
      BY <3>1 DEF Owners, Founded
    <3> QED BY <1>2, <3>2 DEF IInv, KeepsAnOwner
  <2> QED BY <2>1, <2>2
<1>5. InviteInv'
  <2>1. ASSUME NEW i \in DOMAIN invites'
        PROVE  Founded(invites[i].org)'
    <3>1. CASE invites'[i].org = o
      BY <3>1
    <3>2. CASE invites'[i].org # o
      <4>1. i \in DOMAIN invites /\ invites'[i].org = invites[i].org /\ invites[i] \in InviteRow
        BY <3>2 DEF Writes, IInv, TypeOK
      <4>2. invites[i].org \in Orgs /\ Founded(invites[i].org)
        BY <4>1 DEF IInv, InviteInv, InviteRow
      <4>3. \E p \in Orgs : p = invites[i].org /\ p = invites'[i].org /\ Founded(p)'
        BY <1>1, <4>1, <4>2
      <4> QED BY <4>3 DEF Founded
    <3> QED BY <3>1, <3>2
  <2>2. ASSUME NEW p \in Orgs \ raced', NEW u \in Users
        PROVE  /\ \A i \in DOMAIN invites' : Open(i, p, u)' => ~invites'[i].outlived /\ ~member'[p][u].active
               /\ \A i, j \in DOMAIN invites' : Open(i, p, u)' /\ Open(j, p, u)' => i = j
    <3>1. CASE p = o
      BY <1>2, <3>1
    <3>2. CASE p # o
      <4>1. member'[p] = member[p]
        BY <3>2 DEF Writes
      <4>2. \A i \in DOMAIN invites' : Open(i, p, u)' =>
               i \in DOMAIN invites /\ invites'[i] = invites[i] /\ Open(i, p, u)
        BY <3>2 DEF Writes, Open, InvitesOf
      <4>3. p \in Orgs \ raced
        BY <1>2
      <4>4. /\ \A i \in DOMAIN invites : Open(i, p, u) => ~invites[i].outlived /\ ~member[p][u].active
            /\ \A i, j \in DOMAIN invites : Open(i, p, u) /\ Open(j, p, u) => i = j
        BY <4>3 DEF IInv, InviteInv
      <4> QED BY <4>1, <4>2, <4>4
    <3> QED BY <3>1, <3>2
  <2> QED BY <2>1, <2>2 DEF InviteInv
<1>6. SignupInv'
  <2> SUFFICES ASSUME NEW u \in Users
               PROVE  /\ \A p, s \in Orgs : SignedUp(p, u)' /\ SignedUp(s, u)' => p = s
                      /\ \A q \in Requests, p \in Orgs : Creating(q, u)' => ~SignedUp(p, u)'
                      /\ \A p, q \in Requests : Creating(p, u)' /\ Creating(q, u)' => p = q
    BY DEF SignupInv
  <2>1. \A p \in Orgs : SignedUp(p, u)' => SignedUp(p, u) \/ (p = o /\ Creating(r, u))
    BY DEF Writes, SignedUp
  <2>2. \A q \in Requests : Creating(q, u)' => q # r /\ Creating(q, u)
    <3>1. \A q \in Requests : request[q] \in Pending \cup {Idle}
      BY DEF IInv, TypeOK
    <3>2. \A x \in Pending : LET y == [x EXCEPT !.stale = TRUE]
                            IN y.op = x.op /\ y.at = x.at /\ y.user = x.user
      BY DEF Pending
    <3> QED BY <3>1, <3>2 DEF Commit, Creating, At, Idle
  <2> QED BY <2>1, <2>2 DEF IInv, SignupInv
<1> QED BY <1>1, <1>3, <1>4, <1>5, <1>6 DEF IInv

LEMMA WriteMemberStep ==
    ASSUME IInv, NEW r \in Requests, WriteMember(r)
    PROVE  IInv'
<1> DEFINE q == request[r]
<1>1. q.op \in {"setRole", "disable"} /\ q.op \in Ops /\ q.at = "write" /\ Commit(r)
  BY DEF WriteMember, At, Ops
<1>2. q \in Pending /\ Sound(q)
  BY <1>1, NotIdle DEF IInv, TypeOK, RequestInv
<1>o. PICK o \in Orgs, u \in Users : o = q.org /\ u = q.user
  BY <1>2 DEF Pending
<1> DEFINE row == member[o][u]
<1>3. /\ o \in Orgs /\ u \in Users /\ q.role \in Roles \cup {"none"}
      /\ q.op = "setRole" => q.role \in Roles
      /\ row # Stranger /\ row \in [role : Roles, active : BOOLEAN, signup : BOOLEAN]
  <2>1. o \in Orgs /\ u \in Users /\ q.role \in Roles \cup {"none"}
    BY <1>o, <1>2 DEF Pending
  <2>2. row # Stranger /\ (q.op = "setRole" => q.role \in Roles)
    BY <1>o, <1>1, <1>2 DEF Sound, Reads, Asked
  <2>3. row \in MemberRow
    BY <2>1 DEF IInv, TypeOK
  <2> QED BY <2>1, <2>2, <2>3 DEF MemberRow
<1>4. PICK new \in [role : Roles, active : BOOLEAN, signup : BOOLEAN] :
        /\ new.role = IF q.op = "setRole" THEN q.role ELSE row.role
        /\ new.active = (q.op = "setRole" /\ row.active)
        /\ new.signup = row.signup
        /\ member' = [member EXCEPT ![o][u] = new]
  <2>1. CASE q.op = "setRole"
    <3>1. member' = [member EXCEPT ![o][u] = [row EXCEPT !.role = q.role]]
      BY <1>o, <1>3, <2>1 DEF WriteMember
    <3> QED BY <1>o, <1>3, <2>1, <3>1
  <2>2. CASE q.op = "disable"
    <3>1. member' = [member EXCEPT ![o][u] = [row EXCEPT !.active = FALSE]]
      BY <1>o, <1>3, <2>2 DEF WriteMember
    <3> QED BY <1>o, <1>3, <2>2, <3>1
  <2> QED BY <1>o, <1>1, <2>1, <2>2
<1>5. /\ new # Stranger /\ new \in MemberRow
      /\ \A p \in Orgs, v \in Users :
           member'[p][v] = IF p = o /\ v = u THEN new ELSE member[p][v]
      /\ member' \in [Orgs -> [Users -> MemberRow]]
      /\ \A p \in Orgs \ {o} : member'[p] = member[p]
  <2>1. new # Stranger /\ new \in MemberRow
    BY DEF Stranger, MemberRow, Roles
  <2> QED BY <1>o, <1>3, <1>4, <2>1 DEF IInv, TypeOK
<1>6. /\ DOMAIN invites' = DOMAIN invites
      /\ \A i \in DOMAIN invites :
           invites'[i] = IF q.op = "disable" /\ i \in InvitesOf(o, u)
                         THEN [invites[i] EXCEPT !.outlived = TRUE] ELSE invites[i]
  BY <1>o DEF WriteMember
<1>7. \A i \in DOMAIN invites :
        /\ invites'[i] \in InviteRow
        /\ invites'[i].org = invites[i].org /\ invites'[i].user = invites[i].user
        /\ invites'[i].accepted = invites[i].accepted
        /\ ~(q.op = "disable" /\ i \in InvitesOf(o, u)) => invites'[i] = invites[i]
  <2>1. \A i \in DOMAIN invites : invites[i] \in InviteRow
    BY DEF IInv, TypeOK
  <2>2. \A x \in InviteRow : LET y == [x EXCEPT !.outlived = TRUE]
          IN y \in InviteRow /\ y.org = x.org /\ y.user = x.user /\ y.accepted = x.accepted
    BY DEF InviteRow
  <2> QED BY <1>o, <1>6, <2>1, <2>2
<1>8. invites' \in Seq(InviteRow)
  <2>1. invites' = [i \in 1..Len(invites) |-> invites'[i]] /\ Len(invites) \in Nat
    BY <1>o, <1>6 DEF WriteMember, IInv, TypeOK
  <2>2. \A i \in 1..Len(invites) : invites'[i] \in InviteRow
    BY <1>o, <1>7 DEF IInv, TypeOK
  <2> QED BY <2>1, <2>2
<1>9. Writes(r)
  BY <1>o, <1>3, <1>5, <1>6, <1>7, <1>8 DEF Writes, InvitesOf
<1>10. Founded(o) /\ Founded(o)'
  BY <1>o, <1>3, <1>5 DEF Founded
<1>11. q.stale \/ o \in raced \/ Owners(o)' # {}
  <2> SUFFICES ASSUME ~q.stale, o \notin raced
               PROVE  \E w \in Users : member'[o][w].active /\ member'[o][w].role = "owner"
    BY DEF Owners
  <2>1. q.found = row
    BY <1>o, <1>1, <1>2 DEF Sound, Reads
  <2>2. CASE row.role = "owner" /\ (q.op = "disable" \/ q.role # "owner")
    <3>1. \E w \in Owners(o) : w # u
      BY <1>o, <1>1, <1>2, <2>1, <2>2 DEF Sound, Counted
    <3> QED BY <1>o, <1>3, <1>5, <3>1 DEF Owners
  <2>3. CASE ~(row.role = "owner" /\ (q.op = "disable" \/ q.role # "owner"))
    <3>1. PICK w \in Owners(o) : TRUE
      BY <1>o, <1>3, <1>10 DEF IInv, KeepsAnOwner
    <3>2. w \in Users /\ member[o][w].active /\ member[o][w].role = "owner"
      BY <3>1 DEF Owners
    <3>3. CASE w # u
      BY <1>o, <1>3, <1>5, <3>2, <3>3
    <3>4. CASE w = u
      BY <1>o, <1>1, <1>3, <1>4, <1>5, <2>3, <3>2, <3>4
    <3> QED BY <3>3, <3>4
  <2> QED BY <2>2, <2>3
<1>12. q.stale \/ o \in raced \/
         \A v \in Users :
           /\ \A i \in DOMAIN invites' : Open(i, o, v)' => ~invites'[i].outlived /\ ~member'[o][v].active
           /\ \A i, j \in DOMAIN invites' : Open(i, o, v)' /\ Open(j, o, v)' => i = j
  <2> SUFFICES ASSUME ~q.stale, o \notin raced, NEW v \in Users
               PROVE  /\ \A i \in DOMAIN invites' : Open(i, o, v)' => ~invites'[i].outlived /\ ~member'[o][v].active
                      /\ \A i, j \in DOMAIN invites' : Open(i, o, v)' /\ Open(j, o, v)' => i = j
    OBVIOUS
  <2>1. \A i \in DOMAIN invites' : Open(i, o, v)' => i \in DOMAIN invites /\ Open(i, o, v)
    BY <1>o, <1>6, <1>7 DEF Open, InvitesOf
  <2>2. /\ \A i \in DOMAIN invites : Open(i, o, v) => ~invites[i].outlived /\ ~member[o][v].active
        /\ \A i, j \in DOMAIN invites : Open(i, o, v) /\ Open(j, o, v) => i = j
    BY <1>o, <1>3 DEF IInv, InviteInv
  <2>3. q.op = "disable" => row.active
    BY <1>o, <1>1, <1>2 DEF Sound, Reads
  <2>4. ASSUME NEW i \in DOMAIN invites, Open(i, o, v)
        PROVE  ~invites'[i].outlived /\ ~member'[o][v].active
    <3>1. ~(q.op = "disable" /\ v = u)
      BY <2>2, <2>3, <2>4
    <3>2. invites'[i] = invites[i]
      BY <1>o, <1>7, <2>4, <3>1 DEF Open, InvitesOf
    <3>3. member'[o][v].active => member[o][v].active
      BY <1>o, <1>3, <1>4, <1>5
    <3> QED BY <2>2, <2>4, <3>2, <3>3
  <2> QED BY <2>1, <2>2, <2>4
<1>13. \A v \in Users : SignedUp(o, v)' => SignedUp(o, v)
  BY <1>o, <1>3, <1>4, <1>5 DEF SignedUp
<1> HIDE DEF q, row
<1> QED
  <2>1. \A i \in DOMAIN invites' : invites'[i].org = o => Founded(o)'
    BY <1>o, <1>10
  <2> QED BY <1>o, <1>1, <1>2, <1>3, <1>9, <1>11, <1>12, <1>13, <2>1, CommitStep DEF q

LEMMA WriteInviteStep ==
    ASSUME IInv, NEW r \in Requests, WriteInvite(r)
    PROVE  IInv'
<1> DEFINE q == request[r]
<1>1. q.op = "invite" /\ q.op \in Ops /\ q.at = "write" /\ Commit(r) /\ member' = member
  BY DEF WriteInvite, At, Ops
<1>2. q \in Pending /\ Sound(q)
  BY <1>1, NotIdle DEF IInv, TypeOK, RequestInv
<1>o. PICK o \in Orgs, u \in Users : o = q.org /\ u = q.user
  BY <1>2 DEF Pending
<1>3. /\ q.role \in Roles /\ Founded(o) /\ Founded(o)'
      /\ ~q.stale => ~member[o][u].active
      /\ IF q.row = 0 THEN ~q.stale => \A i \in DOMAIN invites : ~Open(i, o, u)
                      ELSE q.row \in InvitesOf(o, u) /\ (~q.stale => ~invites[q.row].accepted)
  BY <1>o, <1>1, <1>2 DEF Sound, Reads, Asked, Founded
\* One row is written, k, which is new or was the same user's.
<1>4. PICK new \in InviteRow, k \in Nat :
        /\ new.org = o /\ new.user = u /\ ~new.outlived
        /\ k \in DOMAIN invites' /\ invites'[k] = new
        /\ invites' \in Seq(InviteRow) /\ DOMAIN invites' = DOMAIN invites \cup {k}
        /\ \A i \in DOMAIN invites : i # k => invites'[i] = invites[i]
        /\ k \in DOMAIN invites => k = q.row /\ k \in InvitesOf(o, u)
        /\ q.row # 0 => k = q.row
  <2> DEFINE new == [role |-> q.role, org |-> q.org, user |-> q.user, outlived |-> FALSE,
                     accepted |-> FALSE, expired |-> FALSE]
  <2>1. new \in InviteRow /\ new.org = o /\ new.user = u /\ ~new.outlived
    BY <1>o, <1>3 DEF InviteRow
  <2>2. invites \in Seq(InviteRow)
    BY DEF IInv, TypeOK
  <2>3. CASE q.row # 0
    <3>1. q.row \in InvitesOf(o, u) /\ q.row \in DOMAIN invites /\ q.row \in Nat
      BY <1>3, <2>2, <2>3 DEF InvitesOf
    <3>2. invites' = [invites EXCEPT ![q.row] = new]
      BY <2>3 DEF WriteInvite
    <3> HIDE DEF new
    <3>3. invites' \in Seq(InviteRow)
      BY <2>1, <2>2, <3>1, <3>2
    <3> QED BY <2>1, <2>2, <3>1, <3>2, <3>3
  <2>4. CASE q.row = 0
    <3>1. invites' = Append(invites, new)
      BY <2>4 DEF WriteInvite
    <3> HIDE DEF new
    <3>2. /\ invites' \in Seq(InviteRow) /\ Len(invites) \in Nat
          /\ DOMAIN invites = 1..Len(invites) /\ DOMAIN invites' = 1..(Len(invites) + 1)
          /\ invites'[Len(invites) + 1] = new
          /\ \A i \in DOMAIN invites : invites'[i] = invites[i]
      BY <2>1, <2>2, <3>1
    <3>3. DOMAIN invites' = DOMAIN invites \cup {Len(invites) + 1}
      BY <3>2
    <3> QED BY <2>1, <2>4, <3>2, <3>3
  <2> QED BY <2>3, <2>4
<1>5. Writes(r)
  <2>1. \A i \in DOMAIN invites :
          /\ invites'[i].org = invites[i].org /\ invites'[i].user = invites[i].user
          /\ invites[i].org # o => invites'[i] = invites[i]
    BY <1>4 DEF InvitesOf
  <2>2. member' \in [Orgs -> [Users -> MemberRow]]
    BY <1>1 DEF IInv, TypeOK
  <2> QED BY <1>o, <1>1, <1>4, <2>1, <2>2 DEF Writes
<1>6. q.stale \/ o \in raced \/ Owners(o)' # {}
  BY <1>1, <1>3 DEF IInv, KeepsAnOwner, Owners
<1>7. q.stale \/ o \in raced \/
         \A v \in Users :
           /\ \A i \in DOMAIN invites' : Open(i, o, v)' => ~invites'[i].outlived /\ ~member'[o][v].active
           /\ \A i, j \in DOMAIN invites' : Open(i, o, v)' /\ Open(j, o, v)' => i = j
  <2> SUFFICES ASSUME ~q.stale, o \notin raced, NEW v \in Users
               PROVE  /\ \A i \in DOMAIN invites' : Open(i, o, v)' => ~invites'[i].outlived /\ ~member'[o][v].active
                      /\ \A i, j \in DOMAIN invites' : Open(i, o, v)' /\ Open(j, o, v)' => i = j
    OBVIOUS
  <2>1. /\ \A i \in DOMAIN invites : Open(i, o, v) => ~invites[i].outlived /\ ~member[o][v].active
        /\ \A i, j \in DOMAIN invites : Open(i, o, v) /\ Open(j, o, v) => i = j
    BY DEF IInv, InviteInv
  <2>2. \A i \in DOMAIN invites' : Open(i, o, v)' => i = k \/ (i \in DOMAIN invites /\ i # k /\ Open(i, o, v))
    BY <1>4 DEF Open, InvitesOf
  <2>3. CASE v = u
    <3>1. \A i \in DOMAIN invites : Open(i, o, u) => i = k
      <4>1. CASE q.row = 0
        BY <1>3, <4>1
      <4>2. CASE q.row # 0
        <5>1. k = q.row /\ Open(k, o, u) /\ k \in DOMAIN invites
          BY <1>3, <1>4, <4>2 DEF Open, InvitesOf
        <5> QED BY <2>1, <2>3, <5>1
      <4> QED BY <4>1, <4>2
    <3> QED BY <1>1, <1>3, <1>4, <2>2, <2>3, <3>1
  <2>4. CASE v # u
    <3>1. ~Open(k, o, v)'
      BY <1>4, <2>4 DEF Open, InvitesOf
    <3> QED BY <1>1, <1>4, <2>1, <2>2, <3>1
  <2> QED BY <2>3, <2>4
<1>8. \A v \in Users : SignedUp(o, v)' => SignedUp(o, v)
  BY <1>1 DEF SignedUp
<1> HIDE DEF q
<1> QED BY <1>o, <1>1, <1>2, <1>3, <1>5, <1>6, <1>7, <1>8, CommitStep DEF q

LEMMA AcceptInviteStep ==
    ASSUME IInv, NEW r \in Requests, AcceptInvite(r)
    PROVE  IInv'
<1> DEFINE q == request[r]
<1>1. q.op = "login" /\ q.op \in Ops /\ q.at = "write" /\ Commit(r)
  BY DEF AcceptInvite, At, Ops
<1>2. q \in Pending /\ Sound(q)
  BY <1>1, NotIdle DEF IInv, TypeOK, RequestInv
<1>o. PICK o \in Orgs, u \in Users, k \in DOMAIN invites : o = q.org /\ u = q.user /\ k = q.row
  <2>1. q.row \in DOMAIN invites
    BY <1>1, <1>2 DEF Sound, Reads, InvitesOf
  <2> QED BY <1>2, <2>1 DEF Pending
<1>3. /\ invites[k] \in InviteRow /\ k \in InvitesOf(o, u) /\ Founded(o)
      /\ ~q.stale => ~member[o][u].active /\ ~invites[k].accepted
      /\ q.invite \in InviteRow
  <2>1. /\ k \in InvitesOf(o, u) /\ q.invite \in InviteRow
        /\ ~q.stale => ~member[o][u].active /\ ~invites[k].accepted
    BY <1>o, <1>1, <1>2 DEF Sound, Reads
  <2>2. Founded(o) /\ invites[k] \in InviteRow
    BY <1>o, <2>1 DEF IInv, InviteInv, TypeOK, InvitesOf
  <2> QED BY <2>1, <2>2
<1>4. PICK new \in MemberRow :
        /\ new # Stranger /\ new.active /\ ~new.signup
        /\ member' = [member EXCEPT ![o][u] = new]
  <2> DEFINE new == [role |-> q.invite.role, active |-> TRUE, signup |-> FALSE]
  <2>1. new \in MemberRow /\ new # Stranger /\ new.active /\ ~new.signup
    BY <1>3 DEF InviteRow, MemberRow, Stranger
  <2>2. member' = [member EXCEPT ![o][u] = new]
    BY <1>o DEF AcceptInvite
  <2> QED BY <2>1, <2>2
<1>5. /\ \A p \in Orgs, v \in Users :
           member'[p][v] = IF p = o /\ v = u THEN new ELSE member[p][v]
      /\ member' \in [Orgs -> [Users -> MemberRow]]
      /\ \A p \in Orgs \ {o} : member'[p] = member[p]
  BY <1>o, <1>4 DEF IInv, TypeOK
<1>6. PICK used \in InviteRow :
        /\ used.org = invites[k].org /\ used.user = invites[k].user /\ used.accepted
        /\ invites' = [invites EXCEPT ![k] = used]
  <2> DEFINE used == [invites[k] EXCEPT !.accepted = TRUE]
  <2>1. /\ used \in InviteRow /\ used.accepted
        /\ used.org = invites[k].org /\ used.user = invites[k].user
    BY <1>3 DEF InviteRow
  <2>2. invites' = [invites EXCEPT ![k] = used]
    BY <1>o DEF AcceptInvite
  <2> QED BY <2>1, <2>2
<1>7. /\ invites' \in Seq(InviteRow) /\ DOMAIN invites' = DOMAIN invites
      /\ \A i \in DOMAIN invites : invites'[i] = IF i = k THEN used ELSE invites[i]
  BY <1>o, <1>6 DEF IInv, TypeOK
<1>8. Writes(r)
  BY <1>o, <1>3, <1>4, <1>5, <1>6, <1>7 DEF Writes, InvitesOf
<1>9. q.stale \/ o \in raced \/ Owners(o)' # {}
  <2> SUFFICES ASSUME ~q.stale, o \notin raced
               PROVE  \E w \in Users : member'[o][w].active /\ member'[o][w].role = "owner"
    BY DEF Owners
  <2>1. PICK w \in Users : member[o][w].active /\ member[o][w].role = "owner"
    BY <1>o, <1>3 DEF IInv, KeepsAnOwner, Owners
  <2> QED BY <1>o, <1>3, <1>5, <2>1
<1>10. q.stale \/ o \in raced \/
         \A v \in Users :
           /\ \A i \in DOMAIN invites' : Open(i, o, v)' => ~invites'[i].outlived /\ ~member'[o][v].active
           /\ \A i, j \in DOMAIN invites' : Open(i, o, v)' /\ Open(j, o, v)' => i = j
  <2> SUFFICES ASSUME ~q.stale, o \notin raced, NEW v \in Users
               PROVE  /\ \A i \in DOMAIN invites' : Open(i, o, v)' => ~invites'[i].outlived /\ ~member'[o][v].active
                      /\ \A i, j \in DOMAIN invites' : Open(i, o, v)' /\ Open(j, o, v)' => i = j
    OBVIOUS
  <2>1. /\ \A i \in DOMAIN invites : Open(i, o, v) => ~invites[i].outlived /\ ~member[o][v].active
        /\ \A i, j \in DOMAIN invites : Open(i, o, v) /\ Open(j, o, v) => i = j
    BY <1>o DEF IInv, InviteInv
  <2>2. \A i \in DOMAIN invites' :
           Open(i, o, v)' => i \in DOMAIN invites /\ i # k /\ Open(i, o, v) /\ invites'[i] = invites[i]
    BY <1>6, <1>7 DEF Open, InvitesOf
  <2>3. v = u => Open(k, o, v)
    BY <1>3 DEF Open
  <2> QED BY <1>o, <1>5, <2>1, <2>2, <2>3
<1>11. \A v \in Users : SignedUp(o, v)' => SignedUp(o, v)
  BY <1>o, <1>4, <1>5 DEF SignedUp
<1>12. Founded(o)'
  BY <1>o, <1>4, <1>5 DEF Founded
<1> HIDE DEF q
<1> QED BY <1>o, <1>1, <1>2, <1>8, <1>9, <1>10, <1>11, <1>12, CommitStep DEF q

LEMMA CreateOrgStep ==
    ASSUME IInv, NEW r \in Requests, CreateOrg(r)
    PROVE  IInv'
<1> DEFINE q == request[r]
           new == [role |-> "owner", active |-> TRUE, signup |-> TRUE]
<1>1. q.op = "create" /\ q.op \in Ops /\ q.at = "write"
  BY DEF CreateOrg, At, Ops
<1>2. CASE Refuse(r)
  BY <1>2, RefuseStep
<1>3. ASSUME ~Founded(q.org), member' = [member EXCEPT ![q.org][q.user] = new],
             invites' = invites, Commit(r)
      PROVE  IInv'
  <2>1. q \in Pending
    BY <1>1, NotIdle DEF IInv, TypeOK
  <2>o. PICK o \in Orgs, u \in Users : o = q.org /\ u = q.user
    BY <2>1 DEF Pending
  <2>2. new \in MemberRow /\ new # Stranger
    BY DEF MemberRow, Roles, Stranger
  <2>3. /\ \A p \in Orgs, v \in Users :
             member'[p][v] = IF p = o /\ v = u THEN new ELSE member[p][v]
        /\ member' \in [Orgs -> [Users -> MemberRow]]
        /\ \A p \in Orgs \ {o} : member'[p] = member[p]
    <3> HIDE DEF new
    <3> QED BY <1>3, <2>o, <2>2 DEF IInv, TypeOK
  <2>4. /\ \A v \in Users : member[o][v] = Stranger
        /\ \A i \in DOMAIN invites : invites[i].org # o
    BY <1>3, <2>o DEF Founded, IInv, InviteInv
  <2>5. Writes(r)
    BY <1>3, <2>o, <2>3, <2>4 DEF Writes, IInv, TypeOK
  <2>6. Founded(o)' /\ Owners(o)' # {}
    <3>1. member'[o][u] = new
      BY <2>o, <2>3
    <3> QED BY <2>o, <2>2, <3>1 DEF Founded, Owners
  <2>7. \A v \in Users :
           /\ \A i \in DOMAIN invites' : Open(i, o, v)' => ~invites'[i].outlived /\ ~member'[o][v].active
           /\ \A i, j \in DOMAIN invites' : Open(i, o, v)' /\ Open(j, o, v)' => i = j
    BY <1>3, <2>4 DEF Open, InvitesOf
  <2>8. \A v \in Users : SignedUp(o, v)' => SignedUp(o, v) \/ Creating(r, v)
    <3>1. Creating(r, u)
      BY <1>1, <2>o DEF Creating, At
    <3> QED BY <2>o, <2>3, <3>1 DEF SignedUp
  <2> HIDE DEF q, new
  <2> QED BY <1>1, <1>3, <2>o, <2>1, <2>5, <2>6, <2>7, <2>8, CommitStep DEF q
<1> QED BY <1>2, <1>3 DEF CreateOrg

-----------------------------------------------------------------------------
LEMMA ExpireStep ==
    ASSUME IInv, NEW k \in DOMAIN invites, Expire(k)
    PROVE  IInv'
<1>1. UNCHANGED <<member, request, raced>> /\ invites[k] \in InviteRow /\ invites \in Seq(InviteRow)
  BY DEF Expire, IInv, TypeOK
<1>2. PICK late \in InviteRow :
        /\ late.org = invites[k].org /\ late.user = invites[k].user
        /\ late.accepted = invites[k].accepted /\ late.outlived = invites[k].outlived
        /\ invites' = [invites EXCEPT ![k] = late]
  <2> DEFINE late == [invites[k] EXCEPT !.expired = TRUE]
  <2>1. /\ late \in InviteRow /\ late.org = invites[k].org /\ late.user = invites[k].user
        /\ late.accepted = invites[k].accepted /\ late.outlived = invites[k].outlived
    BY <1>1 DEF InviteRow
  <2>2. invites' = [invites EXCEPT ![k] = late]
    BY DEF Expire
  <2> QED BY <2>1, <2>2
<1>3. /\ invites' \in Seq(InviteRow) /\ DOMAIN invites' = DOMAIN invites
      /\ \A i \in DOMAIN invites :
           /\ invites'[i].org = invites[i].org /\ invites'[i].user = invites[i].user
           /\ invites'[i].accepted = invites[i].accepted
           /\ invites'[i].outlived = invites[i].outlived
  BY <1>1, <1>2
<1>4. TypeOK'
  BY <1>1, <1>3 DEF IInv, TypeOK
<1>5. RequestInv'
  <2> SUFFICES ASSUME NEW x \in Requests
               PROVE  Sound(request[x])'
    BY DEF RequestInv
  <2>1. PICK q : q = request[x] /\ q = request'[x] /\ Sound(q)
    BY <1>1 DEF IInv, RequestInv
  <2>2. \A o, u : InvitesOf(o, u)' = InvitesOf(o, u)
    BY <1>3 DEF InvitesOf
  <2>3. \A i, o, u : Open(i, o, u)' <=> Open(i, o, u)
    BY <1>3 DEF Open, InvitesOf
  <2>4. \A i, o, u : i \in InvitesOf(o, u) => invites'[i].accepted = invites[i].accepted
    BY <1>3 DEF InvitesOf
  <2>5. Sound(q)'
    BY <1>1, <1>3, <2>1, <2>2, <2>3, <2>4 DEF Sound, Reads, Counted, Asked, Owners, Founded
  <2> QED BY <2>1, <2>5 DEF Sound, Reads, Counted, Asked
<1>6. KeepsAnOwner'
  BY <1>1 DEF IInv, KeepsAnOwner, Owners, Founded
<1>7. InviteInv'
  BY <1>1, <1>3 DEF IInv, InviteInv, Open, InvitesOf, Founded
<1>8. SignupInv'
  BY <1>1 DEF IInv, SignupInv, SignedUp, Creating, At
<1> QED BY <1>4, <1>5, <1>6, <1>7, <1>8 DEF IInv

LEMMA InitIInv == Init => IInv
<1> SUFFICES ASSUME Init PROVE IInv
  OBVIOUS
<1>1. ASSUME NEW o \in Orgs
      PROVE  /\ member[o] \in [Users -> MemberRow]
             /\ Founded(o) => Owners(o) # {}
             /\ \A u \in Users : SignedUp(o, u) => Founded(o)
  <2>1. member[o] \in Beginnings
    BY DEF Init
  <2>2. CASE member[o] = [u \in Users |-> Stranger]
    BY <2>2 DEF Founded, SignedUp, MemberRow, Stranger
  <2>3. ASSUME NEW S \in SUBSET Users, NEW f \in S,
               member[o] = [u \in Users |-> IF u \in S THEN [role |-> "owner", active |-> TRUE, signup |-> u = f]
                                            ELSE Stranger]
        PROVE  /\ member[o] \in [Users -> MemberRow]
               /\ Founded(o) => Owners(o) # {}
               /\ \A u \in Users : SignedUp(o, u) => Founded(o)
    <3>1. member[o] \in [Users -> MemberRow]
      BY <2>3 DEF MemberRow, Roles
    <3>2. f \in Users /\ member[o][f] = [role |-> "owner", active |-> TRUE, signup |-> TRUE]
      BY <2>3
    <3>3. f \in Owners(o)
      BY <3>2 DEF Owners
    <3>4. Founded(o)
      BY <3>2 DEF Founded, Stranger
    <3> QED BY <3>1, <3>3, <3>4
  <2>4. \/ member[o] = [u \in Users |-> Stranger]
        \/ \E S \in SUBSET Users : \E f \in S :
             member[o] = [u \in Users |-> IF u \in S THEN [role |-> "owner", active |-> TRUE, signup |-> u = f]
                                         ELSE Stranger]
    <3> DEFINE From(S, f) == [u \in Users |-> IF u \in S THEN [role |-> "owner", active |-> TRUE, signup |-> u = f]
                                             ELSE Stranger]
    <3>1. member[o] \in {[u \in Users |-> Stranger]} \cup UNION {{From(S, f) : f \in S} : S \in SUBSET Users}
      BY <2>1 DEF Beginnings
    <3> HIDE DEF From
    <3>2. member[o] = [u \in Users |-> Stranger] \/ \E S \in SUBSET Users : \E f \in S : member[o] = From(S, f)
      BY <3>1
    <3> QED BY <3>2 DEF From
  <2> QED BY <2>2, <2>3, <2>4
<1>2. TypeOK
  <2>1. member \in [Orgs -> [Users -> MemberRow]]
    BY <1>1 DEF Init
  <2> QED BY <2>1 DEF Init, TypeOK
<1>3. RequestInv
  BY IdleSound DEF Init, RequestInv
<1>4. KeepsAnOwner
  BY <1>1 DEF KeepsAnOwner
<1>5. InviteInv
  BY DEF Init, InviteInv, Open, InvitesOf
<1>6. \A o, p \in Orgs : Founded(o) /\ Founded(p) => o = p
  <2> DEFINE F == {o \in Orgs : Founded(o)}
  <2>1. IsFiniteSet(F) /\ Cardinality(F) <= 1
    BY MembershipAssumption, FS_Subset DEF Init
  <2> SUFFICES ASSUME NEW o \in Orgs, NEW p \in Orgs, Founded(o), Founded(p), o # p
               PROVE  FALSE
    OBVIOUS
  <2>2. Cardinality({p}) = 1 /\ IsFiniteSet({p})
    BY FS_Singleton
  <2>3. IsFiniteSet({o} \cup {p}) /\ Cardinality({p} \cup {o}) = 2
    BY <2>2, FS_AddElement
  <2>4. {p} \cup {o} \subseteq F
    OBVIOUS
  <2>5. Cardinality({p} \cup {o}) <= Cardinality(F)
    BY <2>1, <2>4, FS_Subset
  <2>6. Cardinality(F) \in Nat
    BY <2>1, FS_CardinalityType
  <2> QED BY <2>1, <2>3, <2>5, <2>6
<1>7. SignupInv
  BY <1>1, <1>6 DEF SignupInv, Creating, At, Init, Idle
<1> QED BY <1>2, <1>3, <1>4, <1>5, <1>7 DEF IInv

LEMMA Stuttering == IInv /\ UNCHANGED vars => IInv'
<1> SUFFICES ASSUME IInv, UNCHANGED vars PROVE IInv'
  OBVIOUS
<1>1. UNCHANGED <<member, invites, request, raced>>
  BY DEF vars
<1>2. TypeOK' /\ KeepsAnOwner'
  BY <1>1 DEF IInv, TypeOK, KeepsAnOwner, Owners, Founded
<1>3. RequestInv'
  BY <1>1 DEF IInv, RequestInv, Sound, Reads, Counted, Asked, Open, InvitesOf, Owners, Founded
<1>4. InviteInv' /\ SignupInv'
  BY <1>1 DEF IInv, InviteInv, SignupInv, Open, InvitesOf, Founded, SignedUp, Creating, At
<1> QED BY <1>2, <1>3, <1>4 DEF IInv

LEMMA NextStep == IInv /\ Next => IInv'
<1> SUFFICES ASSUME IInv, Next PROVE IInv'
  OBVIOUS
<1>1. ASSUME NEW r \in Requests, NEW o \in Orgs, NEW u \in Users, Login(r, o, u) \/ Create(r, o, u)
      PROVE  IInv'
  <2>1. CASE Login(r, o, u)
    BY <2>1, AskStep DEF Login, Ops
  <2>2. CASE Create(r, o, u)
    BY <2>2, AskStep DEF Create, Ops, Roles
  <2> QED BY <1>1, <2>1, <2>2
<1>2. ASSUME NEW r \in Requests, NEW o \in Orgs, NEW u \in Users, NEW a \in Users,
             \/ \E role \in Roles : Manage(r, o, a, u, "setRole", role)
             \/ Manage(r, o, a, u, "disable", "none")
             \/ \E role \in Roles : Invite(r, o, a, u, role)
      PROVE  IInv'
  BY <1>2, ManageStep DEF Roles
<1>3. ASSUME NEW r \in Requests,
             \/ ReadMember(r) \/ CountOwners(r) \/ WriteMember(r)
             \/ ReadInvited(r) \/ ReadPending(r) \/ WriteInvite(r)
             \/ ReadOwn(r) \/ FindInvite(r) \/ AcceptInvite(r) \/ AcceptTwice(r)
             \/ ReadActive(r) \/ CreateOrg(r)
      PROVE  IInv'
  <2>1. CASE AcceptTwice(r)
    BY <2>1, RefuseStep DEF AcceptTwice
  <2> QED BY <1>3, <2>1, ReadMemberStep, CountOwnersStep, WriteMemberStep, ReadInactiveStep,
             ReadPendingStep, WriteInviteStep, FindInviteStep, AcceptInviteStep,
             ReadActiveStep, CreateOrgStep
<1> QED BY <1>1, <1>2, <1>3, ExpireStep DEF Next

-----------------------------------------------------------------------------
(***************************************************************************)
(* Theorems                                                                *)
(***************************************************************************)
\* The inductive invariant holds of every run of OrgService.
THEOREM InvariantHolds == Spec => []IInv
<1>1. IInv /\ [Next]_vars => IInv'
  BY NextStep, Stuttering
<1> QED BY InitIInv, <1>1, PTL DEF Spec

\* Every founded org keeps an active owner, as assertNotLastActiveOwner means it
\* to, while no request decides on overtaken reads.
THEOREM KeepsAnOwnerHolds == Spec => []KeepsAnOwner
<1>1. IInv => KeepsAnOwner
  BY DEF IInv
<1> QED BY InvariantHolds, <1>1, PTL

\* The partial unique index on sign-up memberships is never run into: the lock
\* of createOrgForSubject and acceptPendingInvite see to it.
THEOREM OneSignupHolds == Spec => []OneSignup
<1>1. IInv => OneSignup
  <2> SUFFICES ASSUME IInv, NEW u \in Users
               PROVE  Cardinality({o \in Orgs : SignedUp(o, u)}) <= 1
    BY DEF OneSignup, SignedUp
  <2> DEFINE S == {o \in Orgs : SignedUp(o, u)}
  <2>1. CASE S = {}
    BY <2>1, FS_EmptySet
  <2>2. ASSUME NEW o \in S
        PROVE  Cardinality(S) <= 1
    <3>1. S = {o}
      BY DEF IInv, SignupInv
    <3> QED BY <3>1, FS_Singleton
  <2> QED BY <2>1, <2>2
<1> QED BY InvariantHolds, <1>1, PTL

\* A disabled member comes back only by the log-in that accepts an invite written
\* after the disabling, while no request decides on overtaken reads.
THEOREM DisabledStaysOutHolds == Spec => DisabledStaysOut
<1> DEFINE Back(o, u) == member[o][u] # Stranger /\ ~member[o][u].active /\ member'[o][u].active
           ByInvite(o, u) == \E r \in Requests :
             /\ At(r, {"login"}, "write") /\ ~invites[request[r].row].outlived
             /\ request[r].org = o /\ request[r].user = u /\ request'[r] = Idle
<1>1. ASSUME IInv, [Next]_vars, NEW o \in Orgs \ raced', NEW u \in Users, Back(o, u)
      PROVE  ByInvite(o, u)
  <2>1. member' # member
    BY <1>1
  <2>2. PICK r \in Requests : WriteMember(r) \/ AcceptInvite(r) \/ CreateOrg(r)
    <3>1. \A r \in Requests : \A x : Ask(r, x) \/ GoOn(r, x) => member' = member
      BY DEF Ask, GoOn
    <3>2. \A r \in Requests, p \in Orgs, a, v \in Users : \A op, role :
            Manage(r, p, a, v, op, role) \/ Invite(r, p, a, v, role) => member' = member
      BY <3>1 DEF Manage, Invite
    <3>3. \A r \in Requests, p \in Orgs, v \in Users :
            Login(r, p, v) \/ Create(r, p, v) => member' = member
      BY <3>1 DEF Login, Create
    <3>4. ASSUME NEW r \in Requests
          PROVE  /\ ReadMember(r) \/ CountOwners(r) => member' = member
                 /\ ReadInvited(r) \/ ReadPending(r) \/ WriteInvite(r) => member' = member
                 /\ ReadOwn(r) \/ FindInvite(r) \/ AcceptTwice(r) => member' = member
                 /\ ReadActive(r) => member' = member
      BY <3>1 DEF Refuse, ReadMember, CountOwners, ReadInvited, ReadPending, WriteInvite,
                  ReadOwn, FindInvite, AcceptTwice, ReadActive
    <3>5. \A i \in DOMAIN invites : Expire(i) => member' = member
      BY DEF Expire
    <3>6. UNCHANGED vars => member' = member
      BY DEF vars
    <3> QED BY <1>1, <2>1, <3>2, <3>3, <3>4, <3>5, <3>6 DEF Next
  <2> DEFINE q == request[r]
  <2>3. q.op \in Ops /\ q.at = "write"
    BY <2>2 DEF WriteMember, AcceptInvite, CreateOrg, At, Ops
  <2>4. q \in Pending /\ Sound(q)
    BY <1>1, <2>3, NotIdle DEF IInv, TypeOK, RequestInv
  <2>5. q.org \in Orgs /\ q.user \in Users
    BY <2>4 DEF Pending
  <2>6. member \in [Orgs -> [Users -> MemberRow]]
    BY <1>1 DEF IInv, TypeOK
  <2>7. CASE WriteMember(r)
    <3>1. member[q.org][q.user] \in MemberRow /\ member[q.org][q.user] # Stranger
      BY <2>4, <2>5, <2>6, <2>7 DEF Sound, Reads, WriteMember, At, Ops
    <3>2. member'[o][u].active = member[o][u].active \/ ~member'[o][u].active
      <4>1. CASE q.op = "setRole"
        <5>1. member' = [member EXCEPT ![q.org][q.user] = [member[q.org][q.user] EXCEPT !.role = q.role]]
          BY <2>5, <2>6, <2>7, <4>1 DEF WriteMember
        <5> QED BY <1>1, <2>5, <2>6, <3>1, <5>1 DEF MemberRow
      <4>2. CASE q.op = "disable"
        <5>1. member' = [member EXCEPT ![q.org][q.user] = [member[q.org][q.user] EXCEPT !.active = FALSE]]
          BY <2>5, <2>6, <2>7, <4>2 DEF WriteMember
        <5> QED BY <1>1, <2>5, <2>6, <3>1, <5>1 DEF MemberRow
      <4> QED BY <2>7, <4>1, <4>2 DEF WriteMember, At
    <3> QED BY <1>1, <3>2
  <2>8. CASE AcceptInvite(r)
    <3>1. q.op = "login" /\ Commit(r)
      BY <2>8 DEF AcceptInvite, At
    <3>2. o = q.org /\ u = q.user
      <4>1. member' = [member EXCEPT ![q.org][q.user] =
                         [role |-> q.invite.role, active |-> TRUE, signup |-> FALSE]]
        BY <2>8 DEF AcceptInvite
      <4> QED BY <1>1, <2>5, <2>6, <4>1
    <3>3. request'[r] = Idle /\ o \notin raced /\ ~q.stale
      BY <1>1, <3>1, <3>2 DEF Commit
    <3>4. q.row \in DOMAIN invites /\ Open(q.row, o, u)
      BY <2>3, <2>4, <3>1, <3>2, <3>3 DEF Sound, Reads, Open, InvitesOf
    <3>5. ~invites[q.row].outlived
      BY <1>1, <3>3, <3>4 DEF IInv, InviteInv
    <3> QED BY <2>3, <3>1, <3>2, <3>3, <3>5 DEF At
  <2>9. CASE CreateOrg(r)
    <3>1. CASE Founded(q.org)
      BY <2>1, <2>9, <3>1 DEF CreateOrg, Refuse, GoOn
    <3>2. CASE ~Founded(q.org)
      <4>1. member' = [member EXCEPT ![q.org][q.user] =
                         [role |-> "owner", active |-> TRUE, signup |-> TRUE]]
        BY <2>9, <3>2 DEF CreateOrg
      <4>2. o # q.org
        BY <1>1, <3>2 DEF Founded
      <4> QED BY <1>1, <2>5, <2>6, <4>1, <4>2
    <3> QED BY <3>1, <3>2
  <2> QED BY <2>2, <2>7, <2>8, <2>9
<1>2. IInv /\ [Next]_vars =>
        [\A o \in Orgs \ raced', u \in Users :
           member[o][u] # Stranger /\ ~member[o][u].active /\ member'[o][u].active
             => \E r \in Requests : At(r, {"login"}, "write") /\ ~invites[request[r].row].outlived
                  /\ request[r].org = o /\ request[r].user = u /\ request'[r] = Idle]_vars
  BY <1>1
<1> QED BY InvariantHolds, <1>2, PTL DEF Spec, DisabledStaysOut
=============================================================================
