--------------------------- MODULE MembershipProofs ---------------------------
(***************************************************************************)
(* What Membership promises for any accounts, workspaces, invites, limits  *)
(* and requests.  Handlers act on what they read earlier, so the invariant *)
(* says what of it still holds when they act.                              *)
(***************************************************************************)
EXTENDS Membership, FiniteSetTheorems, TLAPS

\* What a handler has read and can still rely on.
HandsSound ==
    \A r \in Requests :
        /\ req[r].op \in {"check", "join"} => req[r].who \in Users /\ req[r].on \in Invites
        /\ req[r].op = "consume" => req[r].on \in Invites
        /\ req[r].op = "refresh" => req[r].on \in Mails
        /\ req[r].op \in {"demote", "remove"} =>
             /\ req[r].who \in Users
             /\ req[r].on \in Workspaces \ fresh
             /\ role[req[r].on][req[r].who] # "OWNER"
        /\ req[r].op = "delete" => req[r].on \in Workspaces
        /\ req[r].op = "close" => req[r].who \in Users

\* A workspace that does not exist yet has no members, and Home exists, or did.
FreshIsEmpty ==
    /\ Home \notin fresh
    /\ \A w \in fresh, u \in Users : role[w][u] = "none"

\* What an invite's row says of the joins through it.
RowsCount ==
    /\ \A i \in Invites : invites[i].state = "unused" => invites[i].uses = 0 /\ joins[i] = 0
    /\ \A i \in Links : invites[i].state = "kept" => invites[i].uses = joins[i]
    /\ \A i \in Mails : joins[i] <= 1 /\ (invites[i].state # "gone" => joins[i] = 0)

-------------------------------------------------------------------------------
LEMMA InitParts ==
    Init => TypeOK /\ HandsSound /\ FreshIsEmpty /\ AtMostOneOwner /\ RowsCount
<1> SUFFICES ASSUME Init
             PROVE  TypeOK /\ HandsSound /\ FreshIsEmpty /\ AtMostOneOwner /\ RowsCount
  OBVIOUS
<1> USE PeopleAssumption, PlacesAssumption DEF Init, Idle
<1>1. TypeOK
  BY DEF TypeOK, Invites, Roles
<1>2. HandsSound
  BY DEF HandsSound
<1>3. FreshIsEmpty
  BY DEF FreshIsEmpty
<1>4. AtMostOneOwner
  BY DEF AtMostOneOwner
<1>5. RowsCount
  BY DEF RowsCount, Invites
<1> QED
  BY <1>1, <1>2, <1>3, <1>4, <1>5

Rows == [state : {"unused", "kept", "gone"}, expired : BOOLEAN, uses : Nat]

LEMMA RowsStayTyped ==
    ASSUME invites \in [Invites -> Rows], NEW i \in Invites
    PROVE  /\ \A s \in {"kept", "gone"} : [invites EXCEPT ![i].state = s] \in [Invites -> Rows]
           /\ [invites EXCEPT ![i].expired = TRUE] \in [Invites -> Rows]
           /\ [invites EXCEPT ![i] = [@ EXCEPT !.expired = FALSE, !.uses = 0]] \in [Invites -> Rows]
<1>1. invites[i] \in Rows
  OBVIOUS
<1>2. \A s \in {"kept", "gone"} : [invites[i] EXCEPT !.state = s] \in Rows
  BY <1>1 DEF Rows
<1>3. [invites[i] EXCEPT !.expired = TRUE] \in Rows
  BY <1>1 DEF Rows
<1>4. [invites[i] EXCEPT !.expired = FALSE, !.uses = 0] \in Rows
  BY <1>1 DEF Rows
<1> QED
  BY <1>2, <1>3, <1>4

LEMMA DropTyped ==
    ASSUME TypeOK, NEW S, NEW A, Drop(S, A)
    PROVE  /\ kept' \subseteq kept
           /\ role' \in [Workspaces -> [Users -> Roles]]
           /\ invites' \in [Invites -> Rows]
<1>1. kept' \subseteq kept
  BY DEF Drop
<1>2. role' \in [Workspaces -> [Users -> Roles]]
  BY DEF Drop, TypeOK, Roles
<1>3. \A i \in Invites : invites[i] \in Rows /\ [invites[i] EXCEPT !.state = "gone"] \in Rows
  BY DEF TypeOK, Rows
<1>4. invites' \in [Invites -> Rows]
  BY <1>3 DEF Drop
<1> QED
  BY <1>1, <1>2, <1>4

LEMMA NextTypeOK == TypeOK /\ HandsSound /\ [Next]_vars => TypeOK'
<1> SUFFICES ASSUME TypeOK, HandsSound, [Next]_vars PROVE TypeOK'
  OBVIOUS
<1> USE PeopleAssumption, PlacesAssumption DEF TypeOK, GoesOn, Done, Idle
<1>1. ASSUME NEW r \in Requests, NEW u \in Users, NEW i \in Invites, FindsInvite(r, u, i)
      PROVE  TypeOK'
  BY <1>1 DEF FindsInvite
<1>2. ASSUME NEW r \in Requests, ChecksMember(r) PROVE TypeOK'
  BY <1>2 DEF ChecksMember, HandsSound
<1>3. ASSUME NEW r \in Requests, Joins(r) PROVE TypeOK'
  <2>1. req[r].who \in Users /\ req[r].on \in Invites
    BY <1>3 DEF Joins, HandsSound
  <2>2. PICK m \in Assignable : role' = [role EXCEPT ![Home][req[r].who] = m]
    BY <1>3 DEF Joins
  <2>3. role' \in [Workspaces -> [Users -> Roles]]
    BY <2>1, <2>2 DEF Assignable, Roles
  <2>4. invites' \in [Invites -> [state : {"unused", "kept", "gone"}, expired : BOOLEAN, uses : Nat]]
    BY <1>3, <2>1 DEF Joins, Admitted
  <2> QED
    BY <1>3, <2>1, <2>3, <2>4 DEF Joins
<1>4. ASSUME NEW r \in Requests, Consumes(r) PROVE TypeOK'
  BY <1>4 DEF Consumes, HandsSound
<1>5. ASSUME NEW i \in Invites, MakesLink(i) \/ Revokes(i) \/ InviteExpires(i) PROVE TypeOK'
  <2>0. invites \in [Invites -> Rows]
    BY DEF Rows
  <2>1. invites' \in [Invites -> Rows]
    <3>1. CASE MakesLink(i)
      BY <2>0, <3>1, RowsStayTyped DEF MakesLink, Mint
    <3>2. CASE Revokes(i)
      BY <2>0, <3>2, RowsStayTyped DEF Revokes
    <3>3. CASE InviteExpires(i)
      BY <2>0, <3>3, RowsStayTyped DEF InviteExpires
    <3> QED
      BY <1>5, <3>1, <3>2, <3>3
  <2>2. UNCHANGED <<users, kept, fresh, role, req, joins>>
    BY <1>5 DEF MakesLink, Revokes, InviteExpires
  <2> QED
    BY <2>1, <2>2 DEF Rows
<1>6. ASSUME NEW r \in Requests, LooksForMail(r) PROVE TypeOK'
  <2>1. CASE \E i \in Mails : invites[i].state = "kept"
    <3>1. PICK i \in Mails : GoesOn(r, "refresh", None, i)
      BY <1>6, <2>1 DEF LooksForMail
    <3>2. i \in Invites
      BY DEF Invites
    <3> QED
      BY <1>6, <3>1, <3>2 DEF LooksForMail
  <2>2. CASE ~ \E i \in Mails : invites[i].state = "kept"
    <3>1. GoesOn(r, "mint", None, None) /\ UNCHANGED <<users, kept, fresh, role, invites, joins>>
      BY <1>6, <2>2, Zenon DEF LooksForMail
    <3> QED
      BY <3>1
  <2> QED
    BY <2>1, <2>2
<1>7. ASSUME NEW r \in Requests, RefreshesMail(r) PROVE TypeOK'
  <2>1. req[r].on \in Invites
    BY <1>7 DEF RefreshesMail, HandsSound, Invites
  <2>2. invites' \in [Invites -> Rows]
    BY <1>7, <2>1, RowsStayTyped DEF RefreshesMail, Rows
  <2> QED
    BY <1>7, <2>2 DEF RefreshesMail, Rows
<1>8. ASSUME NEW r \in Requests, NEW i \in Invites, MintsMail(r, i) PROVE TypeOK'
  <2>1. invites' \in [Invites -> Rows]
    BY <1>8, RowsStayTyped DEF MintsMail, Mint, Rows
  <2> QED
    BY <1>8, <2>1 DEF MintsMail, Rows
<1>9. ASSUME NEW r \in Requests, NEW op \in {"demote", "remove"}, NEW w \in Workspaces,
             NEW u \in Users, LooksAtMember(r, op, w, u)
      PROVE  TypeOK'
  BY <1>9 DEF LooksAtMember
<1>10. ASSUME NEW r \in Requests, ChangesRole(r) PROVE TypeOK'
  <2>1. PICK m \in Assignable : role' = [role EXCEPT ![req[r].on][req[r].who] = m]
    BY <1>10 DEF ChangesRole
  <2> QED
    BY <1>10, <2>1 DEF ChangesRole, HandsSound, Assignable, Roles
<1>11. ASSUME NEW r \in Requests, RemovesMember(r) PROVE TypeOK'
  BY <1>11 DEF RemovesMember, HandsSound, Roles
<1>12. ASSUME NEW u \in Users, NEW w \in Workspaces, CreatesWorkspace(u, w) PROVE TypeOK'
  BY <1>12 DEF CreatesWorkspace, Roles
<1>13. ASSUME NEW r \in Requests, NEW u \in Users, NEW w \in Workspaces, LooksAtOwner(r, u, w)
       PROVE  TypeOK'
  BY <1>13 DEF LooksAtOwner
<1>14. ASSUME NEW r \in Requests, DeletesWorkspace(r) PROVE TypeOK'
  <2>1. Drop({req[r].on}, {}) /\ Done(r) /\ UNCHANGED <<users, fresh, joins>>
    BY <1>14 DEF DeletesWorkspace
  <2>2. kept' \subseteq kept /\ role' \in [Workspaces -> [Users -> Roles]] /\ invites' \in [Invites -> Rows]
    BY <2>1, DropTyped
  <2> QED
    BY <2>1, <2>2 DEF Rows
<1>15. ASSUME NEW r \in Requests, NEW u \in Users, LooksAtAccount(r, u) PROVE TypeOK'
  BY <1>15 DEF LooksAtAccount, Owned
<1>16. ASSUME NEW r \in Requests, ClosesAccount(r) PROVE TypeOK'
  <2>1. Drop(req[r].owned, {req[r].who}) /\ Done(r) /\ UNCHANGED <<fresh, joins>>
        /\ users' \subseteq users
    BY <1>16 DEF ClosesAccount
  <2>2. kept' \subseteq kept /\ role' \in [Workspaces -> [Users -> Roles]] /\ invites' \in [Invites -> Rows]
    BY <2>1, DropTyped
  <2> QED
    BY <2>1, <2>2 DEF Rows
<1>17. ASSUME NEW r \in Requests, Fails(r) PROVE TypeOK'
  BY <1>17 DEF Fails
<1>18. CASE UNCHANGED vars
  BY <1>18 DEF vars
<1> QED
  BY <1>1, <1>2, <1>3, <1>4, <1>5, <1>6, <1>7, <1>8, <1>9, <1>10, <1>11, <1>12, <1>13,
     <1>14, <1>15, <1>16, <1>17, <1>18 DEF Next

-------------------------------------------------------------------------------
\* How ownership moves in a step: an owner is made only by creating a workspace, and
\* ceases to be one only with the workspace or the account.
OwnersAreMadeFresh ==
    \A w \in Workspaces, u \in Users : role'[w][u] = "OWNER" /\ role[w][u] # "OWNER" =>
        /\ w \in fresh \ fresh'
        /\ \A v \in Users \ {u} : role'[w][v] = role[w][v]

OwnersStay ==
    \A w \in Workspaces, u \in Users :
        role[w][u] = "OWNER" /\ role'[w][u] # "OWNER" => w \notin kept' \/ u \notin users'

FreshStaysEmpty ==
    /\ fresh' \subseteq fresh
    /\ \A w \in fresh', u \in Users : role'[w][u] = "none"

GoodMove == OwnersAreMadeFresh /\ OwnersStay /\ FreshStaysEmpty

LEMMA SameRolesGoodMove ==
    ASSUME FreshIsEmpty, UNCHANGED <<role, fresh>> PROVE GoodMove
BY DEF FreshIsEmpty, GoodMove, OwnersAreMadeFresh, OwnersStay, FreshStaysEmpty

LEMMA DropGoodMove ==
    ASSUME TypeOK, FreshIsEmpty, NEW S, NEW A, Drop(S, A), UNCHANGED fresh, users' \cap A = {}
    PROVE  GoodMove
<1>1. \A w \in Workspaces, u \in Users :
        role'[w][u] = IF w \in S \/ u \in A THEN "none" ELSE role[w][u]
  BY DEF Drop
<1>2. kept' = kept \ S /\ fresh \subseteq Workspaces
  BY DEF Drop, TypeOK
<1> QED
  BY <1>1, <1>2 DEF FreshIsEmpty, GoodMove, OwnersAreMadeFresh, OwnersStay, FreshStaysEmpty

\* Writing one row that is not an owner's to something that is not ownership.
LEMMA PlainWriteGoodMove ==
    ASSUME TypeOK, FreshIsEmpty, NEW w \in Workspaces \ fresh, NEW u \in Users,
           NEW m \in {"none", "MEMBER"}, role[w][u] # "OWNER",
           role' = [role EXCEPT ![w][u] = m], UNCHANGED fresh
    PROVE  GoodMove
<1>1. \A x \in Workspaces, v \in Users :
        role'[x][v] = IF x = w /\ v = u THEN m ELSE role[x][v]
  BY DEF TypeOK
<1>2. fresh \subseteq Workspaces
  BY DEF TypeOK
<1> QED
  BY <1>1, <1>2 DEF FreshIsEmpty, GoodMove, OwnersAreMadeFresh, OwnersStay, FreshStaysEmpty

LEMMA NextGoodMove ==
    ASSUME TypeOK, HandsSound, FreshIsEmpty, [Next]_vars PROVE GoodMove
<1>1. ASSUME NEW r \in Requests, Joins(r) PROVE GoodMove
  <2>1. PICK m \in Assignable : role' = [role EXCEPT ![Home][req[r].who] = m]
    BY <1>1 DEF Joins
  <2>2. role[Home][req[r].who] = "none" /\ req[r].who \in Users /\ UNCHANGED fresh
    BY <1>1 DEF Joins, CanJoin, HandsSound
  <2>3. Home \in Workspaces \ fresh
    BY PlacesAssumption DEF FreshIsEmpty
  <2> QED
    BY <2>1, <2>2, <2>3, PlainWriteGoodMove DEF Assignable
<1>2. ASSUME NEW r \in Requests, ChangesRole(r) PROVE GoodMove
  <2>1. PICK m \in Assignable : role' = [role EXCEPT ![req[r].on][req[r].who] = m]
    BY <1>2 DEF ChangesRole
  <2>2. /\ req[r].on \in Workspaces \ fresh /\ req[r].who \in Users
        /\ role[req[r].on][req[r].who] # "OWNER" /\ UNCHANGED fresh
    BY <1>2 DEF ChangesRole, HandsSound
  <2> QED
    BY <2>1, <2>2, PlainWriteGoodMove DEF Assignable
<1>3. ASSUME NEW r \in Requests, RemovesMember(r) PROVE GoodMove
  <2>1. /\ req[r].on \in Workspaces \ fresh /\ req[r].who \in Users
        /\ role[req[r].on][req[r].who] # "OWNER" /\ UNCHANGED fresh
        /\ role' = [role EXCEPT ![req[r].on][req[r].who] = "none"]
    BY <1>3 DEF RemovesMember, HandsSound
  <2> QED
    BY <2>1, PlainWriteGoodMove
<1>4. ASSUME NEW u \in Users, NEW w \in Workspaces, CreatesWorkspace(u, w) PROVE GoodMove
  <2>1. w \in fresh /\ fresh' = fresh \ {w} /\ fresh \subseteq Workspaces
    BY <1>4 DEF CreatesWorkspace, TypeOK
  <2>2. \A x \in Workspaces, v \in Users :
          role'[x][v] = IF x = w /\ v = u THEN "OWNER" ELSE role[x][v]
    BY <1>4 DEF CreatesWorkspace, TypeOK
  <2> QED
    BY <2>1, <2>2 DEF FreshIsEmpty, GoodMove, OwnersAreMadeFresh, OwnersStay, FreshStaysEmpty
<1>5. ASSUME NEW r \in Requests, DeletesWorkspace(r) PROVE GoodMove
  <2>1. Drop({req[r].on}, {}) /\ UNCHANGED fresh
    BY <1>5 DEF DeletesWorkspace
  <2> QED
    BY <2>1, DropGoodMove
<1>6. ASSUME NEW r \in Requests, ClosesAccount(r) PROVE GoodMove
  <2>1. Drop(req[r].owned, {req[r].who}) /\ UNCHANGED fresh /\ users' = users \ {req[r].who}
    BY <1>6 DEF ClosesAccount
  <2> QED
    BY <2>1, DropGoodMove
<1>7. CASE \/ \E r \in Requests, u \in Users, i \in Invites : FindsInvite(r, u, i)
           \/ \E r \in Requests : ChecksMember(r) \/ Consumes(r)
           \/ \E r \in Requests, u \in Users, w \in Workspaces : LooksAtOwner(r, u, w)
           \/ \E r \in Requests, u \in Users : LooksAtAccount(r, u)
  <2>1. UNCHANGED <<role, fresh>>
    BY <1>7 DEF FindsInvite, ChecksMember, Consumes, LooksAtOwner, LooksAtAccount
  <2> QED
    BY <2>1, SameRolesGoodMove
<1>8. CASE \/ \E i \in Invites : MakesLink(i) \/ Revokes(i) \/ InviteExpires(i)
           \/ \E r \in Requests : LooksForMail(r) \/ RefreshesMail(r) \/ Fails(r)
           \/ \E r \in Requests, i \in Invites : MintsMail(r, i)
           \/ \E r \in Requests, op \in {"demote", "remove"}, w \in Workspaces, u \in Users :
                LooksAtMember(r, op, w, u)
  <2>1. UNCHANGED <<role, fresh>>
    BY <1>8 DEF MakesLink, Revokes, InviteExpires, LooksForMail, RefreshesMail, Fails, MintsMail,
                LooksAtMember
  <2> QED
    BY <2>1, SameRolesGoodMove
<1>9. CASE UNCHANGED vars
  BY <1>9, SameRolesGoodMove DEF vars
<1> QED
  BY <1>1, <1>2, <1>3, <1>4, <1>5, <1>6, <1>7, <1>8, <1>9 DEF Next

\* A move like that leaves a workspace with one owner at most.
LEMMA GoodMoveOneOwner ==
    ASSUME FreshIsEmpty, AtMostOneOwner, GoodMove PROVE AtMostOneOwner' /\ FreshIsEmpty'
<1>1. FreshIsEmpty'
  BY DEF FreshIsEmpty, GoodMove, FreshStaysEmpty
<1>2. ASSUME NEW w \in Workspaces, NEW u \in Users, NEW v \in Users,
             role'[w][u] = "OWNER", role'[w][v] = "OWNER"
      PROVE  u = v
  <2>1. CASE role[w][u] = "OWNER" /\ role[w][v] = "OWNER"
    BY <2>1 DEF AtMostOneOwner
  <2>2. CASE role[w][u] # "OWNER"
    BY <1>2, <2>2 DEF FreshIsEmpty, GoodMove, OwnersAreMadeFresh
  <2>3. CASE role[w][v] # "OWNER"
    BY <1>2, <2>3 DEF FreshIsEmpty, GoodMove, OwnersAreMadeFresh
  <2> QED
    BY <2>1, <2>2, <2>3
<1> QED
  BY <1>1, <1>2 DEF AtMostOneOwner

\* What a handler relies on outlives the steps of the others.
Sound(h) ==
    /\ h.op \in {"check", "join"} => h.who \in Users /\ h.on \in Invites
    /\ h.op = "consume" => h.on \in Invites
    /\ h.op = "refresh" => h.on \in Mails
    /\ h.op \in {"demote", "remove"} =>
         /\ h.who \in Users
         /\ h.on \in Workspaces \ fresh
         /\ role[h.on][h.who] # "OWNER"
    /\ h.op = "delete" => h.on \in Workspaces
    /\ h.op = "close" => h.who \in Users

LEMMA GoodMoveKeepsHands ==
    ASSUME HandsSound, GoodMove, NEW r \in Requests, req'[r] = req[r] PROVE Sound(req[r])'
BY DEF HandsSound, Sound, GoodMove, OwnersAreMadeFresh, FreshStaysEmpty

\* Beginning or going on with something.
LEMMA NewHands ==
    ASSUME TypeOK, HandsSound, FreshIsEmpty, [Next]_vars,
           NEW r \in Requests, req'[r] # req[r], req'[r] # Idle
    PROVE  Sound(req[r])'
<1> USE DEF TypeOK, GoesOn
<1>1. ASSUME NEW s \in Requests, NEW u \in Users, NEW i \in Invites, FindsInvite(s, u, i)
      PROVE  Sound(req[r])'
  BY <1>1 DEF FindsInvite, Sound
<1>2. ASSUME NEW s \in Requests, ChecksMember(s) PROVE Sound(req[r])'
  BY <1>2 DEF ChecksMember, Done, HandsSound, Sound
<1>3. ASSUME NEW s \in Requests, LooksForMail(s) PROVE Sound(req[r])'
  BY <1>3 DEF LooksForMail, Sound
<1>4. ASSUME NEW s \in Requests, NEW op \in {"demote", "remove"}, NEW w \in Workspaces,
             NEW u \in Users, LooksAtMember(s, op, w, u)
      PROVE  Sound(req[r])'
  BY <1>4 DEF LooksAtMember, Touchable, Sound, FreshIsEmpty
<1>5. ASSUME NEW s \in Requests, NEW u \in Users, NEW w \in Workspaces, LooksAtOwner(s, u, w)
      PROVE  Sound(req[r])'
  BY <1>5 DEF LooksAtOwner, Sound
<1>6. ASSUME NEW s \in Requests, NEW u \in Users, LooksAtAccount(s, u) PROVE Sound(req[r])'
  BY <1>6 DEF LooksAtAccount, Sound
<1>7. CASE \E s \in Requests : \/ Joins(s) \/ Consumes(s) \/ RefreshesMail(s) \/ ChangesRole(s)
                               \/ RemovesMember(s) \/ DeletesWorkspace(s) \/ ClosesAccount(s)
                               \/ Fails(s) \/ \E i \in Invites : MintsMail(s, i)
  BY <1>7 DEF Joins, Consumes, RefreshesMail, ChangesRole, RemovesMember, DeletesWorkspace,
              ClosesAccount, Fails, MintsMail, Done
<1>8. CASE \/ \E i \in Invites : MakesLink(i) \/ Revokes(i) \/ InviteExpires(i)
           \/ \E u \in Users, w \in Workspaces : CreatesWorkspace(u, w)
           \/ UNCHANGED vars
  BY <1>8 DEF MakesLink, Revokes, InviteExpires, CreatesWorkspace, vars
<1> QED
  BY <1>1, <1>2, <1>3, <1>4, <1>5, <1>6, <1>7, <1>8 DEF Next

LEMMA NextHandsSound ==
    ASSUME TypeOK, HandsSound, FreshIsEmpty, [Next]_vars PROVE HandsSound'
<1>1. ASSUME NEW r \in Requests PROVE Sound(req[r])'
  <2>1. CASE req'[r] = req[r]
    BY <2>1, NextGoodMove, GoodMoveKeepsHands
  <2>2. CASE req'[r] # req[r] /\ req'[r] # Idle
    BY <2>2, NewHands
  <2>3. CASE req'[r] = Idle
    BY <2>3 DEF Sound, Idle
  <2> QED
    BY <2>1, <2>2, <2>3
<1> QED
  BY <1>1 DEF HandsSound, Sound

-------------------------------------------------------------------------------
\* What one invite and its joins look like, row by row.
RowCounts(i) ==
    /\ invites[i].state = "unused" => invites[i].uses = 0 /\ joins[i] = 0
    /\ i \in Links /\ invites[i].state = "kept" => invites[i].uses = joins[i]
    /\ i \in Mails => joins[i] <= 1 /\ (invites[i].state # "gone" => joins[i] = 0)

LEMMA RowsCountEach ==
    /\ RowsCount => \A i \in Invites : RowCounts(i)
    /\ (\A i \in Invites : RowCounts(i)') => RowsCount'
<1>1. RowsCount => \A i \in Invites : RowCounts(i)
  BY DEF RowsCount, RowCounts, Invites
<1>2. (\A i \in Invites : RowCounts(i)') => RowsCount'
  BY DEF RowsCount, RowCounts, Invites
<1> QED
  BY <1>1, <1>2

\* A row that is as before.
LEMMA SameRowCounts ==
    ASSUME NEW i \in Invites, RowCounts(i), joins'[i] = joins[i], invites'[i] = invites[i]
    PROVE  RowCounts(i)'
BY DEF RowCounts

LEMMA GoneRowCounts ==
    ASSUME NEW i \in Invites, RowCounts(i), joins'[i] = joins[i], invites'[i].state = "gone"
    PROVE  RowCounts(i)'
BY DEF RowCounts

\* A row that has just been minted.
LEMMA NewRowCounts ==
    ASSUME NEW i \in Invites, RowCounts(i), invites[i].state = "unused",
           joins'[i] = joins[i], invites'[i].state = "kept", invites'[i].uses = invites[i].uses
    PROVE  RowCounts(i)'
BY DEF RowCounts

LEMMA SameStateCounts ==
    ASSUME NEW i \in Invites, RowCounts(i), joins'[i] = joins[i],
           invites'[i].state = invites[i].state, invites'[i].uses = invites[i].uses
    PROVE  RowCounts(i)'
BY DEF RowCounts

LEMMA NextRowCounts ==
    ASSUME TypeOK, HandsSound, NEW i \in Invites, RowCounts(i), [Next]_vars
    PROVE  RowCounts(i)'
<1>0. invites \in [Invites -> Rows] /\ joins \in [Invites -> Nat]
  BY DEF TypeOK, Rows
<1>1. ASSUME NEW r \in Requests, Joins(r) PROVE RowCounts(i)'
  <2>1. PICK k \in Invites : k = req[r].on
    BY <1>1 DEF Joins, HandsSound
  <2>2. /\ invites[k].state = "kept"
        /\ invites' = [invites EXCEPT ![k] = Admitted(k)]
        /\ joins' = [joins EXCEPT ![k] = @ + 1]
    BY <1>1, <2>1 DEF Joins, CanJoin
  <2>3. CASE i = k /\ k \in Links
    BY <1>0, <2>2, <2>3, PlacesAssumption DEF Admitted, RowCounts, Rows
  <2>4. CASE i = k /\ k \notin Links
    BY <1>0, <2>2, <2>4 DEF Admitted, RowCounts, Rows
  <2>5. CASE i # k
    BY <1>0, <2>2, <2>5, SameRowCounts
  <2> QED
    BY <2>3, <2>4, <2>5
<1>2. ASSUME NEW r \in Requests, RefreshesMail(r) PROVE RowCounts(i)'
  <2>1. PICK k \in Mails : k = req[r].on
    BY <1>2 DEF RefreshesMail, HandsSound
  <2>2. /\ invites[k].state = "kept" /\ k \in Invites
        /\ invites' = [invites EXCEPT ![k] = [@ EXCEPT !.expired = FALSE, !.uses = 0]]
        /\ joins' = joins
    BY <1>2, <2>1 DEF RefreshesMail, Invites
  <2>3. CASE i = k
    BY <1>0, <2>1, <2>2, <2>3, PlacesAssumption DEF RowCounts, Rows
  <2>4. CASE i # k
    BY <1>0, <2>2, <2>4, SameRowCounts
  <2> QED
    BY <2>3, <2>4
<1>3. ASSUME NEW k \in Invites, Mint(k), UNCHANGED joins PROVE RowCounts(i)'
  <2>1. CASE i = k
    BY <1>0, <1>3, <2>1, NewRowCounts DEF Mint, Rows
  <2>2. CASE i # k
    BY <1>0, <1>3, <2>2, SameRowCounts DEF Mint
  <2> QED
    BY <2>1, <2>2
<1>4. ASSUME NEW k \in Invites, invites' = [invites EXCEPT ![k].state = "gone"], UNCHANGED joins
      PROVE  RowCounts(i)'
  <2>1. CASE i = k
    BY <1>0, <1>4, <2>1, GoneRowCounts DEF Rows
  <2>2. CASE i # k
    BY <1>0, <1>4, <2>2, SameRowCounts
  <2> QED
    BY <2>1, <2>2
<1>5. ASSUME NEW k \in Invites, InviteExpires(k) PROVE RowCounts(i)'
  <2>1. invites'[i].state = invites[i].state /\ invites'[i].uses = invites[i].uses /\ joins' = joins
    BY <1>0, <1>5 DEF InviteExpires, Rows
  <2> QED
    BY <2>1, SameStateCounts
<1>6. ASSUME NEW S, NEW A, Drop(S, A), UNCHANGED joins PROVE RowCounts(i)'
  <2>1. CASE Home \in S /\ invites[i].state = "kept"
    BY <1>0, <1>6, <2>1, GoneRowCounts DEF Drop, Rows
  <2>2. CASE ~(Home \in S /\ invites[i].state = "kept")
    BY <1>6, <2>2, SameRowCounts DEF Drop
  <2> QED
    BY <2>1, <2>2
<1>7. ASSUME UNCHANGED <<invites, joins>> PROVE RowCounts(i)'
  BY <1>7, SameRowCounts
<1>8. ASSUME NEW k \in Invites, MakesLink(k) \/ Revokes(k) PROVE RowCounts(i)'
  BY <1>3, <1>4, <1>8 DEF MakesLink, Revokes
<1>9. ASSUME NEW r \in Requests, Consumes(r) PROVE RowCounts(i)'
  <2>1. PICK k \in Invites : k = req[r].on
    BY <1>9 DEF Consumes, HandsSound, Invites
  <2> QED
    BY <1>4, <1>9, <2>1 DEF Consumes
<1>10. ASSUME NEW r \in Requests, NEW k \in Invites, MintsMail(r, k) PROVE RowCounts(i)'
  BY <1>3, <1>10 DEF MintsMail
<1>11. ASSUME NEW r \in Requests, DeletesWorkspace(r) \/ ClosesAccount(r) PROVE RowCounts(i)'
  BY <1>6, <1>11 DEF DeletesWorkspace, ClosesAccount
<1>12. CASE \/ \E r \in Requests, u \in Users, k \in Invites : FindsInvite(r, u, k)
            \/ \E r \in Requests : ChecksMember(r) \/ LooksForMail(r) \/ Fails(r)
            \/ \E r \in Requests : ChangesRole(r) \/ RemovesMember(r)
  BY <1>7, <1>12 DEF FindsInvite, ChecksMember, LooksForMail, Fails, ChangesRole, RemovesMember
<1>13. CASE \/ \E r \in Requests, op \in {"demote", "remove"}, w \in Workspaces, u \in Users :
                 LooksAtMember(r, op, w, u)
            \/ \E u \in Users, w \in Workspaces : CreatesWorkspace(u, w)
            \/ \E r \in Requests, u \in Users, w \in Workspaces : LooksAtOwner(r, u, w)
            \/ \E r \in Requests, u \in Users : LooksAtAccount(r, u)
            \/ UNCHANGED vars
  BY <1>7, <1>13 DEF LooksAtMember, CreatesWorkspace, LooksAtOwner, LooksAtAccount, vars
<1> QED
  BY <1>1, <1>2, <1>5, <1>8, <1>9, <1>10, <1>11, <1>12, <1>13 DEF Next

LEMMA NextRowsCount ==
    ASSUME TypeOK, HandsSound, RowsCount, [Next]_vars PROVE RowsCount'
BY RowsCountEach, NextRowCounts

-------------------------------------------------------------------------------
\* The requests that are on their way from the test of i's limit to its transaction.
Passing(i) == {r \in Requests : req[r].op \in {"check", "join"} /\ req[r].on = i}

\* When the limit was last tested there was room, and at most all requests are on the way.
RoomAtTheTest ==
    \A i \in Links : Cardinality(Passing(i)) + joins[i] + 1 <= MaxUses + Cardinality(Requests)

LEMMA PassingIsFinite ==
    ASSUME NEW S \in SUBSET Requests, NEW T \in SUBSET S
    PROVE  Cardinality(T) \in Nat /\ Cardinality(S) \in Nat /\ Cardinality(T) <= Cardinality(S)
BY UsesAssumption, FS_Subset, FS_CardinalityType

LEMMA InitRoomAtTheTest == Init => RoomAtTheTest
<1> SUFFICES ASSUME Init, NEW i \in Links
             PROVE  Cardinality(Passing(i)) + joins[i] + 1 <= MaxUses + Cardinality(Requests)
  BY DEF RoomAtTheTest
<1>1. Passing(i) = {}
  BY DEF Init, Passing, Idle
<1>2. Cardinality({}) = 0 /\ Cardinality(Requests) \in Nat
  BY UsesAssumption, FS_EmptySet, FS_CardinalityType
<1>3. joins[i] = 0
  BY DEF Init, Invites
<1> QED
  BY <1>1, <1>2, <1>3, UsesAssumption

\* What a request goes on with unless it is an acceptance that begins.
SmallStep ==
    \A r \in Requests :
        \/ req'[r] = req[r]
        \/ req'[r].op \notin {"check", "join"}
        \/ req[r].op = "check" /\ req'[r].on = req[r].on

LEMMA SmallStepPasses ==
    ASSUME SmallStep, NEW i \in Links PROVE Passing(i)' \subseteq Passing(i)
BY DEF SmallStep, Passing

LEMMA NextSmallStep ==
    ASSUME TypeOK, HandsSound, [Next]_vars,
           ~ \E r \in Requests, u \in Users, i \in Invites : FindsInvite(r, u, i) /\ ~invites[i].expired
    PROVE  SmallStep
<1> USE DEF TypeOK, GoesOn, Done, Idle
<1>1. ASSUME NEW r \in Requests, NEW u \in Users, NEW i \in Invites, FindsInvite(r, u, i)
      PROVE  SmallStep
  <2>1. invites[i].expired
    BY <1>1
  <2>2. req' = [req EXCEPT ![r] = [op |-> "consume", who |-> u, on |-> i, owned |-> {}]]
    BY <1>1, <2>1 DEF FindsInvite
  <2> QED
    BY <2>2 DEF SmallStep
<1>2. ASSUME NEW r \in Requests, ChecksMember(r) PROVE SmallStep
  BY <1>2 DEF ChecksMember, SmallStep
<1>3. ASSUME NEW r \in Requests, LooksForMail(r) PROVE SmallStep
  BY <1>3 DEF LooksForMail, SmallStep
<1>4. ASSUME NEW r \in Requests, NEW op \in {"demote", "remove"}, NEW w \in Workspaces,
             NEW u \in Users, LooksAtMember(r, op, w, u)
      PROVE  SmallStep
  BY <1>4 DEF LooksAtMember, SmallStep
<1>5. ASSUME NEW r \in Requests, NEW u \in Users, NEW w \in Workspaces, LooksAtOwner(r, u, w)
      PROVE  SmallStep
  BY <1>5 DEF LooksAtOwner, SmallStep
<1>6. ASSUME NEW r \in Requests, NEW u \in Users, LooksAtAccount(r, u) PROVE SmallStep
  BY <1>6 DEF LooksAtAccount, SmallStep
<1>7. ASSUME NEW r \in Requests, req' = [req EXCEPT ![r] = Idle] PROVE SmallStep
  BY <1>7 DEF SmallStep
<1>8. CASE \E r \in Requests : \/ Joins(r) \/ Consumes(r) \/ RefreshesMail(r) \/ ChangesRole(r)
                               \/ RemovesMember(r) \/ DeletesWorkspace(r) \/ ClosesAccount(r)
                               \/ Fails(r) \/ \E i \in Invites : MintsMail(r, i)
  BY <1>7, <1>8 DEF Joins, Consumes, RefreshesMail, ChangesRole, RemovesMember, DeletesWorkspace,
                    ClosesAccount, Fails, MintsMail
<1>9. CASE \/ \E i \in Invites : MakesLink(i) \/ Revokes(i) \/ InviteExpires(i)
           \/ \E u \in Users, w \in Workspaces : CreatesWorkspace(u, w)
           \/ UNCHANGED vars
  BY <1>9 DEF MakesLink, Revokes, InviteExpires, CreatesWorkspace, vars, SmallStep
<1> QED
  BY <1>1, <1>2, <1>3, <1>4, <1>5, <1>6, <1>8, <1>9 DEF Next

\* Only a join is counted.
LEMMA OnlyJoinsCount ==
    ASSUME [Next]_vars, ~ \E r \in Requests : Joins(r) PROVE UNCHANGED joins
<1>1. CASE \/ \E r \in Requests : \/ Consumes(r) \/ RefreshesMail(r) \/ ChangesRole(r)
                                  \/ RemovesMember(r) \/ DeletesWorkspace(r) \/ ClosesAccount(r)
                                  \/ Fails(r) \/ \E i \in Invites : MintsMail(r, i)
           \/ \E i \in Invites : MakesLink(i) \/ Revokes(i) \/ InviteExpires(i)
           \/ UNCHANGED vars
  BY <1>1 DEF Consumes, RefreshesMail, ChangesRole, RemovesMember, DeletesWorkspace, ClosesAccount,
              Fails, MintsMail, MakesLink, Revokes, InviteExpires, vars
<1>2. CASE \/ \E r \in Requests, u \in Users, i \in Invites : FindsInvite(r, u, i)
           \/ \E r \in Requests : ChecksMember(r) \/ LooksForMail(r)
           \/ \E r \in Requests, op \in {"demote", "remove"}, w \in Workspaces, u \in Users :
                LooksAtMember(r, op, w, u)
           \/ \E r \in Requests, u \in Users, w \in Workspaces : LooksAtOwner(r, u, w)
           \/ \E r \in Requests, u \in Users : LooksAtAccount(r, u)
           \/ \E u \in Users, w \in Workspaces : CreatesWorkspace(u, w)
  BY <1>2 DEF FindsInvite, ChecksMember, LooksForMail, LooksAtMember, LooksAtOwner,
              LooksAtAccount, CreatesWorkspace
<1> QED
  BY <1>1, <1>2 DEF Next

LEMMA NextRoomAtTheTest ==
    ASSUME TypeOK, HandsSound, RowsCount, RoomAtTheTest, [Next]_vars PROVE RoomAtTheTest'
<1> SUFFICES ASSUME NEW i \in Links
             PROVE  Cardinality(Passing(i)') + joins'[i] + 1 <= MaxUses + Cardinality(Requests)
  BY DEF RoomAtTheTest
<1>0. MaxUses \in Nat /\ joins \in [Invites -> Nat] /\ i \in Invites /\ Cardinality(Requests) \in Nat
  BY UsesAssumption, FS_CardinalityType DEF TypeOK, Invites
<1>1. Passing(i) \in SUBSET Requests /\ Passing(i)' \in SUBSET Requests
  BY DEF Passing
<1>2. Cardinality(Passing(i)) + joins[i] + 1 <= MaxUses + Cardinality(Requests)
  BY DEF RoomAtTheTest
<1>3. ASSUME NEW r \in Requests, Joins(r)
      PROVE  Cardinality(Passing(i)') + joins'[i] + 1 <= MaxUses + Cardinality(Requests)
  <2>1. PICK k \in Invites : k = req[r].on
    BY <1>3 DEF Joins, HandsSound
  <2>2. /\ joins' = [joins EXCEPT ![k] = @ + 1]
        /\ req' = [req EXCEPT ![r] = Idle]
        /\ req[r].op = "join"
    BY <1>3, <2>1 DEF Joins, Done
  <2>3. CASE i = k
    <3>1. Passing(i)' = Passing(i) \ {r} /\ r \in Passing(i)
      BY <2>1, <2>2, <2>3 DEF Passing, TypeOK, Idle
    <3>2. IsFiniteSet(Passing(i))
      BY <1>1, UsesAssumption, FS_Subset
    <3>3. Cardinality(Passing(i)) \in Nat /\ Cardinality(Passing(i)') = Cardinality(Passing(i)) - 1
      BY <3>1, <3>2, FS_RemoveElement, FS_CardinalityType
    <3>4. joins'[i] = joins[i] + 1
      BY <1>0, <2>2, <2>3
    <3> QED
      BY <1>0, <1>2, <3>3, <3>4
  <2>4. CASE i # k
    <3>1. Passing(i)' \in SUBSET Passing(i)
      BY <2>2 DEF Passing, TypeOK, Idle
    <3>2. /\ Cardinality(Passing(i)) \in Nat /\ Cardinality(Passing(i)') \in Nat
          /\ Cardinality(Passing(i)') <= Cardinality(Passing(i))
      BY <1>1, <3>1, PassingIsFinite
    <3>3. joins'[i] = joins[i]
      BY <1>0, <2>2, <2>4
    <3> QED
      BY <1>0, <1>2, <3>2, <3>3
  <2> QED
    BY <2>3, <2>4
<1>4. ASSUME NEW r \in Requests, NEW u \in Users, NEW k \in Invites, FindsInvite(r, u, k),
             ~invites[k].expired
      PROVE  Cardinality(Passing(i)') + joins'[i] + 1 <= MaxUses + Cardinality(Requests)
  <2>1. joins' = joins /\ invites[k].state = "kept" /\ ~Exhausted(k)
        /\ req' = [req EXCEPT ![r] = [op |-> "check", who |-> u, on |-> k, owned |-> {}]]
    BY <1>4 DEF FindsInvite, GoesOn
  <2>2. CASE i = k
    <3>1. joins[i] < MaxUses
      <4>1. joins[i] = invites[i].uses /\ ~(invites[i].uses >= MaxUses)
        BY <2>1, <2>2 DEF Exhausted, RowsCount
      <4> QED
        BY <1>0, <4>1
    <3>2. Cardinality(Passing(i)') \in Nat /\ Cardinality(Passing(i)') <= Cardinality(Requests)
      BY <1>1, PassingIsFinite
    <3> QED
      BY <1>0, <2>1, <3>1, <3>2
  <2>3. CASE i # k
    <3>1. Passing(i)' \in SUBSET Passing(i)
      BY <2>1, <2>3 DEF Passing, TypeOK
    <3>2. /\ Cardinality(Passing(i)) \in Nat /\ Cardinality(Passing(i)') \in Nat
          /\ Cardinality(Passing(i)') <= Cardinality(Passing(i))
      BY <1>1, <3>1, PassingIsFinite
    <3> QED
      BY <1>0, <1>2, <2>1, <3>2
  <2> QED
    BY <2>2, <2>3
<1>5. CASE /\ ~ \E r \in Requests : Joins(r)
           /\ ~ \E r \in Requests, u \in Users, k \in Invites :
                  FindsInvite(r, u, k) /\ ~invites[k].expired
  <2>1. Passing(i)' \in SUBSET Passing(i)
    BY <1>5, NextSmallStep, SmallStepPasses
  <2>2. /\ Cardinality(Passing(i)) \in Nat /\ Cardinality(Passing(i)') \in Nat
        /\ Cardinality(Passing(i)') <= Cardinality(Passing(i))
    BY <1>1, <2>1, PassingIsFinite
  <2>3. joins' = joins
    BY <1>5, OnlyJoinsCount
  <2> QED
    BY <1>0, <1>2, <2>2, <2>3
<1> QED
  BY <1>3, <1>4, <1>5

-------------------------------------------------------------------------------
IInv ==
    TypeOK /\ HandsSound /\ FreshIsEmpty /\ AtMostOneOwner /\ RowsCount /\ RoomAtTheTest

LEMMA InitIInv == Init => IInv
BY InitParts, InitRoomAtTheTest DEF IInv

LEMMA NextIInv == IInv /\ [Next]_vars => IInv' /\ GoodMove
<1> SUFFICES ASSUME IInv, [Next]_vars PROVE IInv' /\ GoodMove
  OBVIOUS
<1>1. TypeOK /\ HandsSound /\ FreshIsEmpty /\ AtMostOneOwner /\ RowsCount /\ RoomAtTheTest
  BY DEF IInv
<1>2. TypeOK'
  BY <1>1, NextTypeOK
<1>3. GoodMove
  BY <1>1, NextGoodMove
<1>4. FreshIsEmpty'
  BY <1>1, <1>3 DEF GoodMove, FreshStaysEmpty, FreshIsEmpty
<1>5. AtMostOneOwner'
  BY <1>1, <1>3, GoodMoveOneOwner
<1>6. HandsSound'
  BY <1>1, NextHandsSound
<1>7. RowsCount' /\ RoomAtTheTest'
  BY <1>1, NextRowsCount, NextRoomAtTheTest
<1> QED
  BY <1>2, <1>3, <1>4, <1>5, <1>6, <1>7 DEF IInv

\* Every variable keeps its type.
THEOREM TypeCorrect == Spec => []TypeOK
<1>1. IInv => TypeOK
  BY DEF IInv
<1> QED
  BY InitIInv, NextIInv, <1>1, PTL DEF Spec

\* A link's uses are the joins through it, and an invite by e-mail admits one
\* account at most, whatever acceptances race with (acceptInvite, createInvite).
THEOREM JoinsCounted == Spec => []JoinsAreCounted
<1>1. IInv => JoinsAreCounted
  BY DEF IInv, RowsCount, JoinsAreCounted
<1> QED
  BY InitIInv, NextIInv, <1>1, PTL DEF Spec

\* Racing acceptances pass a link's limit by no more than the requests under way
\* but one, for any limit and any number of requests.
THEOREM OvershootBounded == Spec => []OvershootIsBounded
<1>1. ASSUME IInv, NEW i \in Links PROVE joins[i] + 1 <= MaxUses + Cardinality(Requests)
  <2>1. Cardinality(Passing(i)) + joins[i] + 1 <= MaxUses + Cardinality(Requests)
    BY <1>1 DEF IInv, RoomAtTheTest
  <2>2. joins[i] \in Nat /\ MaxUses \in Nat /\ Cardinality(Requests) \in Nat
    BY <1>1, UsesAssumption, FS_CardinalityType DEF IInv, TypeOK, Invites
  <2>3. Passing(i) \in SUBSET Requests
    BY DEF Passing
  <2>4. Cardinality(Passing(i)) \in Nat
    BY <2>3, PassingIsFinite
  <2> QED
    BY <2>1, <2>2, <2>4
<1>2. IInv => OvershootIsBounded
  BY <1>1 DEF OvershootIsBounded
<1> QED
  BY InitIInv, NextIInv, <1>2, PTL DEF Spec

\* No two accounts own a workspace, whatever is done to its members meanwhile.
THEOREM OneOwner == Spec => []AtMostOneOwner
<1>1. IInv => AtMostOneOwner
  BY DEF IInv
<1> QED
  BY InitIInv, NextIInv, <1>1, PTL DEF Spec

\* An owner stops being one only with the workspace or with the account, although
\* updateMemberRole and removeMember write a row they looked at before.
THEOREM OwnershipKept == Spec => OwnershipIsKept
<1>1. IInv /\ [Next]_vars =>
        [\A w \in Workspaces, u \in Users :
           role[w][u] = "OWNER" /\ role'[w][u] # "OWNER" => w \notin kept' \/ u \notin users']_vars
  BY NextIInv DEF GoodMove, OwnersStay
<1> QED
  BY InitIInv, NextIInv, <1>1, PTL DEF Spec, OwnershipIsKept

===============================================================================
