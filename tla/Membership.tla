------------------------------ MODULE Membership ------------------------------
(***************************************************************************)
(* Who belongs to a workspace: invites, members, ownership, and the        *)
(* deletion of workspaces and accounts.                                    *)
(*                                                                         *)
(* A request handler is a few awaits, each one step here; what it read in  *)
(* one step may be out of date in the next.  The database's unique keys,   *)
(* foreign keys and transactions are the guards of the writing steps.  The *)
(* caller's own right to act is checked by the middleware before all this  *)
(* and is taken as given.                                                  *)
(***************************************************************************)
EXTENDS Naturals, FiniteSets

CONSTANTS
    Users,          \* accounts
    Founder,        \* the account that owns Home at the start
    Guest,          \* the account the address of the e-mailed invites belongs to
    Workspaces,
    Home,           \* the workspace the invites are for
    Links, Mails,   \* invites by link and by e-mail
    MaxUses,        \* maxUses of every link
    Requests,       \* requests handled at the same time
    None

ASSUME PeopleAssumption == {Founder, Guest} \subseteq Users /\ None \notin Users
ASSUME PlacesAssumption ==
    /\ Home \in Workspaces
    /\ Links \cap Mails = {}
    /\ None \notin Workspaces \cup Links \cup Mails
ASSUME UsesAssumption == MaxUses \in Nat \ {0} /\ IsFiniteSet(Requests) /\ Requests # {}

VARIABLES
    users,          \* the accounts that exist
    kept,           \* the workspaces that exist
    fresh,          \* the workspaces that do not exist yet
    role,           \* role[w][u]: the membership row of u in w; "none" if there is none
    invites,        \* the WorkspaceInvite rows
    req,            \* req[r]: the handler that r is in the middle of
    joins           \* joins[i]: how many times somebody joined through i

vars == <<users, kept, fresh, role, invites, req, joins>>

Invites == Links \cup Mails

\* ADMIN, MEMBER and VIEWER are the same to these handlers.
Roles == {"none", "MEMBER", "OWNER"}

Idle == [op |-> "none", who |-> None, on |-> None, owned |-> {}]

TypeOK ==
    /\ users \subseteq Users
    /\ kept \subseteq Workspaces
    /\ fresh \subseteq Workspaces \ kept
    /\ role \in [Workspaces -> [Users -> Roles]]
    /\ invites \in [Invites -> [state : {"unused", "kept", "gone"}, expired : BOOLEAN, uses : Nat]]
    /\ req \in [Requests ->
         [op : {"none", "check", "join", "consume", "refresh", "mint", "demote", "remove",
                "delete", "close"},
          who : Users \cup {None}, on : Invites \cup Workspaces \cup {None},
          owned : SUBSET Workspaces]]
    /\ joins \in [Invites -> Nat]

Init ==
    /\ users = Users
    /\ kept = {Home}
    /\ fresh = Workspaces \ {Home}
    /\ role = [w \in Workspaces |-> [u \in Users |->
                 IF w = Home /\ u = Founder THEN "OWNER" ELSE "none"]]
    /\ invites = [i \in Invites |-> [state |-> "unused", expired |-> FALSE, uses |-> 0]]
    /\ req = [r \in Requests |-> Idle]
    /\ joins = [i \in Invites |-> 0]

-------------------------------------------------------------------------------
\* r goes on with the operation op, which concerns u and x.
GoesOn(r, op, u, x) == req' = [req EXCEPT ![r] = [op |-> op, who |-> u, on |-> x, owned |-> {}]]

Done(r) == req' = [req EXCEPT ![r] = Idle]

\* A handler fails: a row it updates or deletes is gone, a key is taken or
\* missing, the database or the process is down.  Transactions roll back.
Fails(r) ==
    /\ req[r] # Idle
    /\ Done(r)
    /\ UNCHANGED <<users, kept, fresh, role, invites, joins>>

-------------------------------------------------------------------------------
\* Accepting an invite.

\* A mutant: the limit is tested as "more than".
ExhaustedBeyond(i) == i \in Links /\ invites[i].uses > MaxUses

Exhausted(i) == i \in Links /\ invites[i].uses >= MaxUses

\* A dead invite by e-mail is to be deleted, a dead link is just refused.
FindsInvite(r, u, i) ==
    /\ req[r] = Idle
    /\ invites[i].state = "kept"
    /\ IF invites[i].expired
       THEN i \in Mails /\ GoesOn(r, "consume", u, i)
       ELSE ~Exhausted(i) /\ GoesOn(r, "check", u, i)
    /\ UNCHANGED <<users, kept, fresh, role, invites, joins>>

ChecksMember(r) ==
    /\ req[r].op = "check"
    /\ IF role[Home][req[r].who] = "none"
       THEN GoesOn(r, "join", req[r].who, req[r].on)
       ELSE IF req[r].on \in Mails
            THEN GoesOn(r, "consume", req[r].who, req[r].on)
            ELSE Done(r)
    /\ UNCHANGED <<users, kept, fresh, role, invites, joins>>

\* The transaction goes through: the row of the member is new, what it refers to
\* exists, and the invite that is updated or deleted is still there.
CanJoin(u, i) ==
    /\ role[Home][u] = "none"
    /\ u \in users
    /\ Home \in kept
    /\ invites[i].state = "kept"

\* A mutant: the requested role is not checked against ASSIGNABLE_ROLES.
AssignableAny == {"MEMBER", "OWNER"}

Assignable == {"MEMBER"}

\* A mutant: the count read before the transaction, plus one, is written (where the
\* limit is one, it was 0).
AdmittedFromRead(i) ==
    IF i \in Links THEN [invites[i] EXCEPT !.uses = 1] ELSE [invites[i] EXCEPT !.state = "gone"]

\* The invite, once it has admitted somebody.
Admitted(i) ==
    IF i \in Links THEN [invites[i] EXCEPT !.uses = @ + 1] ELSE [invites[i] EXCEPT !.state = "gone"]

Joins(r) ==
    LET u == req[r].who
        i == req[r].on
    IN  /\ req[r].op = "join"
        /\ CanJoin(u, i)
        /\ \E m \in Assignable : role' = [role EXCEPT ![Home][u] = m]
        /\ invites' = [invites EXCEPT ![i] = Admitted(i)]
        /\ joins' = [joins EXCEPT ![i] = @ + 1]
        /\ Done(r)
        /\ UNCHANGED <<users, kept, fresh>>

Consumes(r) ==
    /\ req[r].op = "consume"
    /\ invites[req[r].on].state = "kept"
    /\ invites' = [invites EXCEPT ![req[r].on].state = "gone"]
    /\ Done(r)
    /\ UNCHANGED <<users, kept, fresh, role, joins>>

-------------------------------------------------------------------------------
\* Making, refreshing and revoking invites.

Mint(i) ==
    /\ invites[i].state = "unused"
    /\ Home \in kept
    /\ invites' = [invites EXCEPT ![i].state = "kept"]

MakesLink(i) ==
    /\ i \in Links
    /\ Mint(i)
    /\ UNCHANGED <<users, kept, fresh, role, req, joins>>

LooksForMail(r) ==
    /\ req[r] = Idle
    /\ Home \in kept
    /\ role[Home][Guest] = "none"
    /\ IF \E i \in Mails : invites[i].state = "kept"
       THEN \E i \in Mails : invites[i].state = "kept" /\ GoesOn(r, "refresh", None, i)
       ELSE GoesOn(r, "mint", None, None)
    /\ UNCHANGED <<users, kept, fresh, role, invites, joins>>

RefreshesMail(r) ==
    /\ req[r].op = "refresh"
    /\ invites[req[r].on].state = "kept"
    /\ invites' = [invites EXCEPT ![req[r].on] = [@ EXCEPT !.expired = FALSE, !.uses = 0]]
    /\ Done(r)
    /\ UNCHANGED <<users, kept, fresh, role, joins>>

MintsMail(r, i) ==
    /\ req[r].op = "mint"
    /\ i \in Mails
    /\ Mint(i)
    /\ Done(r)
    /\ UNCHANGED <<users, kept, fresh, role, joins>>

Revokes(i) ==
    /\ invites[i].state = "kept"
    /\ invites' = [invites EXCEPT ![i].state = "gone"]
    /\ UNCHANGED <<users, kept, fresh, role, req, joins>>

InviteExpires(i) ==
    /\ invites[i].state = "kept" /\ ~invites[i].expired
    /\ invites' = [invites EXCEPT ![i].expired = TRUE]
    /\ UNCHANGED <<users, kept, fresh, role, req, joins>>

-------------------------------------------------------------------------------
\* Members: each handler reads the row, refuses the owner's, and writes.

\* A mutant: the owner's row is not refused.
TouchableAny(w, u) == role[w][u] # "none"

Touchable(w, u) == role[w][u] \notin {"none", "OWNER"}

LooksAtMember(r, op, w, u) ==
    /\ req[r] = Idle
    /\ Touchable(w, u)
    /\ GoesOn(r, op, u, w)
    /\ UNCHANGED <<users, kept, fresh, role, invites, joins>>

ChangesRole(r) ==
    /\ req[r].op = "demote"
    /\ role[req[r].on][req[r].who] # "none"
    /\ \E m \in Assignable : role' = [role EXCEPT ![req[r].on][req[r].who] = m]
    /\ Done(r)
    /\ UNCHANGED <<users, kept, fresh, invites, joins>>

RemovesMember(r) ==
    /\ req[r].op = "remove"
    /\ role[req[r].on][req[r].who] # "none"
    /\ role' = [role EXCEPT ![req[r].on][req[r].who] = "none"]
    /\ Done(r)
    /\ UNCHANGED <<users, kept, fresh, invites, joins>>

-------------------------------------------------------------------------------
\* Workspaces and accounts come and go.

Owned(u) == {w \in Workspaces : role[w][u] = "OWNER"}

CreatesWorkspace(u, w) ==
    /\ u \in users
    /\ w \in fresh
    /\ kept' = kept \cup {w}
    /\ fresh' = fresh \ {w}
    /\ role' = [role EXCEPT ![w][u] = "OWNER"]
    /\ UNCHANGED <<users, invites, req, joins>>

\* The workspaces of S are deleted, and with them their members and invites; so
\* are the memberships of the accounts in A.
Drop(S, A) ==
    /\ kept' = kept \ S
    /\ role' = [w \in Workspaces |-> [u \in Users |->
                  IF w \in S \/ u \in A THEN "none" ELSE role[w][u]]]
    /\ invites' = [i \in Invites |->
                     IF Home \in S /\ invites[i].state = "kept"
                     THEN [invites[i] EXCEPT !.state = "gone"] ELSE invites[i]]

LooksAtOwner(r, u, w) ==
    /\ req[r] = Idle
    /\ w \in Owned(u)
    /\ GoesOn(r, "delete", u, w)
    /\ UNCHANGED <<users, kept, fresh, role, invites, joins>>

DeletesWorkspace(r) ==
    /\ req[r].op = "delete"
    /\ req[r].on \in kept
    /\ Drop({req[r].on}, {})
    /\ Done(r)
    /\ UNCHANGED <<users, fresh, joins>>

LooksAtAccount(r, u) ==
    /\ req[r] = Idle
    /\ u \in users
    /\ req' = [req EXCEPT ![r] = [op |-> "close", who |-> u, on |-> None, owned |-> Owned(u)]]
    /\ UNCHANGED <<users, kept, fresh, role, invites, joins>>

\* One transaction over what was owned when it was looked up.
ClosesAccount(r) ==
    /\ req[r].op = "close"
    /\ req[r].who \in users
    /\ Drop(req[r].owned, {req[r].who})
    /\ users' = users \ {req[r].who}
    /\ Done(r)
    /\ UNCHANGED <<fresh, joins>>

-------------------------------------------------------------------------------
Next ==
    \/ \E r \in Requests, u \in Users, i \in Invites : FindsInvite(r, u, i)
    \/ \E r \in Requests : ChecksMember(r)
    \/ \E r \in Requests : Joins(r)
    \/ \E r \in Requests : Consumes(r)
    \/ \E i \in Invites : MakesLink(i)
    \/ \E r \in Requests : LooksForMail(r)
    \/ \E r \in Requests : RefreshesMail(r)
    \/ \E r \in Requests, i \in Invites : MintsMail(r, i)
    \/ \E i \in Invites : Revokes(i)
    \/ \E i \in Invites : InviteExpires(i)
    \/ \E r \in Requests, op \in {"demote", "remove"}, w \in Workspaces, u \in Users :
         LooksAtMember(r, op, w, u)
    \/ \E r \in Requests : ChangesRole(r)
    \/ \E r \in Requests : RemovesMember(r)
    \/ \E u \in Users, w \in Workspaces : CreatesWorkspace(u, w)
    \/ \E r \in Requests, u \in Users, w \in Workspaces : LooksAtOwner(r, u, w)
    \/ \E r \in Requests : DeletesWorkspace(r)
    \/ \E r \in Requests, u \in Users : LooksAtAccount(r, u)
    \/ \E r \in Requests : ClosesAccount(r)
    \/ \E r \in Requests : Fails(r)

Spec == Init /\ [][Next]_vars

-------------------------------------------------------------------------------
\* The uses that a link shows are the joins through it, and an invite by e-mail
\* admits one account, although acceptances race with each other, with removals,
\* refreshments and deletions.
JoinsAreCounted ==
    /\ \A i \in Links : invites[i].state = "kept" => invites[i].uses = joins[i]
    /\ \A i \in Mails : joins[i] <= 1

\* The limit of a link is tested before the transaction that counts, so racing
\* acceptances pass it; by no more than the others in flight with the last one.
OvershootIsBounded == \A i \in Links : joins[i] + 1 <= MaxUses + Cardinality(Requests)

\* A workspace never has two owners.
AtMostOneOwner ==
    \A w \in Workspaces : \A u, v \in Users : role[w][u] = "OWNER" /\ role[w][v] = "OWNER" => u = v

\* A workspace loses its owner only together with the workspace or the account.
OwnershipIsKept ==
    [][\A w \in Workspaces, u \in Users :
         role[w][u] = "OWNER" /\ role'[w][u] # "OWNER" => w \notin kept' \/ u \notin users']_vars

===============================================================================
