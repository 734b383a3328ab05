------------------------------- MODULE Accounts -------------------------------
(***************************************************************************)
(* How a request gets its user (api/auth.ts and api/tokens.ts), for the    *)
(* rows of one person: identity-provider logins that find, adopt, create   *)
(* and approve a row, local registration and login, API tokens, and the    *)
(* admins who approve, revoke and offboard meanwhile.  A step of a request *)
(* is one statement and what follows it up to the next await.  A request   *)
(* reads the claims of a token whose signature has been verified.          *)
(***************************************************************************)
EXTENDS Naturals, FiniteSets

CONSTANTS
    Requests,
    RowIds,       \* bound: rows ever inserted for the person
    Oidc,         \* config.authMode: the identity provider, or local accounts
    AdminEmail    \* whether the person's address is one of OIDC_ADMIN_EMAILS

VARIABLES
    rows,         \* users: the person's rows that are there
    linked, approved, role,  \* columns external_id (set), access_approved, role
    tombstone,    \* offboarded_identities matches the person
    others,       \* whether anybody else has a row
    pc, qualifies, found,  \* per request: where it is, what its claims grant, the row it has
    late          \* history: the requests that began after the tombstone was recorded

vars == <<rows, linked, approved, role, tombstone, others, pc, qualifies, found, late>>
tables == <<rows, linked, approved, role, tombstone, others>>

Roles == {"admin", "developer"}
NoRow == {}
Found == {NoRow} \cup {{i} : i \in RowIds}

TypeOK ==
    /\ rows \in SUBSET RowIds /\ linked \in SUBSET RowIds /\ approved \in SUBSET RowIds
    /\ role \in [RowIds -> Roles]
    /\ tombstone \in BOOLEAN /\ others \in BOOLEAN
    /\ pc \in [Requests -> {"idle", "check", "subject", "email", "link", "gate", "pending", "create",
                            "role", "grant", "offboarded", "count", "insert",
                            "admitted", "denied"}]
    /\ qualifies \in [Requests -> BOOLEAN]
    /\ found \in [Requests -> Found]
    /\ late \in SUBSET Requests

\* At the start there may be rows of local accounts, from before the identity provider.
Init ==
    /\ rows \in SUBSET RowIds /\ linked = {} /\ approved \in SUBSET rows
    /\ role \in [RowIds -> Roles]
    /\ tombstone = FALSE /\ others \in BOOLEAN
    /\ pc = [r \in Requests |-> "idle"]
    /\ qualifies = [r \in Requests |-> FALSE]
    /\ found = [r \in Requests |-> NoRow]
    /\ late = {}

Goes(r, from, to) == pc[r] = from /\ pc' = [pc EXCEPT ![r] = to]

\* createUser: the subject is unique, the address is not.
Inserts(r, id, link, newRole) ==
    /\ id \notin rows /\ ~(link /\ linked # {})
    /\ rows' = rows \cup {id}
    /\ linked' = IF link THEN linked \cup {id} ELSE linked
    /\ role' = [role EXCEPT ![id] = newRole]
    /\ found' = [found EXCEPT ![r] = {id}]
    /\ UNCHANGED <<approved, tombstone, others, qualifies, late>>

-----------------------------------------------------------------------------
(* A request with a token of the identity provider: userFromClaims.        *)

Authenticate(r) ==
    /\ Oidc /\ pc[r] \in {"idle", "admitted", "denied"}
    /\ pc' = [pc EXCEPT ![r] = "check"]
    /\ \E q \in BOOLEAN : qualifies' = [qualifies EXCEPT ![r] = q]
    /\ found' = [found EXCEPT ![r] = NoRow]
    /\ late' = IF tombstone THEN late \cup {r} ELSE late \ {r}
    /\ UNCHANGED tables

ChecksTombstone(r) ==
    /\ Goes(r, "check", IF tombstone THEN "denied" ELSE "subject")
    /\ UNCHANGED <<tables, qualifies, found, late>>

FindsBySubject(r) ==
    /\ Goes(r, "subject", IF linked # {} THEN "gate" ELSE "email")
    /\ found' = [found EXCEPT ![r] = linked]
    /\ UNCHANGED <<tables, qualifies, late>>

\* An account with the address that is not linked to a subject is adopted.
FindsByEmail(r) ==
    /\ \/ \E i \in rows \ linked : found' = [found EXCEPT ![r] = {i}] /\ Goes(r, "email", "link")
       \/ rows \subseteq linked /\ Goes(r, "email", "gate") /\ UNCHANGED found
    /\ UNCHANGED <<tables, qualifies, late>>

Adopts(r) ==
    /\ linked \subseteq found[r] /\ Goes(r, "link", "gate")
    /\ linked' = linked \cup (found[r] \cap rows)
    /\ UNCHANGED <<rows, approved, role, tombstone, others, qualifies, found, late>>

DaBossRole == IF AdminEmail THEN "admin" ELSE "developer"

\* The access gate; what an admin has approved counts beside the claims.
PassesGate(r) ==
    /\ AdminEmail \/ qualifies[r] \/ found[r] \cap approved # {}
    /\ Goes(r, "gate", IF found[r] = NoRow THEN "create" ELSE "role")
    /\ UNCHANGED <<tables, qualifies, found, late>>

StopsAtGate(r) ==
    /\ ~AdminEmail /\ ~qualifies[r] /\ found[r] \cap approved = {}
    /\ Goes(r, "gate", IF found[r] = NoRow THEN "pending" ELSE "denied")
    /\ UNCHANGED <<tables, qualifies, found, late>>

\* A row that an admin may approve; this login is denied.
ProvisionsPending(r) ==
    /\ Goes(r, "pending", "denied")
    /\ \E i \in RowIds : Inserts(r, i, TRUE, DaBossRole)

Provisions(r) ==
    /\ Goes(r, "create", "grant")
    /\ \E i \in RowIds : Inserts(r, i, TRUE, DaBossRole)

\* A statement fails, the uniqueness of the subject among the causes: unauthenticated.
AuthenticateThrows(r) ==
    /\ pc[r] \in {"check", "subject", "email", "link", "pending", "create", "role", "grant"}
    /\ pc' = [pc EXCEPT ![r] = "denied"]
    /\ UNCHANGED <<tables, qualifies, found, late>>

SyncsRole(r) ==
    /\ Goes(r, "role", "grant")
    /\ role' = [i \in RowIds |-> IF i \in found[r] \cap rows THEN DaBossRole ELSE role[i]]
    /\ UNCHANGED <<rows, linked, approved, tombstone, others, qualifies, found, late>>

\* The grant is written where the row that was read was not approved.
Grants(r) ==
    /\ Goes(r, "grant", "admitted")
    /\ approved' \in {approved, approved \cup (found[r] \cap rows)}
    /\ UNCHANGED <<rows, linked, role, tombstone, others, qualifies, found, late>>

-----------------------------------------------------------------------------
(* Local accounts: registration, login, sessions; and API tokens.          *)

\* handleRegister looks for the address, then for the tombstone, then counts the users.
HandleRegister(r) ==
    /\ ~Oidc /\ pc[r] \in {"idle", "admitted", "denied"}
    /\ pc' = [pc EXCEPT ![r] = IF rows # {} THEN "denied" ELSE "offboarded"]
    /\ found' = [found EXCEPT ![r] = NoRow]
    /\ late' = IF tombstone THEN late \cup {r} ELSE late \ {r}
    /\ UNCHANGED <<tables, qualifies>>

RegisterChecksTombstone(r) ==
    /\ Goes(r, "offboarded", IF tombstone THEN "denied" ELSE "count")
    /\ UNCHANGED <<tables, qualifies, found, late>>

\* The first user of all is the admin.
CountsUsers(r) ==
    /\ Goes(r, "count", "insert")
    /\ qualifies' = [qualifies EXCEPT ![r] = (rows = {} /\ ~others)]
    /\ UNCHANGED <<tables, found, late>>

Registers(r) ==
    /\ Goes(r, "insert", "admitted")
    /\ \E i \in RowIds : Inserts(r, i, FALSE, IF qualifies[r] THEN "admin" ELSE "developer")

\* A session, a password or an API token stands for a row: it is read on every request.
ResolvesRow(r) ==
    /\ pc[r] \in {"idle", "admitted", "denied"}
    /\ \E i \in RowIds :
          IF i \in rows
          THEN /\ pc' = [pc EXCEPT ![r] = "admitted"]
               /\ found' = [found EXCEPT ![r] = {i}]
          ELSE /\ pc' = [pc EXCEPT ![r] = "denied"]
               /\ found' = [found EXCEPT ![r] = NoRow]
    /\ late' = late \ {r}
    /\ UNCHANGED <<tables, qualifies>>

-----------------------------------------------------------------------------
(* Admins.                                                                 *)

\* PUT /api/admin/users/:id/access
SetsAccess ==
    /\ \E i \in rows : approved' \in {approved \cup {i}, approved \ {i}}
    /\ UNCHANGED <<rows, linked, role, tombstone, others, pc, qualifies, found, late>>

RecordsTombstone ==
    /\ rows # {} /\ tombstone' = TRUE
    /\ UNCHANGED <<rows, linked, approved, role, others, pc, qualifies, found, late>>

\* deleteUser, which offboardUser comes to after the tombstone.
DeletesUser ==
    /\ tombstone
    /\ \E i \in rows : rows' = rows \ {i} /\ linked' = linked \ {i} /\ approved' = approved \ {i}
    /\ UNCHANGED <<role, tombstone, others, pc, qualifies, found, late>>

Next ==
    \/ \E r \in Requests :
          \/ Authenticate(r) \/ ChecksTombstone(r) \/ FindsBySubject(r) \/ FindsByEmail(r) \/ Adopts(r)
          \/ PassesGate(r) \/ StopsAtGate(r) \/ ProvisionsPending(r) \/ Provisions(r)
          \/ AuthenticateThrows(r) \/ SyncsRole(r) \/ Grants(r)
          \/ HandleRegister(r) \/ RegisterChecksTombstone(r) \/ CountsUsers(r) \/ Registers(r)
          \/ ResolvesRow(r)
    \/ SetsAccess \/ RecordsTombstone \/ DeletesUser

Spec == Init /\ [][Next]_vars

-----------------------------------------------------------------------------
(* Properties.                                                             *)

\* "An offboard actually sticks" (migrations.ts:290-293): no login and no registration that
\* begins after the tombstone is admitted or inserts a row, whatever was under way then.
OffboardSticks == \A r \in late : pc[r] \in {"check", "offboarded", "denied"}

\* One row per subject: logins that run at once find, adopt and create a single row.
OneRowPerSubject == \A i, j \in linked : i = j

\* Refuted: "A user with that email already exists" (auth.ts:354-357).  Two registrations both
\* find none, and the column is not unique.
OneAccountPerEmail == [][Cardinality(rows') <= 1 \/ rows' \subseteq rows]_vars

\* Refuted: a row of an offboarded person is not created again once it is deleted; a login
\* that had passed the tombstone before it was recorded provisions a new one.
DeletedStaysDeleted == [][tombstone /\ rows = {} => rows' = {}]_vars

-----------------------------------------------------------------------------
(* The inductive invariant (proved in FurtherProofs).                       *)

IInv == TypeOK /\ OffboardSticks /\ OneRowPerSubject /\ (late # {} => tombstone)
=============================================================================
