--------------------------- MODULE AccessControl ----------------------------
(***************************************************************************)
(* Roles, permissions and accounts of EDCS-Gate (src/apps/rbac and         *)
(* src/apps/accounts): the role pages, the Users page, self-registration,  *)
(* the Django admin page of a user and the command seed_rbac.              *)
(*                                                                         *)
(* Each statement is a transaction of its own.  Permissions of a role and  *)
(* roles of a user are replaced by deleting all rows and inserting the     *)
(* submitted ones; checks are reads made before.  A request that is        *)
(* refused changes nothing and is no step; one the database refuses ends   *)
(* as "failed", with what it did before.  Names are compared ignoring      *)
(* case, as the handlers do.                                               *)
(***************************************************************************)
EXTENDS Naturals, FiniteSets

CONSTANTS
  None,
  Users, Superusers,
  Email,       \* the address each account is registered with
  Legacy,      \* User.role: the starter role seed_rbac gives, or None
  Roles,       \* primary keys of roles
  Names, Rank, \* role names and their alphabetical order
  CopyNames,   \* the names a copy of a role may be given
  Starter,     \* DEFAULT_ROLES: the codenames of each starter role
  Fallback,    \* DEFAULT_ROLE_FALLBACK
  Perms,       \* PERMISSION_CATALOGUE
  Unlimited,   \* a NULL quota
  Forms,       \* what the role form submits: name, permissions, quota
  Ticks,       \* what the form of a user's roles submits: sets of roles
  First,       \* the tables at the beginning: role, perms, account, held
  Requests,    \* requests, each served once
  Kinds,       \* the operations they ask for: a subset of AllKinds
  AtOnce,      \* how many are served at the same time
  MaxFaults    \* bound on the requests that die

StarterNames == DOMAIN Starter
RoleSaves    == {"create", "edit", "clone"}
AllKinds     == RoleSaves \union {"delete", "assign", "admin", "default", "register",
                                  "activate", "deactivate", "seed"}

Row  == [st : {"none", "live", "gone"}, name : Names, quota : Nat \union {Unlimited},
         system : BOOLEAN]
Form == [name : Names, perms : SUBSET Perms, quota : Nat \union {Unlimited}]

ASSUME NoneAssumption == None \notin Roles \union Users \union Names /\ Unlimited \notin Nat
ASSUME RolesAssumption == IsFiniteSet(Roles)
ASSUME UsersAssumption ==
  /\ Superusers \subseteq Users
  /\ Legacy \in [Users -> StarterNames \union {None}]
ASSUME NamesAssumption ==
  /\ Starter \in [StarterNames -> SUBSET Perms] /\ StarterNames \subseteq Names
  /\ Fallback \in Names /\ Rank \in [Names -> Nat] /\ CopyNames \subseteq Names /\ Forms \subseteq Form
  /\ Ticks \subseteq SUBSET Roles
ASSUME FirstAssumption ==
  /\ First.role \in [Roles -> Row] /\ First.perms \in [Roles -> SUBSET Perms]
  /\ First.account \in [Users -> {"none", "inactive", "active"}]
  /\ First.held \in [Users -> SUBSET Roles]
  /\ \A r \in Roles : First.role[r].st # "live" =>
       First.perms[r] = {} /\ \A u \in Users : r \notin First.held[u]
ASSUME BoundsAssumption == AtOnce \in Nat /\ MaxFaults \in Nat

VARIABLES
  role,    \* Role rows
  perms,   \* RolePermission rows, by role
  account, \* User.is_active, "none" before registration
  held,    \* UserRole rows, by user
  default, \* the AppSetting self_register_default_role
  req,     \* the requests
  saved,   \* history: what the saves since the last clearing put in each role
  given,   \* history: what the saves since the last clearing gave each user
  faults

tables == <<role, perms, account, held, default>>
vars   == <<tables, req, saved, given, faults>>

Finished == {"ok", "failed"}
Pc == {"idle", "checked", "saved", "cleared", "copying", "copied", "counted", "created",
       "giving", "seeding", "migrating"} \union Finished

Request ==
  [pc : Pc, op : AllKinds, role : Roles \union {None}, src : Roles \union {None},
   user : Users \union {None}, form : Form,
   todo : SUBSET Roles,                          \* roles still to be given
   names : SUBSET StarterNames,                  \* starter roles still to be seeded
   objs : [StarterNames -> Roles \union {None}], \* role_objs
   users : SUBSET Users,                         \* users still to be migrated
   alone : BOOLEAN]                              \* history: nobody else at its rows

TypeOK ==
  /\ role \in [Roles -> Row]
  /\ perms \in [Roles -> SUBSET Perms]
  /\ account \in [Users -> {"none", "inactive", "active"}]
  /\ held \in [Users -> SUBSET Roles]
  /\ default \in Names
  /\ req \in [Requests -> Request]
  /\ saved \in [Roles -> SUBSET Perms]
  /\ given \in [Users -> SUBSET Roles]
  /\ faults \in Nat

Fresh ==
  [pc |-> "idle", op |-> "edit", role |-> None, src |-> None, user |-> None,
   form |-> [name |-> Fallback, perms |-> {}, quota |-> Unlimited],
   todo |-> {}, names |-> {}, objs |-> [n \in StarterNames |-> None], users |-> {},
   alone |-> FALSE]

Init ==
  /\ role = First.role /\ perms = First.perms
  /\ account = First.account /\ held = First.held
  /\ default = Fallback
  /\ req = [q \in Requests |-> Fresh]
  /\ saved = First.perms /\ given = First.held
  /\ faults = 0

(***************************************************************************)
(* Helpers.                                                                *)
(***************************************************************************)
Live(r)     == role[r].st = "live"
Named(n)    == {r \in Roles : Live(r) /\ role[r].name = n}
Taken(n, r) == Named(n) \ {r} # {}
Holders(r)  == {u \in Users : r \in held[u]}

\* user_permission_codes; nobody who is inactive is logged in.
Effective(u) ==
  IF account[u] # "active" THEN {}
  ELSE IF u \in Superusers THEN Perms ELSE UNION {perms[r] : r \in held[u]}

\* require_permission
May(u, code) == account[u] = "active" /\ (u \in Superusers \/ code \in Effective(u))

\* Mutant of DailyLimit: the strictest role wins.
DailyLimitStrict(u) ==
  LET limits == {role[r].quota : r \in held[u]}
  IN  IF u \in Superusers \/ limits \subseteq {Unlimited} THEN Unlimited
      ELSE CHOOSE n \in limits \ {Unlimited} : \A m \in limits \ {Unlimited} : n <= m

\* user_daily_limit
DailyLimit(u) ==
  LET limits == {role[r].quota : r \in held[u]}
  IN  IF u \in Superusers \/ limits = {} \/ Unlimited \in limits THEN Unlimited
      ELSE CHOOSE n \in limits : \A m \in limits : n >= m

\* Mutant of DefaultRole: a setting that names no role gives none.
DefaultRoleStrict ==
  IF Named(default) = {} THEN None ELSE CHOOSE r \in Named(default) : TRUE

\* get_default_role
DefaultRole ==
  LET live == {r \in Roles : Live(r)}
      pick == IF Named(default) # {} THEN Named(default)
              ELSE IF Named(Fallback) # {} THEN Named(Fallback)
              ELSE {r \in live : \A s \in live : Rank[role[r].name] <= Rank[role[s].name]}
  IN  IF pick = {} THEN None ELSE CHOOSE r \in pick : TRUE

InFlight == {q \in Requests : req[q].pc \notin Finished \union {"idle"}}

\* The roles and users whose rows a request writes or copies.
Touches(p) ==
  CASE p.op \in RoleSaves                      -> {p.role, p.src} \ {None}
    [] p.op = "delete"                         -> {p.role} \union Users
    [] p.op \in {"assign", "admin", "register"} -> {p.user}
    [] p.op = "seed"                           -> Roles \union Users
    [] OTHER                                   -> {}

Meet(p, q) == Touches(p) \cap Touches(q) # {}

\* Request q goes on as p; alone keeps book of whom it meets.
Joins(q, p) ==
  req' = [o \in Requests |->
    IF o = q THEN [p EXCEPT !.alone = @ /\ \A x \in InFlight \ {q} : ~Meet(req[x], p)]
    ELSE [req[o] EXCEPT !.alone = @ /\ ~Meet(req[o], p)]]

\* Request q begins as p.
Begin(q, p) ==
  /\ p.op \in Kinds
  /\ req[q].pc = "idle" /\ Cardinality(InFlight) < AtOnce
  /\ Joins(q, [p EXCEPT !.alone = TRUE])
  /\ UNCHANGED <<tables, saved, given, faults>>

At(q, op, pc) == req[q].op = op /\ req[q].pc = pc
Goto(q, pc)   == req' = [req EXCEPT ![q].pc = pc]

(***************************************************************************)
(* Roles: _save_role, role_clone and role_delete.                          *)
(***************************************************************************)
CreateBegin(q, a, f) ==
  /\ May(a, "roles.create")
  /\ Named(f.name) = {}
  /\ Begin(q, [Fresh EXCEPT !.pc = "checked", !.op = "create", !.form = f])

EditBegin(q, a, r, f) ==
  /\ May(a, "roles.edit")
  /\ Live(r)
  /\ Begin(q, [Fresh EXCEPT !.pc = "checked", !.op = "edit", !.role = r, !.form = f])

\* A "(copy)" name that is free.
CloneBegin(q, a, r, n) ==
  /\ May(a, "roles.create")
  /\ Live(r) /\ Named(n) = {}
  /\ Begin(q, [Fresh EXCEPT !.pc = "checked", !.op = "clone", !.src = r,
                            !.form = [name |-> n, perms |-> {}, quota |-> role[r].quota]])

\* Role.name is unique.
SaveRefused(q) ==
  /\ req[q].pc = "checked" /\ req[q].op \in RoleSaves
  /\ Taken(req[q].form.name, req[q].role)
  /\ Goto(q, "failed")
  /\ UNCHANGED <<tables, saved, given, faults>>

NewRow(f, system) == [st |-> "live", name |-> f.name, quota |-> f.quota, system |-> system]

InsertRole(q, r) ==
  /\ req[q].pc = "checked" /\ req[q].op \in {"create", "clone"}
  /\ ~Taken(req[q].form.name, None)
  /\ role[r].st = "none"
  /\ role' = [role EXCEPT ![r] = NewRow(req[q].form, FALSE)]
  /\ Joins(q, [req[q] EXCEPT !.role = r,
                             !.pc = IF req[q].op = "create" THEN "saved" ELSE "copying"])
  /\ UNCHANGED <<perms, account, held, default, saved, given, faults>>

\* role.save() writes the whole row, and inserts it again if it was deleted.
UpdateRole(q) ==
  LET r == req[q].role
  IN  /\ At(q, "edit", "checked")
      /\ ~Taken(req[q].form.name, r)
      /\ role' = [role EXCEPT ![r] = NewRow(req[q].form, @.system)]
      /\ Goto(q, "saved")
      /\ UNCHANGED <<perms, account, held, default, saved, given, faults>>

\* What the other saves of role r, or assignments to user u, still insert.
StillSaved(q, r) == UNION {req[p].form.perms : p \in {p \in Requests \ {q} :
                      req[p].role = r /\ req[p].pc \in {"cleared", "copied"}}}
StillGiven(q, u) == UNION {req[p].todo : p \in {p \in Requests \ {q} :
                      req[p].user = u /\ req[p].pc = "giving"}}

\* Mutant of ClearPerms: the old rows are kept.
ClearPermsNot(q) ==
  LET r == req[q].role
  IN  /\ req[q].pc = "saved"
      /\ saved' = [saved EXCEPT ![r] = req[q].form.perms \union StillSaved(q, r)]
      /\ Goto(q, "cleared")
      /\ UNCHANGED <<tables, given, faults>>

ClearPerms(q) ==
  LET r == req[q].role
  IN  /\ req[q].pc = "saved"
      /\ perms' = [perms EXCEPT ![r] = {}]
      /\ saved' = [saved EXCEPT ![r] = req[q].form.perms \union StillSaved(q, r)]
      /\ Goto(q, "cleared")
      /\ UNCHANGED <<role, account, held, default, given, faults>>

\* role_clone reads the permissions of its source when it copies them.
CopyPerms(q) ==
  LET copied == perms[req[q].src]
  IN  /\ req[q].pc = "copying"
      /\ req' = [req EXCEPT ![q].pc = "copied", ![q].form.perms = copied]
      /\ saved' = [saved EXCEPT ![req[q].role] = @ \union copied]
      /\ UNCHANGED <<tables, given, faults>>

\* bulk_create inserts all rows or none: the role must exist and a row be new.
Insertable(q) ==
  LET p == req[q] IN p.form.perms = {} \/ (Live(p.role) /\ perms[p.role] \cap p.form.perms = {})

\* Mutant of InsertPerms: the copy is given nothing.
InsertPermsLost(q) ==
  /\ req[q].pc \in {"cleared", "copied"}
  /\ Goto(q, "ok")
  /\ UNCHANGED <<tables, saved, given, faults>>

InsertPerms(q) ==
  LET r == req[q].role
  IN  /\ req[q].pc \in {"cleared", "copied"}
      /\ IF Insertable(q)
         THEN /\ perms' = [perms EXCEPT ![r] = @ \union req[q].form.perms]
              /\ Goto(q, "ok")
         ELSE UNCHANGED perms /\ Goto(q, "failed")
      /\ UNCHANGED <<role, account, held, default, saved, given, faults>>

\* A starter role, or a role somebody holds, is refused.
DeleteBegin(q, a, r) ==
  /\ May(a, "roles.delete")
  /\ Live(r) /\ ~role[r].system
  /\ Holders(r) = {}
  /\ Begin(q, [Fresh EXCEPT !.pc = "counted", !.op = "delete", !.role = r])

\* Mutant of DeleteRole: the deletion does not cascade to the users.
DeleteRoleOnly(q) ==
  LET r == req[q].role
  IN  /\ req[q].pc = "counted"
      /\ role' = [role EXCEPT ![r].st = "gone"]
      /\ perms' = [perms EXCEPT ![r] = {}]
      /\ Goto(q, "ok")
      /\ UNCHANGED <<account, held, default, saved, given, faults>>

\* on_delete=CASCADE, in one transaction.
DeleteRole(q) ==
  LET r == req[q].role
  IN  /\ req[q].pc = "counted"
      /\ role' = [role EXCEPT ![r].st = "gone"]
      /\ perms' = [perms EXCEPT ![r] = {}]
      /\ held' = [u \in Users |-> held[u] \ {r}]
      /\ Goto(q, "ok")
      /\ UNCHANGED <<account, default, saved, given, faults>>

(***************************************************************************)
(* The Users page: user_roles, set_default_role, activate_user and         *)
(* deactivate_user; and the user's page of the Django admin site.          *)
(***************************************************************************)
\* The page may be old: the roles ticked need not exist any more.
AssignBegin(q, a, u, S) ==
  /\ May(a, "roles.assign")
  /\ account[u] # "none"
  /\ \A r \in S : role[r].st # "none"
  /\ Begin(q, [Fresh EXCEPT !.pc = "checked", !.op = "assign", !.user = u, !.todo = S])

\* Mutant of ClearRoles: the roles the user has are kept.
ClearRolesNot(q) ==
  LET u == req[q].user
  IN  /\ At(q, "assign", "checked")
      /\ given' = [given EXCEPT ![u] = req[q].todo \union StillGiven(q, u)]
      /\ Goto(q, IF req[q].todo = {} THEN "ok" ELSE "giving")
      /\ UNCHANGED <<tables, saved, faults>>

ClearRoles(q) ==
  LET u == req[q].user
  IN  /\ At(q, "assign", "checked")
      /\ held' = [held EXCEPT ![u] = {}]
      /\ given' = [given EXCEPT ![u] = req[q].todo \union StillGiven(q, u)]
      /\ Goto(q, IF req[q].todo = {} THEN "ok" ELSE "giving")
      /\ UNCHANGED <<role, perms, account, default, saved, faults>>

\* Mutant of GiveRole: the last role of the form is not given.
GiveRoleButLast(q, r) ==
  LET u == req[q].user
      rest == req[q].todo \ {r}
  IN  /\ At(q, "assign", "giving") /\ r \in req[q].todo
      /\ held' = IF rest = {} THEN held ELSE [held EXCEPT ![u] = @ \union {r}]
      /\ req' = [req EXCEPT ![q].todo = rest,
                            ![q].pc = IF rest = {} THEN "ok" ELSE "giving"]
      /\ UNCHANGED <<role, perms, account, default, saved, given, faults>>

\* get_or_create for one role of the form; a role that is gone ends the request.
GiveRole(q, r) ==
  LET u == req[q].user
      rest == req[q].todo \ {r}
  IN  /\ At(q, "assign", "giving") /\ r \in req[q].todo
      /\ IF Live(r)
         THEN /\ held' = [held EXCEPT ![u] = @ \union {r}]
              /\ req' = [req EXCEPT ![q].todo = rest,
                                    ![q].pc = IF rest = {} THEN "ok" ELSE "giving"]
         ELSE UNCHANGED held /\ Goto(q, "failed")
      /\ UNCHANGED <<role, perms, account, default, saved, given, faults>>

\* save_formset saves what was added; what was removed is deleted nowhere.
AdminSave(q, a, u, S) ==
  /\ "admin" \in Kinds
  /\ req[q].pc = "idle" /\ Cardinality(InFlight) < AtOnce
  /\ a \in Superusers /\ account[a] = "active"
  /\ account[u] # "none"
  /\ S # {} /\ \A r \in S : Live(r)
  /\ held' = [held EXCEPT ![u] = @ \union S]
  /\ given' = [given EXCEPT ![u] = @ \union S]
  /\ Joins(q, [Fresh EXCEPT !.pc = "ok", !.op = "admin", !.user = u])
  /\ UNCHANGED <<role, perms, account, default, saved, faults>>

SetDefault(q, a, n) ==
  /\ "default" \in Kinds
  /\ req[q].pc = "idle" /\ Cardinality(InFlight) < AtOnce
  /\ May(a, "roles.assign")
  /\ Named(n) # {}
  /\ default' = n
  /\ req' = [req EXCEPT ![q].pc = "ok", ![q].op = "default"]
  /\ UNCHANGED <<role, perms, account, held, saved, given, faults>>

ActivateBegin(q, a, u) ==
  /\ \E c \in {"users.activate", "users.create", "users.edit"} : May(a, c)
  /\ account[u] = "inactive"
  /\ Begin(q, [Fresh EXCEPT !.pc = "checked", !.op = "activate", !.user = u])

DeactivateBegin(q, a, u) ==
  /\ May(a, "users.delete")
  /\ account[u] = "active" /\ u # a /\ u \notin Superusers
  /\ Begin(q, [Fresh EXCEPT !.pc = "checked", !.op = "deactivate", !.user = u])

\* u.save() on the row that was read.
SaveAccount(q) ==
  /\ req[q].op \in {"activate", "deactivate"} /\ req[q].pc = "checked"
  /\ account' = [account EXCEPT ![req[q].user] =
                   IF req[q].op = "activate" THEN "active" ELSE "inactive"]
  /\ Goto(q, "ok")
  /\ UNCHANGED <<role, perms, held, default, saved, given, faults>>

(***************************************************************************)
(* register.                                                               *)
(***************************************************************************)
RegisterBegin(q, u) ==
  /\ account[u] = "none"
  /\ \A v \in Users : account[v] # "none" => Email[v] # Email[u]
  /\ Begin(q, [Fresh EXCEPT !.pc = "checked", !.op = "register", !.user = u])

\* User.username is unique; User.email is not.
CreateUser(q) ==
  LET u == req[q].user
  IN  /\ At(q, "register", "checked")
      /\ IF account[u] = "none"
         THEN account' = [account EXCEPT ![u] = "inactive"] /\ Goto(q, "created")
         ELSE UNCHANGED account /\ Goto(q, "failed")
      /\ UNCHANGED <<role, perms, held, default, saved, given, faults>>

\* Mutant of FindDefault: the name of the role is used for the role.
FindDefaultName(q) ==
  /\ At(q, "register", "created")
  /\ req' = [req EXCEPT ![q].role = default,
                        ![q].pc = IF DefaultRole = None THEN "ok" ELSE "giving"]
  /\ UNCHANGED <<tables, saved, given, faults>>

FindDefault(q) ==
  /\ At(q, "register", "created")
  /\ req' = [req EXCEPT ![q].role = DefaultRole,
                        ![q].pc = IF DefaultRole = None THEN "ok" ELSE "giving"]
  /\ UNCHANGED <<tables, saved, given, faults>>

\* Whatever goes wrong here is swallowed.
GiveDefault(q) ==
  LET u == req[q].user
      r == req[q].role
  IN  /\ At(q, "register", "giving")
      /\ IF Live(r)
         THEN /\ held' = [held EXCEPT ![u] = @ \union {r}]
              /\ given' = [given EXCEPT ![u] = @ \union {r}]
         ELSE UNCHANGED <<held, given>>
      /\ Goto(q, "ok")
      /\ UNCHANGED <<role, perms, account, default, saved, faults>>

(***************************************************************************)
(* The command seed_rbac: starter roles and their permissions, then the    *)
(* legacy roles of all users.                                              *)
(***************************************************************************)
SeedBegin(q) ==
  Begin(q, [Fresh EXCEPT !.pc = "seeding", !.op = "seed", !.names = StarterNames])

Seeds(q, n, r) ==
  req' = [req EXCEPT ![q].names = @ \ {n}, ![q].objs[n] = r, ![q].role = r,
                     ![q].form.perms = Starter[n]]

SeedRole(q, n) ==
  /\ req[q].pc = "seeding" /\ req[q].form.perms = {} /\ n \in req[q].names
  /\ \/ /\ \E r \in Named(n) : Seeds(q, n, r)
        /\ UNCHANGED role
     \/ /\ Named(n) = {}
        /\ \E r \in Roles :
             /\ role[r].st = "none"
             /\ role' = [role EXCEPT ![r] = NewRow([name |-> n, quota |-> Unlimited], TRUE)]
             /\ Seeds(q, n, r)
  /\ UNCHANGED <<perms, account, held, default, saved, given, faults>>

SeedPerm(q, c) ==
  LET r == req[q].role
  IN  /\ req[q].pc = "seeding" /\ c \in req[q].form.perms
      /\ IF Live(r)
         THEN /\ perms' = [perms EXCEPT ![r] = @ \union {c}]
              /\ saved' = [saved EXCEPT ![r] = @ \union {c}]
              /\ req' = [req EXCEPT ![q].form.perms = @ \ {c}]
         ELSE UNCHANGED <<perms, saved>> /\ Goto(q, "failed")
      /\ UNCHANGED <<role, account, held, default, given, faults>>

SeedUsers(q) ==
  LET users == {u \in Users : account[u] # "none" /\ Legacy[u] # None}
  IN  /\ req[q].pc = "seeding" /\ req[q].form.perms = {} /\ req[q].names = {}
      /\ req' = [req EXCEPT ![q].users = users,
                            ![q].pc = IF users = {} THEN "ok" ELSE "migrating"]
      /\ UNCHANGED <<tables, saved, given, faults>>

SeedUser(q, u) ==
  LET r == req[q].objs[Legacy[u]]
      rest == req[q].users \ {u}
  IN  /\ req[q].pc = "migrating" /\ u \in req[q].users
      /\ IF Live(r)
         THEN /\ held' = [held EXCEPT ![u] = @ \union {r}]
              /\ given' = [given EXCEPT ![u] = @ \union {r}]
              /\ req' = [req EXCEPT ![q].users = rest,
                                    ![q].pc = IF rest = {} THEN "ok" ELSE "migrating"]
         ELSE UNCHANGED <<held, given>> /\ Goto(q, "failed")
      /\ UNCHANGED <<role, perms, account, default, saved, faults>>

(***************************************************************************)
(* The specification.                                                      *)
(***************************************************************************)
\* A web process is killed in the middle of a request.
Dies(q) ==
  /\ faults < MaxFaults /\ faults' = faults + 1
  /\ q \in InFlight
  /\ Goto(q, "failed")
  /\ UNCHANGED <<tables, saved, given>>

Ask(q, a) ==
  \/ \E f \in Forms : CreateBegin(q, a, f) \/ \E r \in Roles : EditBegin(q, a, r, f)
  \/ \E r \in Roles : DeleteBegin(q, a, r) \/ \E n \in CopyNames : CloneBegin(q, a, r, n)
  \/ \E u \in Users : ActivateBegin(q, a, u) \/ DeactivateBegin(q, a, u)
  \/ \E u \in Users, S \in Ticks : AssignBegin(q, a, u, S) \/ AdminSave(q, a, u, S)
  \/ \E n \in Names : SetDefault(q, a, n)

Serve(q) ==
  \/ SaveRefused(q) \/ UpdateRole(q) \/ ClearPerms(q) \/ CopyPerms(q) \/ InsertPerms(q)
  \/ DeleteRole(q) \/ ClearRoles(q) \/ SaveAccount(q)
  \/ CreateUser(q) \/ FindDefault(q) \/ GiveDefault(q)
  \/ \E r \in Roles : InsertRole(q, r) \/ GiveRole(q, r)

Seed(q) ==
  \/ SeedBegin(q) \/ SeedUsers(q)
  \/ \E n \in StarterNames : SeedRole(q, n)
  \/ \E c \in Perms : SeedPerm(q, c)
  \/ \E u \in Users : SeedUser(q, u)

Next ==
  \E q \in Requests :
    \/ \E u \in Users : Ask(q, u) \/ RegisterBegin(q, u)
    \/ Serve(q) \/ Seed(q) \/ Dies(q)

Spec == Init /\ [][Next]_vars

(***************************************************************************)
(* Properties.                                                             *)
(***************************************************************************)
\* _save_role: whatever overlaps it, and wherever it dies, a role has no
\* permission but those that were saved since its rows were last deleted, so a
\* permission an administrator took away cannot survive a save.
RevokedIsGone == \A r \in Roles : perms[r] \subseteq saved[r]

\* user_roles, the same for users: no role from before the last assignment.
WithdrawnIsGone == \A u \in Users : held[u] \subseteq given[u]

\* A save that reports success and met nobody at its rows left there exactly
\* what was submitted or copied; the steps in between lose nothing of it.
UndisturbedSaveHolds ==
  \A q \in Requests :
    LET p == req[q]
        r == p.role
    IN  p.alone /\ p.pc = "ok" /\ p.op \in RoleSaves =>
          /\ Live(r) /\ perms[r] = p.form.perms
          /\ role[r].name = p.form.name /\ role[r].quota = p.form.quota
          /\ p.op = "clone" => perms[p.src] = p.form.perms

\* user_roles, the same for users: an assignment that succeeds and met nobody
\* leaves the user exactly the roles it was given.
UndisturbedAssignHolds ==
  \A q \in Requests :
    req[q].alone /\ req[q].pc = "ok" /\ req[q].op = "assign" =>
      held[req[q].user] = given[req[q].user]

\* register: a new account has a role as soon as it is registered, whatever
\* was done to the default role meanwhile, unless its roles were assigned or a
\* role was deleted.
NewcomerHasRole ==
  \A q \in Requests :
    req[q].op = "register" /\ req[q].pc = "ok" =>
      \/ held[req[q].user] # {}
      \/ \E p \in Requests : req[p].pc # "idle" /\ req[p].op \in {"assign", "delete"}

\* on_delete=CASCADE and the foreign keys: a deleted role, also one deleted in
\* the middle of a save or an assignment, gives nobody anything.
GoneGivesNothing == \A r \in Roles : ~Live(r) => perms[r] = {} /\ Holders(r) = {}

\* user_daily_limit, against its documentation: n a day are allowed exactly if
\* some role of the user allows n, or the user has none or is a superuser.
LimitIsMostPermissive ==
  \A u \in Users, n \in 0 .. 2 :
    LET limit == DailyLimit(u)
        Allows(l) == IF l = Unlimited THEN TRUE ELSE n <= l
    IN  Allows(limit) <=> \/ u \in Superusers \/ held[u] = {}
                          \/ \E r \in held[u] : Allows(role[r].quota)
=============================================================================
