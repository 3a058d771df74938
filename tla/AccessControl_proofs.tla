------------------------ MODULE AccessControl_proofs -------------------------
(***************************************************************************)
(* Proofs about AccessControl: its types, that nothing an administrator    *)
(* took away survives a save, that a deleted role gives nothing, that      *)
(* saves and assignments which met nobody hold, that newcomers get a role, *)
(* and that the daily limit is that of the most permissive role.           *)
(***************************************************************************)
EXTENDS AccessControl, NumberSets

(***************************************************************************)
(* Types.  A request is where its operation takes it, and has the role,    *)
(* the copied role, the user and the seeded roles that its next step uses. *)
(***************************************************************************)
HasRole(p) ==
  /\ p.pc \in {"saved", "cleared", "copying", "copied"} => p.role \in Roles
  /\ p.op = "edit" /\ p.pc = "checked" => p.role \in Roles
  /\ p.op = "register" /\ p.pc = "giving" => p.role \in Roles
  /\ p.pc = "copying" \/ (p.op = "clone" /\ p.pc = "checked") => p.src \in Roles

HasUser(p) == p.op = "assign" /\ p.pc \in {"checked", "giving"} => p.user \in Users

HasSeeds(p) ==
  /\ p.pc = "seeding" => \A n \in StarterNames \ p.names : p.objs[n] \in Roles
  /\ p.pc = "migrating" => /\ \A n \in StarterNames : p.objs[n] \in Roles
                           /\ \A u \in p.users : Legacy[u] # None

HasOp(p) ==
  /\ p.pc \in {"saved", "cleared"} => p.op \in {"create", "edit"}
  /\ p.pc \in {"copying", "copied"} => p.op = "clone"
  /\ p.pc = "counted" => p.op = "delete"
  /\ p.pc = "created" => p.op = "register"
  /\ p.pc = "giving" => p.op \in {"assign", "register"}
  /\ p.pc \in {"seeding", "migrating"} => p.op = "seed"

Equipped(p) == HasOp(p) /\ HasRole(p) /\ HasUser(p) /\ HasSeeds(p)

TypeInv == TypeOK /\ \A q \in Requests : Equipped(req[q])

LEMMA FreshIsRequest == Fresh \in Request /\ Equipped(Fresh)
<1>1. [name |-> Fallback, perms |-> {}, quota |-> Unlimited] \in Form
  BY NamesAssumption DEF Form
<1>2. Fresh.form \in Form /\ Fresh.objs \in [StarterNames -> Roles \union {None}]
  BY <1>1 DEF Fresh
<1>3. Fresh \in Request
  BY <1>1 DEF Fresh, Request, Pc, AllKinds, RoleSaves
<1>. QED  BY <1>3 DEF Fresh, Equipped, HasOp, HasRole, HasUser, HasSeeds

LEMMA InitTypes == Init => TypeInv
  BY FreshIsRequest, FirstAssumption, NamesAssumption DEF Init, TypeInv, TypeOK

\* One request changes; the others keep what they have.
LEMMA OneRequest ==
  ASSUME TypeInv, NEW q \in Requests, NEW x \in Request, Equipped(x),
         req' = [req EXCEPT ![q] = x]
  PROVE  req' \in [Requests -> Request] /\ \A o \in Requests : Equipped(req'[o])
  BY DEF TypeInv, TypeOK

LEMMA AloneKeeps ==
  ASSUME NEW p \in Request, NEW b \in BOOLEAN
  PROVE  /\ [p EXCEPT !.alone = b] \in Request
         /\ Equipped(p) => Equipped([p EXCEPT !.alone = b])
  BY DEF Request, Equipped, HasOp, HasRole, HasUser, HasSeeds

LEMMA JoinTypes ==
  ASSUME TypeInv, NEW q \in Requests, NEW p \in Request, Equipped(p), Joins(q, p)
  PROVE  req' \in [Requests -> Request] /\ \A o \in Requests : Equipped(req'[o])
<1> DEFINE base(o)   == IF o = q THEN p ELSE req[o]
           lonely(o) == IF o = q THEN p.alone /\ \A x \in InFlight \ {q} : ~Meet(req[x], p)
                        ELSE req[o].alone /\ ~Meet(req[o], p)
<1>1. req \in [Requests -> Request]
  BY DEF TypeInv, TypeOK
<1>2. ASSUME NEW o \in Requests  PROVE req'[o] \in Request /\ Equipped(req'[o])
  <2>1. base(o) \in Request /\ Equipped(base(o))
    BY <1>1 DEF TypeInv
  <2>2. lonely(o) \in BOOLEAN
    <3>1. base(o).alone \in BOOLEAN
      BY <2>1 DEF Request
    <3>. QED  BY <3>1
  <2>3. req'[o] = [base(o) EXCEPT !.alone = lonely(o)]
    BY DEF Joins
  <2>. HIDE DEF base, lonely
  <2>. QED  BY <2>1, <2>2, <2>3, AloneKeeps
<1>3. DOMAIN req' = Requests /\ req' = [o \in DOMAIN req' |-> req'[o]]
  BY DEF Joins
<1>. QED  BY <1>2, <1>3

LEMMA BeginTypes ==
  ASSUME TypeInv, NEW q \in Requests, NEW p \in Request, Equipped(p), Begin(q, p)
  PROVE  TypeInv'
<1> DEFINE x == [p EXCEPT !.alone = TRUE]
<1>1. x \in Request /\ Equipped(x)
  BY AloneKeeps
<1>2. Joins(q, x)
  BY DEF Begin
<1>3. req' \in [Requests -> Request] /\ \A o \in Requests : Equipped(req'[o])
  <2>. HIDE DEF x
  <2>. QED  BY <1>1, <1>2, JoinTypes
<1>. QED  BY <1>3 DEF Begin, TypeInv, TypeOK, tables

\* A request as it begins.  The role it copies is there.
Opening(p) ==
  /\ p.pc \in {"checked", "counted", "seeding"} /\ p.role \in Roles \union {None}
  /\ p.op = "clone" => role[p.src].st = "live"
  /\ p.op = "register" => p.user \in Users

Opened(q) == \E p \in Request : Equipped(p) /\ Opening(p) /\ Begin(q, p)

\* What begins is a request of this kind, unless it ends at once.
LEMMA Opens ==
  ASSUME TypeInv, NEW q \in Requests,
         (\E a \in Users : Ask(q, a) \/ RegisterBegin(q, a)) \/ SeedBegin(q)
  PROVE  \/ Opened(q)
         \/ \E a \in Users, u \in Users, S \in Ticks : AdminSave(q, a, u, S)
         \/ \E a \in Users, n \in Names : SetDefault(q, a, n)
<1>0. role \in [Roles -> Row]
  BY DEF TypeInv, TypeOK
<1>1. ASSUME NEW a \in Users, NEW f \in Forms, CreateBegin(q, a, f)  PROVE Opened(q)
  <2> DEFINE p == [Fresh EXCEPT !.pc = "checked", !.op = "create", !.form = f]
  <2>1. p \in Request /\ Equipped(p) /\ Opening(p)
    BY FreshIsRequest, NamesAssumption
       DEF CreateBegin, Request, Pc, AllKinds, RoleSaves, Fresh, Equipped, HasOp, HasRole, HasUser, HasSeeds, Opening
  <2>2. Begin(q, p)
    BY <1>1 DEF CreateBegin
  <2>. HIDE DEF p
  <2>. QED  BY <2>1, <2>2 DEF Opened
<1>2. ASSUME NEW a \in Users, NEW f \in Forms, NEW r \in Roles, EditBegin(q, a, r, f)  PROVE Opened(q)
  <2> DEFINE p == [Fresh EXCEPT !.pc = "checked", !.op = "edit", !.role = r, !.form = f]
  <2>1. p \in Request /\ Equipped(p) /\ Opening(p)
    BY FreshIsRequest, NamesAssumption
       DEF EditBegin, Request, Pc, AllKinds, RoleSaves, Fresh, Equipped, HasOp, HasRole, HasUser, HasSeeds, Opening
  <2>2. Begin(q, p)
    BY <1>2 DEF EditBegin
  <2>. HIDE DEF p
  <2>. QED  BY <2>1, <2>2 DEF Opened
<1>3. ASSUME NEW a \in Users, NEW r \in Roles, DeleteBegin(q, a, r)  PROVE Opened(q)
  <2> DEFINE p == [Fresh EXCEPT !.pc = "counted", !.op = "delete", !.role = r]
  <2>1. p \in Request /\ Equipped(p) /\ Opening(p)
    BY FreshIsRequest, NamesAssumption
       DEF DeleteBegin, Request, Pc, AllKinds, RoleSaves, Fresh, Equipped, HasOp, HasRole, HasUser, HasSeeds, Opening
  <2>2. Begin(q, p)
    BY <1>3 DEF DeleteBegin
  <2>. HIDE DEF p
  <2>. QED  BY <2>1, <2>2 DEF Opened
<1>4. ASSUME NEW a \in Users, NEW r \in Roles, NEW n \in CopyNames, CloneBegin(q, a, r, n)  PROVE Opened(q)
  <2> DEFINE f == [name |-> n, perms |-> {}, quota |-> role[r].quota]
             p == [Fresh EXCEPT !.pc = "checked", !.op = "clone", !.src = r, !.form = f]
  <2>0. f \in Form
    BY <1>0, NamesAssumption DEF Form, Row
  <2>1. p \in Request /\ Equipped(p) /\ Opening(p)
    BY <2>0, FreshIsRequest, NamesAssumption, <1>0, <1>4
       DEF CloneBegin, Request, Pc, AllKinds, RoleSaves, Fresh, Equipped, HasOp, HasRole, HasUser, HasSeeds, Opening, Live
  <2>2. Begin(q, p)
    BY <1>4 DEF CloneBegin
  <2>. HIDE DEF p
  <2>. QED  BY <2>1, <2>2 DEF Opened
<1>5. ASSUME NEW a \in Users, NEW u \in Users, ActivateBegin(q, a, u)  PROVE Opened(q)
  <2> DEFINE p == [Fresh EXCEPT !.pc = "checked", !.op = "activate", !.user = u]
  <2>1. p \in Request /\ Equipped(p) /\ Opening(p)
    BY FreshIsRequest, NamesAssumption
       DEF ActivateBegin, Request, Pc, AllKinds, RoleSaves, Fresh, Equipped, HasOp, HasRole, HasUser, HasSeeds, Opening
  <2>2. Begin(q, p)
    BY <1>5 DEF ActivateBegin
  <2>. HIDE DEF p
  <2>. QED  BY <2>1, <2>2 DEF Opened
<1>6. ASSUME NEW a \in Users, NEW u \in Users, DeactivateBegin(q, a, u)  PROVE Opened(q)
  <2> DEFINE p == [Fresh EXCEPT !.pc = "checked", !.op = "deactivate", !.user = u]
  <2>1. p \in Request /\ Equipped(p) /\ Opening(p)
    BY FreshIsRequest, NamesAssumption
       DEF DeactivateBegin, Request, Pc, AllKinds, RoleSaves, Fresh, Equipped, HasOp, HasRole, HasUser, HasSeeds, Opening
  <2>2. Begin(q, p)
    BY <1>6 DEF DeactivateBegin
  <2>. HIDE DEF p
  <2>. QED  BY <2>1, <2>2 DEF Opened
<1>7. ASSUME NEW a \in Users, NEW u \in Users, NEW S \in Ticks, AssignBegin(q, a, u, S)  PROVE Opened(q)
  <2> DEFINE p == [Fresh EXCEPT !.pc = "checked", !.op = "assign", !.user = u, !.todo = S]
  <2>1. p \in Request /\ Equipped(p) /\ Opening(p)
    BY FreshIsRequest, NamesAssumption
       DEF AssignBegin, Request, Pc, AllKinds, RoleSaves, Fresh, Equipped, HasOp, HasRole, HasUser, HasSeeds, Opening
  <2>2. Begin(q, p)
    BY <1>7 DEF AssignBegin
  <2>. HIDE DEF p
  <2>. QED  BY <2>1, <2>2 DEF Opened
<1>8. ASSUME NEW u \in Users, RegisterBegin(q, u)  PROVE Opened(q)
  <2> DEFINE p == [Fresh EXCEPT !.pc = "checked", !.op = "register", !.user = u]
  <2>1. p \in Request /\ Equipped(p) /\ Opening(p)
    BY FreshIsRequest, NamesAssumption
       DEF RegisterBegin, Request, Pc, AllKinds, RoleSaves, Fresh, Equipped, HasOp, HasRole, HasUser, HasSeeds, Opening
  <2>2. Begin(q, p)
    BY <1>8 DEF RegisterBegin
  <2>. HIDE DEF p
  <2>. QED  BY <2>1, <2>2 DEF Opened
<1>9. ASSUME SeedBegin(q)  PROVE Opened(q)
  <2> DEFINE p == [Fresh EXCEPT !.pc = "seeding", !.op = "seed", !.names = StarterNames]
  <2>1. p \in Request /\ Equipped(p) /\ Opening(p)
    BY FreshIsRequest, NamesAssumption
       DEF SeedBegin, Request, Pc, AllKinds, RoleSaves, Fresh, Equipped, HasOp, HasRole, HasUser, HasSeeds, Opening
  <2>2. Begin(q, p)
    BY <1>9 DEF SeedBegin
  <2>. HIDE DEF p
  <2>. QED  BY <2>1, <2>2 DEF Opened
<1>. QED  BY <1>1, <1>2, <1>3, <1>4, <1>5, <1>6, <1>7, <1>8, <1>9 DEF Ask

LEMMA AskTypes ==
  ASSUME TypeInv, NEW q \in Requests,
         (\E a \in Users : Ask(q, a) \/ RegisterBegin(q, a)) \/ SeedBegin(q)
  PROVE  TypeInv'
<1>0. req \in [Requests -> Request] /\ role \in [Roles -> Row]
  BY DEF TypeInv, TypeOK
<1>. USE FreshIsRequest
<1>1. ASSUME NEW a \in Users, NEW u \in Users, NEW S \in Ticks, AdminSave(q, a, u, S)  PROVE TypeInv'
  <2> DEFINE p == [Fresh EXCEPT !.pc = "ok", !.op = "admin", !.user = u]
  <2>1. p \in Request /\ Equipped(p)
    BY DEF Request, Pc, Finished, AllKinds, RoleSaves, Fresh, Equipped, HasOp, HasRole, HasUser, HasSeeds
  <2>2. Joins(q, p)
    BY <1>1 DEF AdminSave
  <2>3. held' \in [Users -> SUBSET Roles] /\ given' \in [Users -> SUBSET Roles]
    BY <1>1, NamesAssumption DEF AdminSave, TypeInv, TypeOK
  <2>. HIDE DEF p
  <2>4. req' \in [Requests -> Request] /\ \A o \in Requests : Equipped(req'[o])
    BY <2>1, <2>2, JoinTypes
  <2>. QED  BY <1>1, <2>3, <2>4 DEF AdminSave, TypeInv, TypeOK
<1>2. ASSUME NEW a \in Users, NEW n \in Names, SetDefault(q, a, n)  PROVE TypeInv'
  <2>1. [req[q] EXCEPT !.pc = "ok", !.op = "default"] \in Request
    BY <1>0 DEF Request, Pc, Finished, AllKinds
  <2>2. Equipped([req[q] EXCEPT !.pc = "ok", !.op = "default"])
    BY <1>0 DEF Request, Equipped, HasOp, HasRole, HasUser, HasSeeds
  <2>3. req' = [req EXCEPT ![q] = [req[q] EXCEPT !.pc = "ok", !.op = "default"]]
    BY <1>0, <1>2 DEF SetDefault
  <2>. QED  BY <1>2, <2>1, <2>2, <2>3, OneRequest DEF SetDefault, TypeInv, TypeOK
<1>. QED  BY <1>1, <1>2, Opens, BeginTypes DEF Opened

\* What a request that goes on, without touching its data, must have there.
LEMMA GotoTypes ==
  ASSUME TypeInv, NEW q \in Requests, NEW pc \in Pc, Goto(q, pc), Equipped([req[q] EXCEPT !.pc = pc])
  PROVE  req' \in [Requests -> Request] /\ \A o \in Requests : Equipped(req'[o])
<1>1. req \in [Requests -> Request]
  BY DEF TypeInv, TypeOK
<1>2. [req[q] EXCEPT !.pc = pc] \in Request
  BY <1>1 DEF Request
<1>3. req' = [req EXCEPT ![q] = [req[q] EXCEPT !.pc = pc]]
  BY DEF Goto
<1>. QED  BY <1>2, <1>3, OneRequest

\* Nothing has to be there at the end.
LEMMA EndTypes ==
  ASSUME TypeInv, NEW q \in Requests, NEW pc \in Finished, Goto(q, pc)
  PROVE  req' \in [Requests -> Request] /\ \A o \in Requests : Equipped(req'[o])
<1>1. req[q] \in Request
  BY DEF TypeInv, TypeOK
<1>2. Equipped([req[q] EXCEPT !.pc = pc])
  BY <1>1 DEF Request, Finished, Equipped, HasOp, HasRole, HasUser, HasSeeds
<1>. QED  BY <1>2, GotoTypes DEF Pc

LEMMA RoleTypes ==
  ASSUME TypeInv, NEW q \in Requests,
         \/ SaveRefused(q) \/ UpdateRole(q) \/ ClearPerms(q) \/ CopyPerms(q) \/ InsertPerms(q)
         \/ DeleteRole(q) \/ \E r \in Roles : InsertRole(q, r)
  PROVE  TypeInv'
<1>0. /\ req \in [Requests -> Request] /\ req[q] \in Request /\ Equipped(req[q])
      /\ role \in [Roles -> Row] /\ perms \in [Roles -> SUBSET Perms]
      /\ held \in [Users -> SUBSET Roles] /\ saved \in [Roles -> SUBSET Perms]
  BY DEF TypeInv, TypeOK
<1>1. /\ req[q].form \in Form /\ req[q].form.perms \in SUBSET Perms
      /\ req[q].src \in Roles \union {None}
  BY <1>0 DEF Request, Form
<1>2. CASE SaveRefused(q)
  BY <1>2, EndTypes DEF SaveRefused, Finished, TypeInv, TypeOK, tables
<1>3. CASE UpdateRole(q)
  <2>1. req[q].role \in Roles
    BY <1>0, <1>3 DEF UpdateRole, At, Equipped, HasOp, HasRole
  <2>2. NewRow(req[q].form, role[req[q].role].system) \in Row
    BY <1>0, <1>1, <2>1 DEF NewRow, Row, Form
  <2>3. role' \in [Roles -> Row]
    BY <1>0, <1>3, <2>2 DEF UpdateRole
  <2>4. Equipped([req[q] EXCEPT !.pc = "saved"])
    BY <1>0, <1>3, <2>1 DEF UpdateRole, At, Request, Equipped, HasOp, HasRole, HasUser, HasSeeds
  <2>5. req' \in [Requests -> Request] /\ \A o \in Requests : Equipped(req'[o])
    BY <1>3, <2>4, GotoTypes DEF UpdateRole, Pc
  <2>. QED  BY <1>3, <2>3, <2>5 DEF UpdateRole, TypeInv, TypeOK
<1>4. CASE ClearPerms(q)
  <2>1. Equipped([req[q] EXCEPT !.pc = "cleared"])
    BY <1>0, <1>4 DEF ClearPerms, Request, Equipped, HasOp, HasRole, HasUser, HasSeeds
  <2>2. req' \in [Requests -> Request] /\ \A o \in Requests : Equipped(req'[o])
    BY <1>4, <2>1, GotoTypes DEF ClearPerms, Pc
  <2>3. StillSaved(q, req[q].role) \in SUBSET Perms
    BY <1>0 DEF StillSaved, Request, Form
  <2>4. perms' \in [Roles -> SUBSET Perms] /\ saved' \in [Roles -> SUBSET Perms]
    BY <1>0, <1>1, <1>4, <2>3 DEF ClearPerms
  <2>. QED  BY <1>4, <2>2, <2>4 DEF ClearPerms, TypeInv, TypeOK
<1>5. CASE CopyPerms(q)
  <2> DEFINE copied == perms[req[q].src]
             x == [req[q] EXCEPT !.pc = "copied", !.form = [req[q].form EXCEPT !.perms = copied]]
  <2>1. copied \in SUBSET Perms
    BY <1>0, <1>5 DEF CopyPerms, Equipped, HasOp, HasRole
  <2>2. [req[q].form EXCEPT !.perms = copied] \in Form
    BY <1>1, <2>1 DEF Form
  <2>3. x \in Request /\ Equipped(x)
    BY <1>0, <1>5, <2>2 DEF CopyPerms, Request, Pc, Equipped, HasOp, HasRole, HasUser, HasSeeds
  <2>4. req' = [req EXCEPT ![q] = x]
    BY <1>0, <1>5 DEF CopyPerms
  <2>5. saved' \in [Roles -> SUBSET Perms]
    BY <1>0, <1>5, <2>1 DEF CopyPerms
  <2>. HIDE DEF x, copied
  <2>6. req' \in [Requests -> Request] /\ \A o \in Requests : Equipped(req'[o])
    BY <2>3, <2>4, OneRequest
  <2>. QED  BY <1>5, <2>5, <2>6 DEF CopyPerms, TypeInv, TypeOK, tables
<1>6. CASE InsertPerms(q)
  <2>1. req' \in [Requests -> Request] /\ \A o \in Requests : Equipped(req'[o])
    BY <1>6, EndTypes DEF InsertPerms, Finished
  <2>2. perms' \in [Roles -> SUBSET Perms]
    BY <1>0, <1>1, <1>6 DEF InsertPerms
  <2>. QED  BY <1>6, <2>1, <2>2 DEF InsertPerms, TypeInv, TypeOK
<1>7. CASE DeleteRole(q)
  <2>1. req' \in [Requests -> Request] /\ \A o \in Requests : Equipped(req'[o])
    BY <1>7, EndTypes DEF DeleteRole, Finished
  <2>2. role' \in [Roles -> Row]
    BY <1>0, <1>7 DEF DeleteRole, Row
  <2>3. perms' \in [Roles -> SUBSET Perms] /\ held' \in [Users -> SUBSET Roles]
    BY <1>0, <1>7 DEF DeleteRole
  <2>. QED  BY <1>7, <2>1, <2>2, <2>3 DEF DeleteRole, TypeInv, TypeOK
<1>8. ASSUME NEW r \in Roles, InsertRole(q, r)  PROVE TypeInv'
  <2> DEFINE x == [req[q] EXCEPT !.role = r,
                     !.pc = IF req[q].op = "create" THEN "saved" ELSE "copying"]
  <2>1. x \in Request /\ Equipped(x)
    BY <1>0, <1>8 DEF InsertRole, Request, Pc, Equipped, HasOp, HasRole, HasUser, HasSeeds
  <2>2. Joins(q, x)
    BY <1>8 DEF InsertRole
  <2>3. NewRow(req[q].form, FALSE) \in Row
    BY <1>1 DEF NewRow, Row, Form
  <2>4. role' \in [Roles -> Row]
    BY <1>0, <1>8, <2>3 DEF InsertRole
  <2>. HIDE DEF x
  <2>5. req' \in [Requests -> Request] /\ \A o \in Requests : Equipped(req'[o])
    BY <2>1, <2>2, JoinTypes
  <2>. QED  BY <1>8, <2>4, <2>5 DEF InsertRole, TypeInv, TypeOK
<1>. QED  BY <1>2, <1>3, <1>4, <1>5, <1>6, <1>7, <1>8

LEMMA DefaultRoleType == DefaultRole \in Roles \union {None}
  BY DEF DefaultRole, Named

LEMMA UserTypes ==
  ASSUME TypeInv, NEW q \in Requests,
         \/ ClearRoles(q) \/ SaveAccount(q) \/ CreateUser(q) \/ FindDefault(q) \/ GiveDefault(q)
         \/ \E r \in Roles : GiveRole(q, r)
  PROVE  TypeInv'
<1>0. /\ req \in [Requests -> Request] /\ req[q] \in Request /\ Equipped(req[q])
      /\ account \in [Users -> {"none", "inactive", "active"}]
      /\ held \in [Users -> SUBSET Roles] /\ given \in [Users -> SUBSET Roles]
  BY DEF TypeInv, TypeOK
<1>1. req[q].todo \in SUBSET Roles
  BY <1>0 DEF Request
<1>2. CASE ClearRoles(q)
  <2> DEFINE pc == IF req[q].todo = {} THEN "ok" ELSE "giving"
  <2>1. Equipped([req[q] EXCEPT !.pc = pc])
    BY <1>0, <1>2 DEF ClearRoles, At, Request, Equipped, HasOp, HasRole, HasUser, HasSeeds
  <2>2. req' \in [Requests -> Request] /\ \A o \in Requests : Equipped(req'[o])
    BY <1>2, <2>1, GotoTypes DEF ClearRoles, Pc, Finished
  <2>3. StillGiven(q, req[q].user) \in SUBSET Roles
    BY <1>0 DEF StillGiven, Request
  <2>4. held' \in [Users -> SUBSET Roles] /\ given' \in [Users -> SUBSET Roles]
    BY <1>0, <1>1, <1>2, <2>3 DEF ClearRoles
  <2>. QED  BY <1>2, <2>2, <2>4 DEF ClearRoles, TypeInv, TypeOK
<1>3. CASE SaveAccount(q)
  <2>1. req' \in [Requests -> Request] /\ \A o \in Requests : Equipped(req'[o])
    BY <1>3, EndTypes DEF SaveAccount, Finished
  <2>2. account' \in [Users -> {"none", "inactive", "active"}]
    BY <1>0, <1>3 DEF SaveAccount
  <2>. QED  BY <1>3, <2>1, <2>2 DEF SaveAccount, TypeInv, TypeOK
<1>4. CASE CreateUser(q)
  <2>0. Equipped([req[q] EXCEPT !.pc = "created"])
    BY <1>0, <1>4 DEF CreateUser, At, Request, Equipped, HasOp, HasRole, HasUser, HasSeeds
  <2>1. req' \in [Requests -> Request] /\ \A o \in Requests : Equipped(req'[o])
    BY <1>4, <2>0, EndTypes, GotoTypes DEF CreateUser, Finished, Pc
  <2>2. account' \in [Users -> {"none", "inactive", "active"}]
    BY <1>0, <1>4 DEF CreateUser
  <2>. QED  BY <1>4, <2>1, <2>2 DEF CreateUser, TypeInv, TypeOK
<1>5. CASE FindDefault(q)
  <2> DEFINE x == [req[q] EXCEPT !.role = DefaultRole,
                     !.pc = IF DefaultRole = None THEN "ok" ELSE "giving"]
  <2>1. x \in Request /\ Equipped(x)
    BY <1>0, <1>5, DefaultRoleType
       DEF FindDefault, At, Request, Pc, Finished, Equipped, HasOp, HasRole, HasUser, HasSeeds
  <2>2. req' = [req EXCEPT ![q] = x]
    BY <1>0, <1>5 DEF FindDefault
  <2>. HIDE DEF x
  <2>3. req' \in [Requests -> Request] /\ \A o \in Requests : Equipped(req'[o])
    BY <2>1, <2>2, OneRequest
  <2>. QED  BY <1>5, <2>3 DEF FindDefault, TypeInv, TypeOK, tables
<1>6. CASE GiveDefault(q)
  <2>1. req' \in [Requests -> Request] /\ \A o \in Requests : Equipped(req'[o])
    BY <1>6, EndTypes DEF GiveDefault, Finished
  <2>2. req[q].role \in Roles
    BY <1>0, <1>6 DEF GiveDefault, At, Equipped, HasOp, HasRole
  <2>3. held' \in [Users -> SUBSET Roles] /\ given' \in [Users -> SUBSET Roles]
    BY <1>0, <1>6, <2>2 DEF GiveDefault
  <2>. QED  BY <1>6, <2>1, <2>3 DEF GiveDefault, TypeInv, TypeOK
<1>7. ASSUME NEW r \in Roles, GiveRole(q, r)  PROVE TypeInv'
  <2> DEFINE rest == req[q].todo \ {r}
             x == [req[q] EXCEPT !.todo = rest, !.pc = IF rest = {} THEN "ok" ELSE "giving"]
  <2>1. x \in Request /\ Equipped(x)
    BY <1>0, <1>1, <1>7
       DEF GiveRole, At, Request, Pc, Finished, Equipped, HasOp, HasRole, HasUser, HasSeeds
  <2>2. held' \in [Users -> SUBSET Roles]
    BY <1>0, <1>7 DEF GiveRole
  <2>3. CASE Live(r)
    <3>1. req' = [req EXCEPT ![q] = x]
      BY <1>0, <1>7, <2>3 DEF GiveRole
    <3>. HIDE DEF x
    <3>2. req' \in [Requests -> Request] /\ \A o \in Requests : Equipped(req'[o])
      BY <2>1, <3>1, OneRequest
    <3>. QED  BY <1>7, <2>2, <3>2 DEF GiveRole, TypeInv, TypeOK
  <2>4. CASE ~Live(r)
    <3>1. req' \in [Requests -> Request] /\ \A o \in Requests : Equipped(req'[o])
      BY <1>7, <2>4, EndTypes DEF GiveRole, Finished
    <3>. QED  BY <1>7, <2>2, <3>1 DEF GiveRole, TypeInv, TypeOK
  <2>. QED  BY <2>3, <2>4
<1>. QED  BY <1>2, <1>3, <1>4, <1>5, <1>6, <1>7

LEMMA SeedTypes ==
  ASSUME TypeInv, NEW q \in Requests, Seed(q)
  PROVE  TypeInv'
<1>0. /\ req \in [Requests -> Request] /\ req[q] \in Request /\ Equipped(req[q])
      /\ role \in [Roles -> Row] /\ perms \in [Roles -> SUBSET Perms]
      /\ held \in [Users -> SUBSET Roles] /\ saved \in [Roles -> SUBSET Perms]
      /\ given \in [Users -> SUBSET Roles]
  BY DEF TypeInv, TypeOK
<1>1. /\ req[q].form \in Form /\ req[q].form.perms \in SUBSET Perms
      /\ req[q].objs \in [StarterNames -> Roles \union {None}]
      /\ req[q].names \in SUBSET StarterNames /\ req[q].users \in SUBSET Users
  BY <1>0 DEF Request, Form
<1>2. CASE SeedBegin(q)
  BY <1>2, AskTypes
<1>3. ASSUME NEW n \in StarterNames, SeedRole(q, n)  PROVE TypeInv'
  <2>1. PICK r \in Roles : Seeds(q, n, r)
    BY <1>3 DEF SeedRole, Named
  <2> DEFINE x == [req[q] EXCEPT !.names = req[q].names \ {n}, !.objs = [req[q].objs EXCEPT ![n] = r],
                     !.role = r, !.form = [req[q].form EXCEPT !.perms = Starter[n]]]
  <2>2. [req[q].form EXCEPT !.perms = Starter[n]] \in Form
    BY <1>1, NamesAssumption DEF Form
  <2>3. x \in Request
    BY <1>0, <1>1, <2>2 DEF Request
  <2>4. Equipped(x)
    <3>1. x.pc = "seeding" /\ x.objs = [req[q].objs EXCEPT ![n] = r] /\ x.names = req[q].names \ {n}
      BY <1>0, <1>3 DEF SeedRole, Request
    <3>2. \A k \in StarterNames \ req[q].names : req[q].objs[k] \in Roles
      BY <1>0, <1>3 DEF SeedRole, Equipped, HasSeeds
    <3>3. \A k \in StarterNames \ x.names : x.objs[k] \in Roles
      BY <1>1, <3>1, <3>2
    <3>4. x.op = req[q].op
      BY <1>0 DEF Request
    <3>5. req[q].pc = "seeding" /\ req[q].op = "seed"
      BY <1>0, <1>3 DEF SeedRole, Equipped, HasOp
    <3>. HIDE DEF x
    <3>6. x.role \in Roles
      BY <1>0 DEF x, Request
    <3>. QED  BY <3>1, <3>3, <3>4, <3>5, <3>6 DEF Equipped, HasOp, HasRole, HasUser, HasSeeds
  <2>5. req' = [req EXCEPT ![q] = x]
    BY <1>0, <1>1, <2>1 DEF Seeds
  <2>6. role' \in [Roles -> Row]
    <3>1. NewRow([name |-> n, quota |-> Unlimited], TRUE) \in Row
      BY NamesAssumption DEF NewRow, Row
    <3>. QED  BY <1>0, <1>3, <3>1 DEF SeedRole
  <2>. HIDE DEF x
  <2>7. req' \in [Requests -> Request] /\ \A o \in Requests : Equipped(req'[o])
    BY <2>3, <2>4, <2>5, OneRequest
  <2>. QED  BY <1>3, <2>6, <2>7 DEF SeedRole, TypeInv, TypeOK
<1>4. ASSUME NEW c \in Perms, SeedPerm(q, c)  PROVE TypeInv'
  <2> DEFINE x == [req[q] EXCEPT !.form = [req[q].form EXCEPT !.perms = req[q].form.perms \ {c}]]
  <2>1. [req[q].form EXCEPT !.perms = req[q].form.perms \ {c}] \in Form
    BY <1>1 DEF Form
  <2>2. x \in Request /\ Equipped(x)
    BY <1>0, <2>1 DEF Request, Equipped, HasOp, HasRole, HasUser, HasSeeds
  <2>3. perms' \in [Roles -> SUBSET Perms] /\ saved' \in [Roles -> SUBSET Perms]
    BY <1>0, <1>4 DEF SeedPerm
  <2>4. CASE Live(req[q].role)
    <3>1. req' = [req EXCEPT ![q] = x]
      BY <1>0, <1>4, <2>4 DEF SeedPerm
    <3>. HIDE DEF x
    <3>2. req' \in [Requests -> Request] /\ \A o \in Requests : Equipped(req'[o])
      BY <2>2, <3>1, OneRequest
    <3>. QED  BY <1>4, <2>3, <3>2 DEF SeedPerm, TypeInv, TypeOK
  <2>5. CASE ~Live(req[q].role)
    <3>1. req' \in [Requests -> Request] /\ \A o \in Requests : Equipped(req'[o])
      BY <1>4, <2>5, EndTypes DEF SeedPerm, Finished
    <3>. QED  BY <1>4, <2>3, <3>1 DEF SeedPerm, TypeInv, TypeOK
  <2>. QED  BY <2>4, <2>5
<1>5. CASE SeedUsers(q)
  <2> DEFINE users == {u \in Users : account[u] # "none" /\ Legacy[u] # None}
             x == [req[q] EXCEPT !.users = users, !.pc = IF users = {} THEN "ok" ELSE "migrating"]
  <2>1. \A n \in StarterNames : req[q].objs[n] \in Roles
    BY <1>0, <1>5 DEF SeedUsers, Equipped, HasSeeds
  <2>2. x \in Request /\ Equipped(x)
    BY <1>0, <1>5, <2>1
       DEF SeedUsers, Request, Pc, Finished, Equipped, HasOp, HasRole, HasUser, HasSeeds
  <2>3. req' = [req EXCEPT ![q] = x]
    BY <1>0, <1>5 DEF SeedUsers
  <2>. HIDE DEF x
  <2>4. req' \in [Requests -> Request] /\ \A o \in Requests : Equipped(req'[o])
    BY <2>2, <2>3, OneRequest
  <2>. QED  BY <1>5, <2>4 DEF SeedUsers, TypeInv, TypeOK, tables
<1>6. ASSUME NEW u \in Users, SeedUser(q, u)  PROVE TypeInv'
  <2> DEFINE r == req[q].objs[Legacy[u]]
             rest == req[q].users \ {u}
             x == [req[q] EXCEPT !.users = rest, !.pc = IF rest = {} THEN "ok" ELSE "migrating"]
  <2>1. Legacy[u] \in StarterNames /\ r \in Roles
    BY <1>0, <1>6, UsersAssumption DEF SeedUser, Equipped, HasSeeds
  <2>2. x \in Request /\ Equipped(x)
    BY <1>0, <1>1, <1>6 DEF SeedUser, Request, Pc, Finished, Equipped, HasOp, HasRole, HasUser, HasSeeds
  <2>3. held' \in [Users -> SUBSET Roles] /\ given' \in [Users -> SUBSET Roles]
    BY <1>0, <1>6, <2>1 DEF SeedUser
  <2>4. CASE Live(r)
    <3>1. req' = [req EXCEPT ![q] = x]
      BY <1>0, <1>6, <2>4 DEF SeedUser
    <3>. HIDE DEF x
    <3>2. req' \in [Requests -> Request] /\ \A o \in Requests : Equipped(req'[o])
      BY <2>2, <3>1, OneRequest
    <3>. QED  BY <1>6, <2>3, <3>2 DEF SeedUser, TypeInv, TypeOK
  <2>5. CASE ~Live(r)
    <3>1. req' \in [Requests -> Request] /\ \A o \in Requests : Equipped(req'[o])
      BY <1>6, <2>5, EndTypes DEF SeedUser, Finished
    <3>. QED  BY <1>6, <2>3, <3>1 DEF SeedUser, TypeInv, TypeOK
  <2>. QED  BY <2>4, <2>5
<1>. QED  BY <1>2, <1>3, <1>4, <1>5, <1>6 DEF Seed

LEMMA NextTypes == TypeInv /\ [Next]_vars => TypeInv'
<1>. SUFFICES ASSUME TypeInv, [Next]_vars  PROVE TypeInv'
  OBVIOUS
<1>1. CASE UNCHANGED vars
  BY <1>1 DEF TypeInv, TypeOK, vars, tables
<1>2. ASSUME NEW q \in Requests, NEW u \in Users, Ask(q, u) \/ RegisterBegin(q, u)  PROVE TypeInv'
  BY <1>2, AskTypes
<1>3. ASSUME NEW q \in Requests, Dies(q)  PROVE TypeInv'
  <2>1. req' \in [Requests -> Request] /\ \A o \in Requests : Equipped(req'[o])
    BY <1>3, EndTypes DEF Dies, Finished
  <2>2. faults' \in Nat
    BY <1>3 DEF Dies, TypeInv, TypeOK
  <2>. QED  BY <1>3, <2>1, <2>2 DEF Dies, TypeInv, TypeOK, tables
<1>4. ASSUME NEW q \in Requests, Serve(q)  PROVE TypeInv'
  BY <1>4, RoleTypes, UserTypes DEF Serve
<1>. QED  BY <1>1, <1>2, <1>3, <1>4, SeedTypes DEF Next

\* Every variable keeps its type, and every request has the role, the user and
\* the seeded roles that its next step uses.
THEOREM TypeCorrect == Spec => []TypeOK
<1>1. Spec => []TypeInv
  BY InitTypes, NextTypes, PTL DEF Spec
<1>2. TypeInv => TypeOK
  BY DEF TypeInv
<1>. QED  BY <1>1, <1>2, PTL

(***************************************************************************)
(* Deleted roles.  Live is lost only in DeleteRole, which deletes what     *)
(* belongs to the role too; whoever inserts a row finds the role live.     *)
(***************************************************************************)
LEMMA GoneStep ==
  ASSUME TypeInv, GoneGivesNothing, [Next]_vars
  PROVE  GoneGivesNothing'
<1>0. /\ req \in [Requests -> Request] /\ role \in [Roles -> Row]
      /\ perms \in [Roles -> SUBSET Perms] /\ held \in [Users -> SUBSET Roles]
      /\ \A q \in Requests : Equipped(req[q])
  BY DEF TypeInv, TypeOK
<1>. SUFFICES ASSUME NEW r \in Roles, ~Live(r)'
              PROVE  perms'[r] = {} /\ \A u \in Users : r \notin held'[u]
  BY DEF GoneGivesNothing, Holders
<1>1. ~Live(r) => perms[r] = {} /\ \A u \in Users : r \notin held[u]
  BY DEF GoneGivesNothing, Holders
<1>2. CASE UNCHANGED <<role, perms, held>>
  BY <1>1, <1>2 DEF Live
<1>3. ASSUME NEW q \in Requests, UpdateRole(q) \/ \E s \in Roles : InsertRole(q, s)
      PROVE  perms' = perms /\ held' = held /\ ~Live(r)
  <2>1. CASE UpdateRole(q)
    <3>1. req[q].role \in Roles
      BY <1>0, <2>1 DEF UpdateRole, At, Equipped, HasOp, HasRole
    <3>. QED  BY <1>0, <2>1, <3>1 DEF UpdateRole, NewRow, Live
  <2>2. ASSUME NEW s \in Roles, InsertRole(q, s)  PROVE perms' = perms /\ held' = held /\ ~Live(r)
    BY <1>0, <2>2 DEF InsertRole, NewRow, Live
  <2>. QED  BY <1>3, <2>1, <2>2
<1>4. ASSUME NEW q \in Requests, ClearPerms(q) \/ InsertPerms(q)
      PROVE  perms'[r] = {} /\ held' = held /\ ~Live(r)
  BY <1>0, <1>1, <1>4 DEF ClearPerms, InsertPerms, Insertable, Live
<1>5. ASSUME NEW q \in Requests, DeleteRole(q)
      PROVE  perms'[r] = {} /\ \A u \in Users : r \notin held'[u]
  BY <1>0, <1>1, <1>5 DEF DeleteRole, Live
<1>6. ASSUME NEW q \in Requests, NEW n \in StarterNames, SeedRole(q, n)
      PROVE  perms' = perms /\ held' = held /\ ~Live(r)
  BY <1>0, <1>6 DEF SeedRole, NewRow, Live
<1>7. ASSUME NEW q \in Requests, NEW c \in Perms, SeedPerm(q, c)
      PROVE  perms'[r] = perms[r] /\ held' = held /\ ~Live(r)
  BY <1>0, <1>7 DEF SeedPerm, Live
<1>8. ASSUME NEW q \in Requests, NEW a \in Users, NEW u \in Users, NEW S \in Ticks, AdminSave(q, a, u, S)
      PROVE  perms' = perms /\ ~Live(r) /\ \A v \in Users : r \notin held'[v]
  BY <1>0, <1>1, <1>8 DEF AdminSave, Live
<1>9. ASSUME NEW q \in Requests, ClearRoles(q) \/ GiveDefault(q) \/ \E s \in Roles : GiveRole(q, s)
      PROVE  perms' = perms /\ \A v \in Users : r \notin held'[v]
  <2>1. role' = role /\ perms' = perms
    BY <1>9 DEF ClearRoles, GiveDefault, GiveRole
  <2>2. ~Live(r)
    BY <2>1 DEF Live
  <2>3. CASE ClearRoles(q)
    BY <1>0, <1>1, <2>1, <2>2, <2>3 DEF ClearRoles
  <2>4. CASE GiveDefault(q)
    BY <1>0, <1>1, <2>1, <2>2, <2>4 DEF GiveDefault
  <2>5. ASSUME NEW s \in Roles, GiveRole(q, s)  PROVE \A v \in Users : r \notin held'[v]
    BY <1>0, <1>1, <2>1, <2>2, <2>5 DEF GiveRole
  <2>. QED  BY <1>9, <2>1, <2>3, <2>4, <2>5
<1>10. ASSUME NEW q \in Requests, NEW u \in Users, SeedUser(q, u)
       PROVE  perms' = perms /\ ~Live(r) /\ \A v \in Users : r \notin held'[v]
  BY <1>0, <1>1, <1>10 DEF SeedUser, Live
<1>11. CASE UNCHANGED vars
  BY <1>2, <1>11 DEF vars, tables
<1>12. ASSUME NEW q \in Requests, Seed(q)
       PROVE  perms'[r] = {} /\ \A u \in Users : r \notin held'[u]
  BY <1>1, <1>2, <1>6, <1>7, <1>10, <1>12 DEF Seed, SeedBegin, SeedUsers, Begin, tables
<1>13. ASSUME NEW q \in Requests, Serve(q)
       PROVE  perms'[r] = {} /\ \A u \in Users : r \notin held'[u]
  <2>1. CASE ClearRoles(q) \/ GiveDefault(q) \/ \E s \in Roles : GiveRole(q, s)
    <3>1. role' = role
      BY <2>1 DEF ClearRoles, GiveDefault, GiveRole
    <3>. QED  BY <1>1, <1>9, <2>1, <3>1 DEF Live
  <2>2. CASE ~(ClearRoles(q) \/ GiveDefault(q) \/ \E s \in Roles : GiveRole(q, s))
    BY <1>1, <1>2, <1>3, <1>4, <1>5, <1>13, <2>2
       DEF Serve, SaveRefused, CopyPerms, SaveAccount, CreateUser, FindDefault, tables
  <2>. QED  BY <2>1, <2>2
<1>14. ASSUME NEW q \in Requests, NEW a \in Users, Ask(q, a)
       PROVE  perms'[r] = {} /\ \A u \in Users : r \notin held'[u]
  BY <1>1, <1>2, <1>8, <1>14
     DEF Ask, CreateBegin, EditBegin, DeleteBegin, CloneBegin, ActivateBegin, DeactivateBegin,
         AssignBegin, SetDefault, Begin, tables
<1>15. ASSUME NEW q \in Requests, NEW u \in Users, RegisterBegin(q, u)
       PROVE  UNCHANGED <<role, perms, held>>
  BY <1>15 DEF RegisterBegin, Begin, tables
<1>16. ASSUME NEW q \in Requests, Dies(q)
       PROVE  UNCHANGED <<role, perms, held>>
  BY <1>16 DEF Dies, tables
<1>. QED  BY <1>2, <1>11, <1>12, <1>13, <1>14, <1>15, <1>16 DEF Next

\* A role that was deleted, whoever was in the middle of saving or assigning
\* it, gives nobody anything, until an edit brings it back.
THEOREM GoneIsGone == Spec => []GoneGivesNothing
<1>1. Init => GoneGivesNothing
  BY FirstAssumption DEF Init, GoneGivesNothing, Live, Holders
<1>2. Spec => []TypeInv
  BY InitTypes, NextTypes, PTL DEF Spec
<1>. QED  BY <1>1, <1>2, GoneStep, PTL DEF Spec

(***************************************************************************)
(* What is taken away stays away.  Between the deletion of the old rows    *)
(* and the insertion of the new ones a request still owes its rows; what   *)
(* it owes is in the history, also after somebody else's deletion.         *)
(***************************************************************************)
OwesPerms(p) == p.pc \in {"cleared", "copied"}
OwesRoles(p) == p.op = "assign" /\ p.pc = "giving"

RevokeInv ==
  /\ RevokedIsGone
  /\ \A q \in Requests : OwesPerms(req[q]) => req[q].form.perms \subseteq saved[req[q].role]

WithdrawInv ==
  /\ WithdrawnIsGone
  /\ \A q \in Requests : OwesRoles(req[q]) => req[q].todo \subseteq given[req[q].user]

\* What a request does, and to which rows.
Same(p, x) ==
  /\ p.pc = x.pc /\ p.op = x.op /\ p.role = x.role /\ p.src = x.src /\ p.user = x.user
  /\ p.form = x.form /\ p.todo = x.todo

LEMMA JoinSame ==
  ASSUME TypeInv, NEW q \in Requests, NEW p \in Request, Joins(q, p)
  PROVE  Same(req'[q], p) /\ \A o \in Requests \ {q} : Same(req'[o], req[o])
<1>1. req \in [Requests -> Request]
  BY DEF TypeInv, TypeOK
<1>. QED  BY <1>1 DEF Joins, Same, Request

\* A request that begins owes nothing yet; the others go on.
LEMMA BeginOwes ==
  ASSUME TypeInv, NEW q \in Requests, NEW p \in Request, Begin(q, p)
  PROVE  Same(req'[q], p) /\ \A o \in Requests \ {q} : Same(req'[o], req[o])
<1> DEFINE x == [p EXCEPT !.alone = TRUE]
<1>1. x \in Request /\ Same(x, p)
  BY DEF Request, Same
<1>2. Joins(q, x)
  BY DEF Begin
<1>. HIDE DEF x
<1>. QED  BY <1>1, <1>2, JoinSame DEF Same

LEMMA AskOwes ==
  ASSUME TypeInv, NEW q \in Requests,
         (\E a \in Users : Ask(q, a) \/ RegisterBegin(q, a)) \/ SeedBegin(q)
  PROVE  /\ req'[q].pc \in {"checked", "counted", "seeding", "ok"}
         /\ \A o \in Requests \ {q} : Same(req'[o], req[o])
<1>1. ASSUME NEW p \in Request, Opening(p), Begin(q, p)
      PROVE  /\ req'[q].pc \in {"checked", "counted", "seeding", "ok"}
             /\ \A o \in Requests \ {q} : Same(req'[o], req[o])
  BY <1>1, BeginOwes DEF Same, Opening
<1>2. ASSUME NEW a \in Users, NEW u \in Users, NEW S \in Ticks, AdminSave(q, a, u, S)
      PROVE  /\ req'[q].pc \in {"checked", "counted", "seeding", "ok"}
             /\ \A o \in Requests \ {q} : Same(req'[o], req[o])
  <2> DEFINE p == [Fresh EXCEPT !.pc = "ok", !.op = "admin", !.user = u]
  <2>1. p \in Request /\ p.pc = "ok"
    BY FreshIsRequest DEF Request, Pc, Finished, AllKinds, Fresh
  <2>2. Joins(q, p)
    BY <1>2 DEF AdminSave
  <2>. HIDE DEF p
  <2>. QED  BY <2>1, <2>2, JoinSame DEF Same
<1>3. ASSUME NEW a \in Users, NEW n \in Names, SetDefault(q, a, n)
      PROVE  /\ req'[q].pc \in {"checked", "counted", "seeding", "ok"}
             /\ \A o \in Requests \ {q} : Same(req'[o], req[o])
  <2>1. req \in [Requests -> Request]
    BY DEF TypeInv, TypeOK
  <2>2. req'[q].pc = "ok"
    BY <1>3, <2>1 DEF SetDefault, Request
  <2>3. \A o \in Requests \ {q} : req'[o] = req[o]
    BY <1>3, <2>1 DEF SetDefault
  <2>. QED  BY <2>2, <2>3 DEF Same
<1>. QED  BY <1>1, <1>2, <1>3, Opens DEF Opened

\* So does a request that gets its row.
LEMMA InsertSame ==
  ASSUME TypeInv, NEW q \in Requests, NEW r \in Roles, InsertRole(q, r)
  PROVE  /\ req'[q].pc = IF req[q].op = "create" THEN "saved" ELSE "copying"
         /\ req'[q].role = r /\ req'[q].op = req[q].op /\ req'[q].src = req[q].src
         /\ req'[q].user = req[q].user /\ req'[q].form = req[q].form /\ req'[q].todo = req[q].todo
         /\ \A o \in Requests \ {q} : Same(req'[o], req[o])
<1> DEFINE pc == IF req[q].op = "create" THEN "saved" ELSE "copying"
           x  == [req[q] EXCEPT !.role = r, !.pc = pc]
<1>1. req[q] \in Request
  BY DEF TypeInv, TypeOK
<1>2. /\ x \in Request /\ x.pc = pc /\ x.role = r /\ x.op = req[q].op /\ x.src = req[q].src
      /\ x.user = req[q].user /\ x.form = req[q].form /\ x.todo = req[q].todo
  BY <1>1 DEF Request, Pc
<1>3. Joins(q, x)
  BY DEF InsertRole
<1>. HIDE DEF x
<1>. QED  BY <1>2, <1>3, JoinSame DEF Same

\* A seeded role changes neither what its request is doing nor the others.
LEMMA SeedsOwes ==
  ASSUME TypeInv, NEW q \in Requests, NEW n \in StarterNames, NEW r, Seeds(q, n, r)
  PROVE  /\ req'[q].pc = req[q].pc /\ req'[q].op = req[q].op
         /\ \A o \in Requests \ {q} : req'[o] = req[o]
<1> DEFINE x == [req[q] EXCEPT !.names = req[q].names \ {n}, !.objs = [req[q].objs EXCEPT ![n] = r],
                   !.role = r, !.form = [req[q].form EXCEPT !.perms = Starter[n]]]
<1>1. req \in [Requests -> Request] /\ req[q] \in Request
  BY DEF TypeInv, TypeOK
<1>2. /\ req[q].form \in Form /\ req[q].names \in SUBSET StarterNames
      /\ req[q].objs \in [StarterNames -> Roles \union {None}]
  BY <1>1 DEF Request
<1>3. req' = [req EXCEPT ![q] = x]
  BY <1>1, <1>2 DEF Seeds
<1>4. x.pc = req[q].pc /\ x.op = req[q].op
  BY <1>1 DEF Request
<1>. HIDE DEF x
<1>. QED  BY <1>1, <1>3, <1>4

\* A step that adds no permission, forgets none that was saved, and leaves
\* nobody owing more, keeps the invariant.
LEMMA RevokeQuiet ==
  ASSUME RevokeInv, \A r \in Roles : perms'[r] \subseteq perms[r], saved' = saved,
         \A o \in Requests : OwesPerms(req'[o]) =>
           OwesPerms(req[o]) /\ req'[o].role = req[o].role /\ req'[o].form = req[o].form
  PROVE  RevokeInv'
  BY DEF RevokeInv, RevokedIsGone

LEMMA RevokeStep == TypeInv /\ RevokeInv /\ [Next]_vars => RevokeInv'
<1>. SUFFICES ASSUME TypeInv, RevokeInv, [Next]_vars  PROVE RevokeInv'
  OBVIOUS
<1>0. /\ req \in [Requests -> Request] /\ saved \in [Roles -> SUBSET Perms]
      /\ perms \in [Roles -> SUBSET Perms]
  BY DEF TypeInv, TypeOK
<1>1. ASSUME NEW q \in Requests,
             (\E a \in Users : Ask(q, a) \/ RegisterBegin(q, a)) \/ SeedBegin(q)
      PROVE  RevokeInv'
  <2>1. \A o \in Requests : OwesPerms(req'[o]) => OwesPerms(req[o]) /\ Same(req'[o], req[o])
    BY <1>1, AskOwes DEF OwesPerms, Same
  <2>2. perms' = perms /\ saved' = saved
    <3>1. ASSUME NEW a \in Users, Ask(q, a)  PROVE perms' = perms /\ saved' = saved
      BY <3>1 DEF Ask, CreateBegin, EditBegin, DeleteBegin, CloneBegin, ActivateBegin,
                  DeactivateBegin, AssignBegin, AdminSave, SetDefault, Begin, tables
    <3>2. ASSUME NEW a \in Users, RegisterBegin(q, a)  PROVE perms' = perms /\ saved' = saved
      BY <3>2 DEF RegisterBegin, Begin, tables
    <3>3. ASSUME SeedBegin(q)  PROVE perms' = perms /\ saved' = saved
      BY <3>3 DEF SeedBegin, Begin, tables
    <3>. QED  BY <1>1, <3>1, <3>2, <3>3
  <2>. QED  BY <2>1, <2>2, RevokeQuiet DEF Same
<1>2. ASSUME NEW q \in Requests, ClearPerms(q)  PROVE RevokeInv'
  <2>1. req[q].role \in Roles
    BY <1>2 DEF ClearPerms, TypeInv, Equipped, HasOp, HasRole
  <2>2. \A r \in Roles : perms'[r] \subseteq saved'[r]
    BY <1>0, <1>2, <2>1 DEF ClearPerms, RevokeInv, RevokedIsGone
  <2>3. ASSUME NEW o \in Requests, OwesPerms(req'[o])
        PROVE  req'[o].form.perms \subseteq saved'[req'[o].role]
    <3>1. CASE o = q
      BY <1>0, <1>2, <2>1, <3>1 DEF ClearPerms, Goto, Request
    <3>2. CASE o # q /\ req[o].role = req[q].role
      BY <1>0, <1>2, <2>1, <2>3, <3>2 DEF ClearPerms, Goto, StillSaved, OwesPerms
    <3>3. CASE o # q /\ req[o].role # req[q].role
      BY <1>0, <1>2, <2>1, <2>3, <3>3 DEF ClearPerms, Goto, RevokeInv, OwesPerms
    <3>. QED  BY <3>1, <3>2, <3>3
  <2>. QED  BY <2>2, <2>3 DEF RevokeInv, RevokedIsGone
<1>3. ASSUME NEW q \in Requests, CopyPerms(q)  PROVE RevokeInv'
  <2>1. req[q].role \in Roles
    BY <1>3 DEF CopyPerms, TypeInv, Equipped, HasOp, HasRole
  <2>2. \A r \in Roles : saved[r] \subseteq saved'[r] /\ perms'[r] = perms[r]
    BY <1>0, <1>3, <2>1 DEF CopyPerms, tables
  <2>3. ASSUME NEW o \in Requests, OwesPerms(req'[o])
        PROVE  req'[o].form.perms \subseteq saved'[req'[o].role]
    <3>1. CASE o = q
      BY <1>0, <1>3, <2>1, <3>1 DEF CopyPerms, Request, Form
    <3>2. CASE o # q
      <4>1. req'[o] = req[o]
        BY <1>0, <1>3, <3>2 DEF CopyPerms
      <4>2. req[o].role \in Roles
        BY <2>3, <4>1 DEF OwesPerms, TypeInv, Equipped, HasOp, HasRole
      <4>. QED  BY <2>2, <2>3, <4>1, <4>2 DEF RevokeInv
    <3>. QED  BY <3>1, <3>2
  <2>. QED  BY <2>2, <2>3 DEF RevokeInv, RevokedIsGone
<1>4. ASSUME NEW q \in Requests, InsertPerms(q)  PROVE RevokeInv'
  <2>1. req[q].role \in Roles
    BY <1>4 DEF InsertPerms, TypeInv, Equipped, HasOp, HasRole
  <2>2. saved' = saved /\ \A r \in Roles : perms'[r] \subseteq saved[r]
    BY <1>0, <1>4, <2>1 DEF InsertPerms, RevokeInv, RevokedIsGone, OwesPerms
  <2>3. \A o \in Requests : OwesPerms(req'[o]) => req'[o] = req[o]
    <3>1. ~OwesPerms(req'[q])
      BY <1>0, <1>4 DEF InsertPerms, Goto, OwesPerms, Request
    <3>2. \A o \in Requests \ {q} : req'[o] = req[o]
      BY <1>0, <1>4 DEF InsertPerms, Goto
    <3>. QED  BY <3>1, <3>2
  <2>. QED  BY <2>2, <2>3 DEF RevokeInv, RevokedIsGone
<1>5. ASSUME NEW q \in Requests, NEW c \in Perms, SeedPerm(q, c)  PROVE RevokeInv'
  <2>1. \A r \in Roles : saved[r] \subseteq saved'[r] /\ perms'[r] \subseteq saved'[r]
    BY <1>0, <1>5 DEF SeedPerm, RevokeInv, RevokedIsGone
  <2>2. ASSUME NEW o \in Requests, OwesPerms(req'[o])  PROVE req'[o] = req[o] /\ req[o].role \in Roles
    <3>0. ~OwesPerms(req'[q])
      BY <1>0, <1>5 DEF SeedPerm, Goto, OwesPerms, Request
    <3>1. req'[o] = req[o]
      BY <1>0, <1>5, <2>2, <3>0 DEF SeedPerm, Goto
    <3>. QED  BY <2>2, <3>1 DEF OwesPerms, TypeInv, Equipped, HasOp, HasRole
  <2>. QED  BY <2>1, <2>2 DEF RevokeInv, RevokedIsGone
<1>6. ASSUME NEW q \in Requests, DeleteRole(q)  PROVE RevokeInv'
  <2>1. saved' = saved /\ \A r \in Roles : perms'[r] \subseteq perms[r]
    BY <1>0, <1>6 DEF DeleteRole
  <2>2. \A o \in Requests : OwesPerms(req'[o]) => req'[o] = req[o]
    <3>1. ~OwesPerms(req'[q])
      BY <1>0, <1>6 DEF DeleteRole, Goto, OwesPerms, Request
    <3>2. \A o \in Requests \ {q} : req'[o] = req[o]
      BY <1>0, <1>6 DEF DeleteRole, Goto
    <3>. QED  BY <3>1, <3>2
  <2>. QED  BY <2>1, <2>2, RevokeQuiet
<1>7. ASSUME NEW q \in Requests,
             \/ SaveRefused(q) \/ UpdateRole(q) \/ ClearRoles(q) \/ SaveAccount(q) \/ CreateUser(q)
             \/ FindDefault(q) \/ GiveDefault(q) \/ Dies(q) \/ SeedUsers(q)
      PROVE  RevokeInv'
  <2>1. \A o \in Requests : OwesPerms(req'[o]) => req'[o] = req[o]
    <3>1. ~OwesPerms(req'[q])
      BY <1>0, <1>7 DEF SaveRefused, UpdateRole, ClearRoles, SaveAccount, CreateUser, FindDefault,
                      GiveDefault, Dies, SeedUsers, Goto, OwesPerms, Request
    <3>2. \A o \in Requests \ {q} : req'[o] = req[o]
      BY <1>0, <1>7 DEF SaveRefused, UpdateRole, ClearRoles, SaveAccount, CreateUser, FindDefault,
                      GiveDefault, Dies, SeedUsers, Goto
    <3>. QED  BY <3>1, <3>2
  <2>2. perms' = perms /\ saved' = saved
    BY <1>7 DEF SaveRefused, UpdateRole, ClearRoles, SaveAccount, CreateUser, FindDefault,
                GiveDefault, Dies, SeedUsers, tables
  <2>. QED  BY <2>1, <2>2, RevokeQuiet
<1>8. ASSUME NEW q \in Requests, NEW r \in Roles, InsertRole(q, r) \/ GiveRole(q, r)
      PROVE  RevokeInv'
  <2>1. \A o \in Requests : OwesPerms(req'[o]) => OwesPerms(req[o]) /\ Same(req'[o], req[o])
    <3>1. CASE InsertRole(q, r)
      BY <3>1, InsertSame DEF Same, OwesPerms
    <3>2. CASE GiveRole(q, r)
      <4>1. ~OwesPerms(req'[q])
        BY <1>0, <3>2 DEF GiveRole, Goto, OwesPerms, Request
      <4>2. \A o \in Requests \ {q} : req'[o] = req[o]
        BY <1>0, <3>2 DEF GiveRole, Goto
      <4>. QED  BY <4>1, <4>2 DEF Same
    <3>. QED  BY <1>8, <3>1, <3>2
  <2>2. perms' = perms /\ saved' = saved
    BY <1>8 DEF InsertRole, GiveRole
  <2>. QED  BY <2>1, <2>2, RevokeQuiet DEF Same
<1>9. ASSUME NEW q \in Requests, NEW n \in StarterNames, SeedRole(q, n)  PROVE RevokeInv'
  <2>1. \A o \in Requests : OwesPerms(req'[o]) => req'[o] = req[o]
    <3>0. PICK r \in Roles : Seeds(q, n, r)
      BY <1>9 DEF SeedRole, Named
    <3>1. ~OwesPerms(req'[q])
      BY <1>9, <3>0, SeedsOwes DEF SeedRole, OwesPerms
    <3>2. \A o \in Requests \ {q} : req'[o] = req[o]
      BY <1>0, <1>9 DEF SeedRole, Seeds
    <3>. QED  BY <3>1, <3>2
  <2>2. perms' = perms /\ saved' = saved
    BY <1>9 DEF SeedRole
  <2>. QED  BY <2>1, <2>2, RevokeQuiet
<1>10. ASSUME NEW q \in Requests, NEW u \in Users, SeedUser(q, u)  PROVE RevokeInv'
  <2>1. \A o \in Requests : OwesPerms(req'[o]) => req'[o] = req[o]
    <3>1. ~OwesPerms(req'[q])
      BY <1>0, <1>10 DEF SeedUser, Goto, OwesPerms, Request
    <3>2. \A o \in Requests \ {q} : req'[o] = req[o]
      BY <1>0, <1>10 DEF SeedUser, Goto
    <3>. QED  BY <3>1, <3>2
  <2>2. perms' = perms /\ saved' = saved
    BY <1>10 DEF SeedUser
  <2>. QED  BY <2>1, <2>2, RevokeQuiet
<1>11. CASE UNCHANGED vars
  BY <1>11, RevokeQuiet DEF vars, tables
<1>. QED
  BY <1>1, <1>2, <1>3, <1>4, <1>5, <1>6, <1>7, <1>8, <1>9, <1>10, <1>11 DEF Next, Serve, Seed

\* A permission that was taken away from a role does not come back with a
\* save that was not meant to bring it back.
THEOREM RevokedStays == Spec => []RevokedIsGone
<1>1. Init => RevokeInv
  BY DEF Init, RevokeInv, RevokedIsGone, OwesPerms, Fresh
<1>2. Spec => []TypeInv
  BY InitTypes, NextTypes, PTL DEF Spec
<1>3. RevokeInv => RevokedIsGone
  BY DEF RevokeInv
<1>. QED  BY <1>1, <1>2, <1>3, RevokeStep, PTL DEF Spec

\* A step that gives no role without its being in the history, forgets none,
\* and leaves nobody owing more, keeps the invariant.
LEMMA WithdrawQuiet ==
  ASSUME TypeInv, WithdrawInv,
         \A u \in Users : given[u] \subseteq given'[u] /\ held'[u] \subseteq given'[u],
         \A o \in Requests : OwesRoles(req'[o]) =>
           OwesRoles(req[o]) /\ req'[o].user = req[o].user /\ req'[o].todo \subseteq req[o].todo
  PROVE  WithdrawInv'
<1>1. ASSUME NEW o \in Requests, OwesRoles(req'[o])
      PROVE  req'[o].todo \subseteq given'[req'[o].user]
  <2>1. req[o].user \in Users
    BY <1>1 DEF OwesRoles, TypeInv, Equipped, HasUser
  <2>. QED  BY <1>1, <2>1 DEF WithdrawInv
<1>. QED  BY <1>1 DEF WithdrawInv, WithdrawnIsGone

LEMMA WithdrawStep == TypeInv /\ WithdrawInv /\ [Next]_vars => WithdrawInv'
<1>. SUFFICES ASSUME TypeInv, WithdrawInv, [Next]_vars  PROVE WithdrawInv'
  OBVIOUS
<1>0. /\ req \in [Requests -> Request] /\ given \in [Users -> SUBSET Roles]
      /\ held \in [Users -> SUBSET Roles]
      /\ \A u \in Users : held[u] \subseteq given[u]
  BY DEF TypeInv, TypeOK, WithdrawInv, WithdrawnIsGone
<1>1. ASSUME NEW q \in Requests,
             (\E a \in Users : Ask(q, a) \/ RegisterBegin(q, a)) \/ SeedBegin(q)
      PROVE  WithdrawInv'
  <2>1. \A o \in Requests : OwesRoles(req'[o]) => OwesRoles(req[o]) /\ Same(req'[o], req[o])
    BY <1>1, AskOwes DEF OwesRoles, Same
  <2>2. \A u \in Users : given[u] \subseteq given'[u] /\ held'[u] \subseteq given'[u]
    <3>1. ASSUME NEW a \in Users, NEW u \in Users, NEW S \in Ticks, AdminSave(q, a, u, S)
          PROVE  \A v \in Users : given[v] \subseteq given'[v] /\ held'[v] \subseteq given'[v]
      BY <1>0, <3>1 DEF AdminSave
    <3>2. ASSUME NEW a \in Users, Ask(q, a),
                 ~\E u \in Users, S \in Ticks : AdminSave(q, a, u, S)
          PROVE  held' = held /\ given' = given
      BY <3>2 DEF Ask, CreateBegin, EditBegin, DeleteBegin, CloneBegin, ActivateBegin,
                  DeactivateBegin, AssignBegin, SetDefault, Begin, tables
    <3>3. ASSUME NEW a \in Users, RegisterBegin(q, a)  PROVE held' = held /\ given' = given
      BY <3>3 DEF RegisterBegin, Begin, tables
    <3>4. ASSUME SeedBegin(q)  PROVE held' = held /\ given' = given
      BY <3>4 DEF SeedBegin, Begin, tables
    <3>5. ASSUME NEW a \in Users, Ask(q, a)
          PROVE  \A v \in Users : given[v] \subseteq given'[v] /\ held'[v] \subseteq given'[v]
      <4>1. CASE \E u \in Users, S \in Ticks : AdminSave(q, a, u, S)
        BY <3>1, <4>1
      <4>2. CASE ~\E u \in Users, S \in Ticks : AdminSave(q, a, u, S)
        BY <1>0, <3>2, <3>5, <4>2
      <4>. QED  BY <4>1, <4>2
    <3>. QED  BY <1>0, <1>1, <3>3, <3>4, <3>5
  <2>. QED  BY <2>1, <2>2, WithdrawQuiet DEF Same
<1>2. ASSUME NEW q \in Requests, ClearRoles(q)  PROVE WithdrawInv'
  <2>1. req[q].user \in Users
    BY <1>2 DEF ClearRoles, At, TypeInv, Equipped, HasUser
  <2>2. \A u \in Users : held'[u] \subseteq given'[u]
    BY <1>0, <1>2, <2>1 DEF ClearRoles
  <2>3. ASSUME NEW o \in Requests, OwesRoles(req'[o])
        PROVE  req'[o].todo \subseteq given'[req'[o].user]
    <3>1. CASE o = q
      BY <1>0, <1>2, <2>1, <3>1 DEF ClearRoles, Goto, Request
    <3>2. CASE o # q /\ req[o].user = req[q].user
      BY <1>0, <1>2, <2>1, <2>3, <3>2 DEF ClearRoles, Goto, StillGiven, OwesRoles
    <3>3. CASE o # q /\ req[o].user # req[q].user
      BY <1>0, <1>2, <2>1, <2>3, <3>3 DEF ClearRoles, Goto, WithdrawInv, OwesRoles
    <3>. QED  BY <3>1, <3>2, <3>3
  <2>. QED  BY <2>2, <2>3 DEF WithdrawInv, WithdrawnIsGone
<1>3. ASSUME NEW q \in Requests, NEW r \in Roles, GiveRole(q, r)  PROVE WithdrawInv'
  <2>1. req[q].user \in Users /\ r \in given[req[q].user]
    BY <1>3 DEF GiveRole, At, TypeInv, Equipped, HasUser, WithdrawInv, OwesRoles
  <2>2. given' = given /\ \A u \in Users : held'[u] \subseteq given'[u]
    BY <1>0, <1>3, <2>1 DEF GiveRole
  <2>3. /\ req'[q].user = req[q].user /\ req'[q].todo \subseteq req[q].todo
        /\ OwesRoles(req[q])
    BY <1>0, <1>3 DEF GiveRole, At, Goto, Request, OwesRoles
  <2>4. \A o \in Requests \ {q} : req'[o] = req[o]
    BY <1>0, <1>3 DEF GiveRole, Goto
  <2>. QED  BY <2>2, <2>3, <2>4, WithdrawQuiet
<1>4. ASSUME NEW q \in Requests, GiveDefault(q)  PROVE WithdrawInv'
  <2>1. \A u \in Users : given[u] \subseteq given'[u] /\ held'[u] \subseteq given'[u]
    BY <1>0, <1>4 DEF GiveDefault
  <2>2. \A o \in Requests : OwesRoles(req'[o]) => req'[o] = req[o]
    <3>1. ~OwesRoles(req'[q])
      BY <1>0, <1>4 DEF GiveDefault, Goto, OwesRoles, Request
    <3>2. \A o \in Requests \ {q} : req'[o] = req[o]
      BY <1>0, <1>4 DEF GiveDefault, Goto
    <3>. QED  BY <3>1, <3>2
  <2>. QED  BY <2>1, <2>2, WithdrawQuiet
<1>5. ASSUME NEW q \in Requests, NEW u \in Users, SeedUser(q, u)  PROVE WithdrawInv'
  <2>1. \A v \in Users : given[v] \subseteq given'[v] /\ held'[v] \subseteq given'[v]
    BY <1>0, <1>5 DEF SeedUser
  <2>2. \A o \in Requests : OwesRoles(req'[o]) => req'[o] = req[o]
    <3>1. ~OwesRoles(req'[q])
      BY <1>0, <1>5 DEF SeedUser, Goto, OwesRoles, Request
    <3>2. \A o \in Requests \ {q} : req'[o] = req[o]
      BY <1>0, <1>5 DEF SeedUser, Goto
    <3>. QED  BY <3>1, <3>2
  <2>. QED  BY <2>1, <2>2, WithdrawQuiet
<1>6. ASSUME NEW q \in Requests, DeleteRole(q)  PROVE WithdrawInv'
  <2>1. given' = given /\ \A u \in Users : held'[u] \subseteq held[u]
    BY <1>0, <1>6 DEF DeleteRole
  <2>2. \A o \in Requests : OwesRoles(req'[o]) => req'[o] = req[o]
    <3>1. ~OwesRoles(req'[q])
      BY <1>0, <1>6 DEF DeleteRole, Goto, OwesRoles, Request
    <3>2. \A o \in Requests \ {q} : req'[o] = req[o]
      BY <1>0, <1>6 DEF DeleteRole, Goto
    <3>. QED  BY <3>1, <3>2
  <2>. QED  BY <1>0, <2>1, <2>2, WithdrawQuiet
<1>7. ASSUME NEW q \in Requests,
             \/ SaveRefused(q) \/ UpdateRole(q) \/ ClearPerms(q) \/ CopyPerms(q) \/ InsertPerms(q)
             \/ SaveAccount(q) \/ CreateUser(q) \/ FindDefault(q) \/ Dies(q) \/ SeedUsers(q)
      PROVE  WithdrawInv'
  <2>1. held' = held /\ given' = given
    BY <1>7 DEF SaveRefused, UpdateRole, ClearPerms, CopyPerms, InsertPerms, SaveAccount,
                CreateUser, FindDefault, Dies, SeedUsers, tables
  <2>2. \A o \in Requests : OwesRoles(req'[o]) => req'[o] = req[o]
    <3>1. ~OwesRoles(req'[q])
      <4>1. CASE FindDefault(q)
        BY <1>0, <4>1 DEF FindDefault, At, OwesRoles, Request
      <4>2. CASE ~FindDefault(q)
        BY <1>0, <1>7, <4>2 DEF SaveRefused, UpdateRole, ClearPerms, CopyPerms, InsertPerms,
           SaveAccount, CreateUser, Dies, SeedUsers, Goto, OwesRoles, Request
      <4>. QED  BY <4>1, <4>2
    <3>2. \A o \in Requests \ {q} : req'[o] = req[o]
      BY <1>0, <1>7 DEF SaveRefused, UpdateRole, ClearPerms, CopyPerms, InsertPerms,
         SaveAccount, CreateUser, FindDefault, Dies, SeedUsers, Goto
    <3>. QED  BY <3>1, <3>2
  <2>. QED  BY <1>0, <2>1, <2>2, WithdrawQuiet
<1>8. ASSUME NEW q \in Requests, NEW r \in Roles, InsertRole(q, r)  PROVE WithdrawInv'
  <2>1. held' = held /\ given' = given
    BY <1>8 DEF InsertRole
  <2>2. \A o \in Requests : OwesRoles(req'[o]) => OwesRoles(req[o]) /\ Same(req'[o], req[o])
    BY <1>8, InsertSame DEF Same, OwesRoles
  <2>. QED  BY <1>0, <2>1, <2>2, WithdrawQuiet DEF Same
<1>9. ASSUME NEW q \in Requests, NEW n \in StarterNames, SeedRole(q, n)  PROVE WithdrawInv'
  <2>1. held' = held /\ given' = given
    BY <1>9 DEF SeedRole
  <2>2. PICK r \in Roles : Seeds(q, n, r)
    BY <1>9 DEF SeedRole, Named
  <2>3. \A o \in Requests : OwesRoles(req'[o]) => req'[o] = req[o]
    BY <1>9, <2>2, SeedsOwes DEF SeedRole, OwesRoles
  <2>. QED  BY <1>0, <2>1, <2>3, WithdrawQuiet
<1>10. ASSUME NEW q \in Requests, NEW c \in Perms, SeedPerm(q, c)  PROVE WithdrawInv'
  <2>1. held' = held /\ given' = given
    BY <1>10 DEF SeedPerm
  <2>2. \A o \in Requests : OwesRoles(req'[o]) => req'[o] = req[o]
    <3>1. ~OwesRoles(req'[q])
      BY <1>0, <1>10 DEF SeedPerm, Goto, OwesRoles, Request
    <3>2. \A o \in Requests \ {q} : req'[o] = req[o]
      BY <1>0, <1>10 DEF SeedPerm, Goto
    <3>. QED  BY <3>1, <3>2
  <2>. QED  BY <1>0, <2>1, <2>2, WithdrawQuiet
<1>11. CASE UNCHANGED vars
  BY <1>0, <1>11, WithdrawQuiet DEF vars, tables
<1>. QED
  BY <1>1, <1>2, <1>3, <1>4, <1>5, <1>6, <1>7, <1>8, <1>9, <1>10, <1>11 DEF Next, Serve, Seed

\* A role that was taken away from a user does not come back with an
\* assignment that was not meant to bring it back.
THEOREM WithdrawnStays == Spec => []WithdrawnIsGone
<1>1. Init => WithdrawInv
  BY FirstAssumption DEF Init, WithdrawInv, WithdrawnIsGone, OwesRoles, Fresh
<1>2. Spec => []TypeInv
  BY InitTypes, NextTypes, PTL DEF Spec
<1>3. WithdrawInv => WithdrawnIsGone
  BY DEF WithdrawInv
<1>. QED  BY <1>1, <1>2, <1>3, WithdrawStep, PTL DEF Spec

(***************************************************************************)
(* The daily limit.  A user has finitely many roles, so one of the limits  *)
(* is the greatest.                                                        *)
(***************************************************************************)
LEMMA LimitOfRoles ==
  ASSUME TypeInv, NEW u \in Users, NEW n \in Nat
  PROVE  LET limit == DailyLimit(u)
             Allows(l) == IF l = Unlimited THEN TRUE ELSE n <= l
         IN  Allows(limit) <=> \/ u \in Superusers \/ held[u] = {}
                               \/ \E r \in held[u] : Allows(role[r].quota)
<1> DEFINE limits == {role[r].quota : r \in held[u]}
           Allows(l) == IF l = Unlimited THEN TRUE ELSE n <= l
<1>1. /\ held[u] \subseteq Roles
      /\ \A r \in held[u] : role[r].quota \in Nat \union {Unlimited}
  BY DEF TypeInv, TypeOK, Row
<1>2. CASE u \in Superusers \/ limits = {} \/ Unlimited \in limits
  <2>1. DailyLimit(u) = Unlimited
    BY <1>2 DEF DailyLimit
  <2>2. u \in Superusers \/ held[u] = {} \/ \E r \in held[u] : Allows(role[r].quota)
    BY <1>2
  <2>. QED  BY <2>1, <2>2
<1>3. CASE ~(u \in Superusers \/ limits = {} \/ Unlimited \in limits)
  <2>1. limits \subseteq Nat /\ limits # {}
    BY <1>1, <1>3
  <2>2. IsFiniteSet(limits)
    <3>1. IsFiniteSet(held[u])
      BY <1>1, RolesAssumption, FS_Subset
    <3> DEFINE f == [r \in held[u] |-> role[r].quota]
    <3>2. f \in Surjection(held[u], limits)
      BY DEF Surjection
    <3>. HIDE DEF limits, f
    <3>. QED  BY <3>1, <3>2, FS_Surjection
  <2>3. \E m \in limits : \A k \in limits : m >= k
    <3>. HIDE DEF limits
    <3>. QED  BY <2>1, <2>2, HasGreatest
  <2>4. DailyLimit(u) = CHOOSE m \in limits : \A k \in limits : m >= k
    BY <1>3 DEF DailyLimit
  <2>5. DailyLimit(u) \in limits /\ \A k \in limits : DailyLimit(u) >= k
    <3>. HIDE DEF limits
    <3>. QED  BY <2>3, <2>4
  <2>6. DailyLimit(u) \in Nat /\ \A k \in limits : k \in Nat /\ k # Unlimited
    BY <2>1, <2>5, NoneAssumption
  <2>7. n <= DailyLimit(u) <=> \E k \in limits : n <= k
    <3>. HIDE DEF limits
    <3>. QED  BY <2>5, <2>6
  <2>8. DailyLimit(u) # Unlimited /\ u \notin Superusers /\ held[u] # {}
    BY <1>3, <2>6, NoneAssumption
  <2>9. (\E k \in limits : n <= k) <=> \E r \in held[u] : Allows(role[r].quota)
    BY <2>6
  <2>. QED  BY <2>7, <2>8, <2>9
<1>. QED  BY <1>2, <1>3

\* The validations a user may make in a day are those the most permissive of
\* the user's roles allows, for every table of roles and every limit.
THEOREM LimitRight == Spec => []LimitIsMostPermissive
<1>1. TypeInv => LimitIsMostPermissive
  <2>. SUFFICES ASSUME TypeInv  PROVE LimitIsMostPermissive
    OBVIOUS
  <2>1. 0 .. 2 \subseteq Nat
    OBVIOUS
  <2>. QED  BY <2>1, LimitOfRoles DEF LimitIsMostPermissive
<1>2. Spec => []TypeInv
  BY InitTypes, NextTypes, PTL DEF Spec
<1>. QED  BY <1>1, <1>2, PTL

(***************************************************************************)
(* Steps.  A step starts a request or goes on with one; what goes on is in *)
(* flight and remains what it is.                                          *)
(***************************************************************************)
Starts(q) == (\E a \in Users : Ask(q, a) \/ RegisterBegin(q, a)) \/ SeedBegin(q)

GoesOn(q) ==
  \/ Serve(q) \/ Dies(q) \/ SeedUsers(q)
  \/ \E n \in StarterNames : SeedRole(q, n)
  \/ \E c \in Perms : SeedPerm(q, c)
  \/ \E u \in Users : SeedUser(q, u)

LEMMA EveryStep == [Next]_vars => UNCHANGED vars \/ \E q \in Requests : Starts(q) \/ GoesOn(q)
  BY DEF Next, Seed, Starts, GoesOn

\* One row of req, and the role it is about, are replaced.
LEMMA OneGoesOn ==
  ASSUME TypeInv, NEW q \in Requests, GoesOn(q)
  PROVE  /\ q \in InFlight /\ req'[q].pc # "idle"
         /\ req'[q].op = req[q].op /\ req'[q].user = req[q].user /\ req'[q].src = req[q].src
         /\ req'[q].role = req[q].role \/ req[q].op \in {"create", "clone", "register", "seed"}
         /\ \A o \in Requests \ {q} : Same(req'[o], req[o])
<1> DEFINE Fine == /\ q \in InFlight /\ req'[q].pc # "idle"
                   /\ req'[q].op = req[q].op /\ req'[q].user = req[q].user
                   /\ req'[q].src = req[q].src
                   /\ req'[q].role = req[q].role \/ req[q].op \in {"create", "clone", "register", "seed"}
                   /\ \A o \in Requests \ {q} : Same(req'[o], req[o])
<1>0. req \in [Requests -> Request] /\ req[q] \in Request /\ Equipped(req[q])
  BY DEF TypeInv, TypeOK
<1>1. ASSUME NEW pc, pc # "idle", Goto(q, pc), q \in InFlight  PROVE Fine
  BY <1>0, <1>1 DEF Goto, Same, Request
<1>2. ASSUME \/ SaveRefused(q) \/ UpdateRole(q) \/ ClearPerms(q) \/ InsertPerms(q) \/ DeleteRole(q)
             \/ SaveAccount(q) \/ CreateUser(q) \/ GiveDefault(q) \/ Dies(q)
      PROVE  Fine
  <2>1. q \in InFlight
    BY <1>0, <1>2 DEF SaveRefused, UpdateRole, ClearPerms, InsertPerms, DeleteRole, SaveAccount,
                      CreateUser, GiveDefault, Dies, At, InFlight, Finished
  <2>2. PICK pc : pc # "idle" /\ Goto(q, pc)
    BY <1>2 DEF SaveRefused, UpdateRole, ClearPerms, InsertPerms, DeleteRole, SaveAccount,
                CreateUser, GiveDefault, Dies
  <2>. QED  BY <1>1, <2>1, <2>2
<1>3. ASSUME ClearRoles(q)  PROVE Fine
  BY <1>1, <1>3 DEF ClearRoles, At, InFlight, Finished
<1>4. ASSUME CopyPerms(q)  PROVE Fine
  <2>1. req[q].form \in Form
    BY <1>0 DEF Request
  <2>. QED  BY <1>0, <1>4, <2>1 DEF CopyPerms, InFlight, Finished, Same, Request
<1>5. ASSUME FindDefault(q)  PROVE Fine
  BY <1>0, <1>5 DEF FindDefault, At, InFlight, Finished, Same, Request
<1>6. ASSUME NEW r \in Roles, InsertRole(q, r)  PROVE Fine
  <2>1. q \in InFlight /\ req[q].op \in {"create", "clone"}
    BY <1>6 DEF InsertRole, InFlight, Finished
  <2>. QED  BY <1>6, <2>1, InsertSame
<1>7. ASSUME NEW r \in Roles, GiveRole(q, r)  PROVE Fine
  <2>1. q \in InFlight
    BY <1>7 DEF GiveRole, At, InFlight, Finished
  <2>2. CASE Live(r)
    BY <1>0, <1>7, <2>1, <2>2 DEF GiveRole, Same, Request
  <2>3. CASE ~Live(r)
    BY <1>1, <1>7, <2>1, <2>3 DEF GiveRole
  <2>. QED  BY <2>2, <2>3
<1>8. ASSUME SeedUsers(q)  PROVE Fine
  BY <1>0, <1>8 DEF SeedUsers, InFlight, Finished, Same, Request
<1>9. ASSUME NEW n \in StarterNames, SeedRole(q, n)  PROVE Fine
  <2>1. PICK r \in Roles : Seeds(q, n, r)
    BY <1>9 DEF SeedRole, Named
  <2>2. q \in InFlight /\ req[q].op = "seed" /\ req[q].pc = "seeding"
    BY <1>0, <1>9 DEF SeedRole, InFlight, Finished, Equipped, HasOp
  <2>3. req'[q].user = req[q].user /\ req'[q].src = req[q].src
    <3> DEFINE x == [req[q] EXCEPT !.names = req[q].names \ {n}, !.objs = [req[q].objs EXCEPT ![n] = r],
                       !.role = r, !.form = [req[q].form EXCEPT !.perms = Starter[n]]]
    <3>1. req' = [req EXCEPT ![q] = x]
      BY <1>0, <2>1 DEF Seeds, Request, Form
    <3>2. x.user = req[q].user /\ x.src = req[q].src
      BY <1>0 DEF Request
    <3>. HIDE DEF x
    <3>. QED  BY <1>0, <3>1, <3>2
  <2>4. \A o \in Requests \ {q} : Same(req'[o], req[o])
    BY <2>1, SeedsOwes DEF Same
  <2>. QED  BY <2>1, <2>2, <2>3, <2>4, SeedsOwes
<1>10. ASSUME NEW c \in Perms, SeedPerm(q, c)  PROVE Fine
  <2>1. q \in InFlight
    BY <1>10 DEF SeedPerm, InFlight, Finished
  <2>2. CASE Live(req[q].role)
    <3>1. req[q].form \in Form
      BY <1>0 DEF Request
    <3>. QED  BY <1>0, <1>10, <2>1, <2>2, <3>1 DEF SeedPerm, Same, Request
  <2>3. CASE ~Live(req[q].role)
    BY <1>1, <1>10, <2>1, <2>3 DEF SeedPerm
  <2>. QED  BY <2>2, <2>3
<1>11. ASSUME NEW u \in Users, SeedUser(q, u)  PROVE Fine
  <2>1. q \in InFlight
    BY <1>11 DEF SeedUser, InFlight, Finished
  <2>2. CASE Live(req[q].objs[Legacy[u]])
    BY <1>0, <1>11, <2>1, <2>2 DEF SeedUser, Same, Request
  <2>3. CASE ~Live(req[q].objs[Legacy[u]])
    BY <1>1, <1>11, <2>1, <2>3 DEF SeedUser
  <2>. QED  BY <2>2, <2>3
<1>. HIDE DEF Fine
<1>12. ASSUME Serve(q)  PROVE Fine
  BY <1>2, <1>3, <1>4, <1>5, <1>6, <1>7, <1>12 DEF Serve
<1>13. Fine
  BY <1>2, <1>8, <1>9, <1>10, <1>11, <1>12 DEF GoesOn
<1>. QED  BY <1>13 DEF Fine

(***************************************************************************)
(* The default role of a new account.  Until somebody assigns or deletes   *)
(* roles a live role stays live, some role can be found, and what was      *)
(* given is kept.                                                          *)
(***************************************************************************)
Disturbed == \E p \in Requests : req[p].pc # "idle" /\ req[p].op \in {"assign", "delete"}

NewcomerInv ==
  \/ Disturbed
  \/ /\ \E r \in Roles : Live(r)
     /\ \A q \in Requests : req[q].op = "register" /\ req[q].pc # "idle" =>
          /\ req[q].user \in Users
          /\ req[q].pc = "giving" => Live(req[q].role)
          /\ req[q].pc = "ok" => held[req[q].user] # {}

\* get_default_role finds a role if there is one: the first of the alphabet, if
\* neither the setting nor the fallback names one.
LEMMA DefaultIsLive ==
  ASSUME TypeInv, NEW s \in Roles, Live(s)
  PROVE  DefaultRole \in Roles /\ Live(DefaultRole)
<1> DEFINE live  == {r \in Roles : Live(r)}
           ranks == {Rank[role[r].name] : r \in live}
           first == {r \in live : \A t \in live : Rank[role[r].name] <= Rank[role[t].name]}
           pick  == IF Named(default) # {} THEN Named(default)
                    ELSE IF Named(Fallback) # {} THEN Named(Fallback) ELSE first
<1>1. first # {}
  <2>1. ranks \subseteq Nat /\ ranks # {}
    BY NamesAssumption DEF TypeInv, TypeOK, Row
  <2>2. PICK n \in ranks : \A m \in ranks : n <= m
    <3>. HIDE DEF ranks
    <3>. QED  BY <2>1, HasLeast
  <2>3. PICK r \in live : n = Rank[role[r].name]
    OBVIOUS
  <2>. QED  BY <2>2, <2>3
<1>2. pick # {} /\ pick \subseteq live
  <2>. HIDE DEF first
  <2>1. first \subseteq live
    BY DEF first
  <2>. QED  BY <1>1, <2>1 DEF Named
<1>3. DefaultRole = CHOOSE r \in pick : TRUE
  BY <1>2 DEF DefaultRole
<1>4. DefaultRole \in pick
  <2>. HIDE DEF pick
  <2>. QED  BY <1>2, <1>3
<1>. QED  BY <1>2, <1>4

\* Roles are there for good, but for a deletion.
LEMMA LiveStays ==
  ASSUME TypeInv, NEW q \in Requests, Starts(q) \/ GoesOn(q), ~DeleteRole(q)
  PROVE  \A r \in Roles : Live(r) => role'[r].st = "live"
<1>0. /\ role \in [Roles -> Row] /\ req[q].role \in Roles \union {None}
  BY DEF TypeInv, TypeOK, Request
<1>1. ASSUME Starts(q)  PROVE role' = role
  BY <1>1 DEF Starts, Ask, CreateBegin, EditBegin, DeleteBegin, CloneBegin, ActivateBegin,
     DeactivateBegin, AssignBegin, AdminSave, SetDefault, RegisterBegin, SeedBegin, Begin, tables
<1>2. ASSUME UpdateRole(q)  PROVE \A r \in Roles : Live(r) => role'[r].st = "live"
  BY <1>0, <1>2 DEF UpdateRole, NewRow, Live
<1>3. ASSUME NEW s \in Roles, InsertRole(q, s)
      PROVE  \A r \in Roles : Live(r) => role'[r].st = "live"
  BY <1>0, <1>3 DEF InsertRole, NewRow, Live
<1>4. ASSUME NEW n \in StarterNames, SeedRole(q, n)
      PROVE  \A r \in Roles : Live(r) => role'[r].st = "live"
  BY <1>0, <1>4 DEF SeedRole, NewRow, Live
<1>5. ASSUME GoesOn(q), ~UpdateRole(q), ~\E s \in Roles : InsertRole(q, s),
             ~\E n \in StarterNames : SeedRole(q, n)
      PROVE  role' = role
  BY <1>5 DEF GoesOn, Serve, SaveRefused, ClearPerms, CopyPerms, InsertPerms, ClearRoles,
     SaveAccount, CreateUser, FindDefault, GiveDefault, GiveRole, Dies, SeedUsers, SeedPerm,
     SeedUser, tables
<1>. QED  BY <1>1, <1>2, <1>3, <1>4, <1>5 DEF Live

\* Roles are taken from users by assignments and deletions only.
LEMMA HeldStays ==
  ASSUME TypeInv, NEW q \in Requests, Starts(q) \/ GoesOn(q), ~DeleteRole(q), ~ClearRoles(q)
  PROVE  \A u \in Users : held[u] \subseteq held'[u]
<1>0. held \in [Users -> SUBSET Roles]
  BY DEF TypeInv, TypeOK
<1>1. ASSUME NEW a \in Users, NEW u \in Users, NEW S \in Ticks, AdminSave(q, a, u, S)
      PROVE  \A v \in Users : held[v] \subseteq held'[v]
  BY <1>0, <1>1 DEF AdminSave
<1>2. ASSUME Starts(q), ~\E a \in Users, u \in Users, S \in Ticks : AdminSave(q, a, u, S)
      PROVE  held' = held
  BY <1>2 DEF Starts, Ask, CreateBegin, EditBegin, DeleteBegin, CloneBegin, ActivateBegin,
     DeactivateBegin, AssignBegin, SetDefault, RegisterBegin, SeedBegin, Begin, tables
<1>3. ASSUME GiveDefault(q)  PROVE \A v \in Users : held[v] \subseteq held'[v]
  BY <1>0, <1>3 DEF GiveDefault
<1>4. ASSUME NEW r \in Roles, GiveRole(q, r)  PROVE \A v \in Users : held[v] \subseteq held'[v]
  BY <1>0, <1>4 DEF GiveRole
<1>5. ASSUME NEW u \in Users, SeedUser(q, u)  PROVE \A v \in Users : held[v] \subseteq held'[v]
  BY <1>0, <1>5 DEF SeedUser
<1>6. ASSUME GoesOn(q), ~GiveDefault(q), ~\E r \in Roles : GiveRole(q, r),
             ~\E u \in Users : SeedUser(q, u)
      PROVE  held' = held
  BY <1>6 DEF GoesOn, Serve, SaveRefused, UpdateRole, ClearPerms, CopyPerms, InsertPerms,
     InsertRole, SaveAccount, CreateUser, FindDefault, Dies, SeedUsers, SeedRole, SeedPerm, tables
<1>. QED  BY <1>1, <1>2, <1>3, <1>4, <1>5, <1>6

LEMMA DisturbedStays ==
  ASSUME TypeInv, NEW q \in Requests, Starts(q) \/ GoesOn(q), Disturbed
  PROVE  Disturbed'
<1>1. PICK p \in Requests : req[p].pc # "idle" /\ req[p].op \in {"assign", "delete"}
  BY DEF Disturbed
<1>2. CASE Starts(q)
  <2>1. req[q].pc = "idle"
    BY <1>2 DEF Starts, Ask, CreateBegin, EditBegin, DeleteBegin, CloneBegin, ActivateBegin,
       DeactivateBegin, AssignBegin, AdminSave, SetDefault, RegisterBegin, SeedBegin, Begin
  <2>. QED  BY <1>1, <1>2, <2>1, AskOwes DEF Starts, Same, Disturbed
<1>3. CASE GoesOn(q)
  BY <1>1, <1>3, OneGoesOn DEF Same, Disturbed
<1>. QED  BY <1>2, <1>3

\* Who finishes a registration.
LEMMA RegisterSteps ==
  ASSUME TypeInv, NEW q \in Requests, GoesOn(q), req[q].op = "register",
         ~FindDefault(q), ~GiveDefault(q)
  PROVE  req'[q].pc \notin {"giving", "ok"}
<1>0. req \in [Requests -> Request] /\ Equipped(req[q])
  BY DEF TypeInv, TypeOK
<1>1. CASE SaveRefused(q) \/ CreateUser(q) \/ Dies(q)
  BY <1>0, <1>1 DEF SaveRefused, CreateUser, Dies, Goto, Request
<1>2. ~UpdateRole(q) /\ ~ClearPerms(q) /\ ~CopyPerms(q) /\ ~InsertPerms(q) /\ ~DeleteRole(q)
  BY <1>0 DEF Equipped, HasOp, UpdateRole, ClearPerms, CopyPerms, InsertPerms, DeleteRole, At
<1>3. ~ClearRoles(q) /\ ~SaveAccount(q) /\ \A r \in Roles : ~InsertRole(q, r) /\ ~GiveRole(q, r)
  BY <1>0 DEF ClearRoles, SaveAccount, InsertRole, GiveRole, At
<1>4. /\ ~SeedUsers(q) /\ \A n \in StarterNames : ~SeedRole(q, n)
      /\ \A c \in Perms : ~SeedPerm(q, c)
      /\ \A u \in Users : ~SeedUser(q, u)
  BY <1>0 DEF Equipped, HasOp, SeedUsers, SeedRole, SeedPerm, SeedUser
<1>. QED  BY <1>1, <1>2, <1>3, <1>4 DEF GoesOn, Serve

LEMMA NewcomerStep == TypeInv /\ NewcomerInv /\ [Next]_vars => NewcomerInv'
<1>. SUFFICES ASSUME TypeInv, NewcomerInv, [Next]_vars  PROVE NewcomerInv'
  OBVIOUS
<1>0. req \in [Requests -> Request]
  BY DEF TypeInv, TypeOK
<1>1. CASE UNCHANGED vars
  BY <1>1 DEF NewcomerInv, Disturbed, Live, vars, tables
<1>2. CASE Disturbed
  BY <1>1, <1>2, EveryStep, DisturbedStays DEF NewcomerInv
<1>3. ASSUME NEW q \in Requests, Starts(q) \/ GoesOn(q), ~Disturbed, ~Disturbed'
      PROVE  NewcomerInv'
  <2>0. ~DeleteRole(q) /\ ~ClearRoles(q)
    BY <1>0, <1>3 DEF DeleteRole, ClearRoles, At, Disturbed, TypeInv, Equipped, HasOp
  <2>1. /\ \A r \in Roles : Live(r) => role'[r].st = "live"
        /\ \A u \in Users : held[u] \subseteq held'[u]
    BY <1>3, <2>0, LiveStays, HeldStays
  <2>2. \E r \in Roles : Live(r)
    BY <1>3 DEF NewcomerInv
  <2> DEFINE Settled(p) ==
        p.op = "register" /\ p.pc # "idle" =>
          /\ p.user \in Users
          /\ p.pc = "giving" => role'[p.role].st = "live"
          /\ p.pc = "ok" => held'[p.user] # {}
  <2>3. ASSUME NEW o \in Requests, req[o].pc = "giving" => req[o].role \in Roles
        PROVE  Settled(req[o])
    BY <1>3, <2>1, <2>3 DEF NewcomerInv, Live
  <2>4. \A o \in Requests : Settled(req[o])
    BY <2>3 DEF TypeInv, Equipped, HasRole
  <2>5. \A o \in Requests \ {q} : Settled(req'[o])
    <3>1. \A o \in Requests \ {q} : Same(req'[o], req[o])
      BY <1>3, AskOwes, OneGoesOn DEF Starts
    <3>. QED  BY <2>4, <3>1 DEF Same
  <2>6. Settled(req'[q])
    <3>1. ASSUME NEW p \in Request, Opening(p), Begin(q, p)  PROVE Settled(req'[q])
      BY <3>1, BeginOwes DEF Opening, Same
    <3>2. ASSUME NEW a \in Users, NEW u \in Users, NEW S \in Ticks, AdminSave(q, a, u, S)
          PROVE  Settled(req'[q])
      BY <1>0, <3>2 DEF AdminSave, Joins, Fresh
    <3>3. ASSUME NEW a \in Users, NEW n \in Names, SetDefault(q, a, n)
          PROVE  Settled(req'[q])
      BY <1>0, <3>3 DEF SetDefault, Request
    <3>4. CASE Starts(q)
      BY <3>1, <3>2, <3>3, <3>4, Opens DEF Starts, Opened
    <3>5. CASE FindDefault(q)
      <4>1. DefaultRole \in Roles /\ Live(DefaultRole) /\ DefaultRole # None
        BY <2>2, DefaultIsLive, NoneAssumption
      <4>2. /\ req'[q].pc = "giving" /\ req'[q].role = DefaultRole
            /\ req'[q].user = req[q].user /\ req'[q].op = req[q].op /\ req[q].pc # "idle"
        BY <1>0, <3>5, <4>1 DEF FindDefault, At, Request
      <4>. QED  BY <2>1, <2>4, <4>1, <4>2
    <3>6. CASE GiveDefault(q)
      <4>1. /\ req[q].op = "register" /\ req[q].pc = "giving" /\ req[q].role \in Roles
            /\ req[q].user \in Users /\ Live(req[q].role)
        BY <1>3, <3>6 DEF GiveDefault, At, NewcomerInv, TypeInv, Equipped, HasRole
      <4>2. held'[req[q].user] # {}
        BY <3>6, <4>1 DEF GiveDefault, TypeInv, TypeOK
      <4>3. req'[q].pc = "ok" /\ req'[q].user = req[q].user
        BY <1>0, <3>6 DEF GiveDefault, Goto, Request
      <4>. QED  BY <4>1, <4>2, <4>3
    <3>7. CASE GoesOn(q) /\ ~FindDefault(q) /\ ~GiveDefault(q)
      <4>1. CASE req[q].op = "register"
        <5>1. req'[q].pc \notin {"giving", "ok"} /\ req'[q].user = req[q].user /\ req[q].pc # "idle"
          BY <3>7, <4>1, RegisterSteps, OneGoesOn DEF InFlight
        <5>. QED  BY <2>4, <4>1, <5>1
      <4>2. CASE req[q].op # "register"
        BY <3>7, <4>2, OneGoesOn
      <4>. QED  BY <4>1, <4>2
    <3>. QED  BY <1>3, <3>4, <3>5, <3>6, <3>7
  <2>7. \A o \in Requests : Settled(req'[o])
    BY <2>5, <2>6
  <2>8. \E r \in Roles : role'[r].st = "live"
    BY <2>1, <2>2
  <2>. HIDE DEF Settled
  <2>. QED  BY <2>7, <2>8 DEF NewcomerInv, Settled, Live
<1>. QED  BY <1>1, <1>2, <1>3, EveryStep DEF NewcomerInv

\* A system that was installed, with some role, gives every new account one
\* whatever becomes of the default role and of its name meanwhile, unless
\* roles are deleted or assigned.
THEOREM NewcomerServed ==
  ASSUME \E r \in Roles : First.role[r].st = "live"
  PROVE  Spec => []NewcomerHasRole
<1>1. Init => NewcomerInv
  BY DEF Init, NewcomerInv, Live, Fresh
<1>2. Spec => []TypeInv
  BY InitTypes, NextTypes, PTL DEF Spec
<1>3. NewcomerInv => NewcomerHasRole
  BY DEF NewcomerInv, NewcomerHasRole, Disturbed
<1>. QED  BY <1>1, <1>2, <1>3, NewcomerStep, PTL DEF Spec

(***************************************************************************)
(* Requests that met nobody.  Whoever writes a row touches it, and nobody  *)
(* who is in flight touches a row of a request that met nobody.            *)
(***************************************************************************)
Apart ==
  \A q, x \in Requests :
    q # x /\ req[q].alone /\ x \in InFlight => ~Meet(req[q], req[x])

\* What a request touches depends on what it does, and to which rows.
LEMMA TouchesSame ==
  ASSUME NEW p, NEW x, p.op = x.op, p.role = x.role, p.src = x.src, p.user = x.user
  PROVE  Touches(p) = Touches(x)
  BY DEF Touches

LEMMA JoinApart ==
  ASSUME TypeInv, Apart, NEW q \in Requests, NEW p \in Request, Joins(q, p)
  PROVE  /\ Apart'
         /\ \A o \in Requests \ {q} : req'[o].alone => req[o].alone /\ ~Meet(req[o], p)
<1>0. req \in [Requests -> Request]
  BY DEF TypeInv, TypeOK
<1>1. /\ Touches(req'[q]) = Touches(p)
      /\ \A o \in Requests \ {q} : Touches(req'[o]) = Touches(req[o]) /\ req'[o].pc = req[o].pc
  BY JoinSame, TouchesSame DEF Same
<1>2. \A o \in Requests \ {q} : req'[o].alone => req[o].alone /\ ~Meet(req[o], p)
  BY <1>0 DEF Joins, Request
<1>3. req'[q].alone => \A x \in InFlight \ {q} : ~Meet(req[x], p)
  BY <1>0 DEF Joins, Request
<1>4. ASSUME NEW o \in Requests, NEW x \in Requests, o # x, req'[o].alone,
             req'[x].pc \notin Finished \union {"idle"}
      PROVE  ~Meet(req'[o], req'[x])
  <2>1. CASE o = q
    BY <1>1, <1>3, <1>4, <2>1 DEF InFlight, Meet
  <2>2. CASE x = q
    BY <1>1, <1>2, <1>4, <2>2 DEF Meet
  <2>3. CASE o # q /\ x # q
    BY <1>1, <1>2, <1>4, <2>3 DEF Apart, InFlight, Meet
  <2>. QED  BY <2>1, <2>2, <2>3
<1>5. Apart'
  BY <1>4 DEF Apart, InFlight
<1>. QED  BY <1>2, <1>5

\* The steps that leave the book as it is: others keep what they have, and the
\* request touches no other rows.
LEMMA QuietBook ==
  ASSUME TypeInv, NEW q \in Requests, GoesOn(q), \A r \in Roles : ~InsertRole(q, r)
  PROVE  /\ \A o \in Requests \ {q} : req'[o] = req[o]
         /\ req'[q].alone = req[q].alone
         /\ Touches(req'[q]) = Touches(req[q])
<1> DEFINE Fine == /\ \A o \in Requests \ {q} : req'[o] = req[o]
                   /\ req'[q].alone = req[q].alone
<1>0. req \in [Requests -> Request] /\ req[q] \in Request /\ req[q].form \in Form
  BY DEF TypeInv, TypeOK, Request
<1>1. ASSUME NEW pc, Goto(q, pc)  PROVE Fine
  BY <1>0, <1>1 DEF Goto, Request
<1>2. ASSUME \/ SaveRefused(q) \/ UpdateRole(q) \/ ClearPerms(q) \/ InsertPerms(q) \/ DeleteRole(q)
             \/ SaveAccount(q) \/ CreateUser(q) \/ GiveDefault(q) \/ ClearRoles(q) \/ Dies(q)
      PROVE  Fine
  <2>1. PICK pc : Goto(q, pc)
    BY <1>2 DEF SaveRefused, UpdateRole, ClearPerms, InsertPerms, DeleteRole, SaveAccount,
                CreateUser, GiveDefault, ClearRoles, Dies
  <2>. QED  BY <1>1, <2>1
<1>3. ASSUME CopyPerms(q)  PROVE Fine
  BY <1>0, <1>3 DEF CopyPerms, Request
<1>4. ASSUME FindDefault(q)  PROVE Fine
  BY <1>0, <1>4 DEF FindDefault, Request
<1>5. ASSUME NEW r \in Roles, GiveRole(q, r)  PROVE Fine
  <2>1. CASE Live(r)
    BY <1>0, <1>5, <2>1 DEF GiveRole, Request
  <2>2. CASE ~Live(r)
    BY <1>1, <1>5, <2>2 DEF GiveRole
  <2>. QED  BY <2>1, <2>2
<1>6. ASSUME SeedUsers(q)  PROVE Fine
  BY <1>0, <1>6 DEF SeedUsers, Request
<1>7. ASSUME NEW n \in StarterNames, SeedRole(q, n)  PROVE Fine
  <2>1. PICK r \in Roles : Seeds(q, n, r)
    BY <1>7 DEF SeedRole, Named
  <2> DEFINE x == [req[q] EXCEPT !.names = req[q].names \ {n}, !.objs = [req[q].objs EXCEPT ![n] = r],
                     !.role = r, !.form = [req[q].form EXCEPT !.perms = Starter[n]]]
  <2>2. req' = [req EXCEPT ![q] = x]
    BY <1>0, <2>1 DEF Seeds, Request
  <2>3. x.alone = req[q].alone
    BY <1>0 DEF Request
  <2>. HIDE DEF x
  <2>. QED  BY <1>0, <2>2, <2>3
<1>8. ASSUME NEW c \in Perms, SeedPerm(q, c)  PROVE Fine
  <2>1. CASE Live(req[q].role)
    BY <1>0, <1>8, <2>1 DEF SeedPerm, Request
  <2>2. CASE ~Live(req[q].role)
    BY <1>1, <1>8, <2>2 DEF SeedPerm
  <2>. QED  BY <2>1, <2>2
<1>9. ASSUME NEW u \in Users, SeedUser(q, u)  PROVE Fine
  <2>1. CASE Live(req[q].objs[Legacy[u]])
    BY <1>0, <1>9, <2>1 DEF SeedUser, Request
  <2>2. CASE ~Live(req[q].objs[Legacy[u]])
    BY <1>1, <1>9, <2>2 DEF SeedUser
  <2>. QED  BY <2>1, <2>2
<1>10. Touches(req'[q]) = Touches(req[q])
  <2>1. CASE req[q].op \in {"register", "seed"}
    BY <2>1, OneGoesOn DEF Touches, RoleSaves
  <2>2. CASE req[q].op \in {"create", "clone"}
    <3>1. req'[q].role = req[q].role
      <4>1. ASSUME NEW pc, Goto(q, pc)  PROVE req'[q].role = req[q].role
        BY <1>0, <4>1 DEF Goto, Request
      <4>2. CASE SaveRefused(q) \/ ClearPerms(q) \/ InsertPerms(q) \/ Dies(q)
        BY <4>1, <4>2 DEF SaveRefused, ClearPerms, InsertPerms, Dies
      <4>3. CASE CopyPerms(q)
        BY <1>0, <4>3 DEF CopyPerms, Request
      <4>4. SaveRefused(q) \/ ClearPerms(q) \/ InsertPerms(q) \/ Dies(q) \/ CopyPerms(q)
        <5>1. Equipped(req[q])
          BY DEF TypeInv
        <5>2. CASE Serve(q)
          BY <2>2, <5>1, <5>2 DEF Serve, UpdateRole, DeleteRole, ClearRoles, SaveAccount, CreateUser,
             FindDefault, GiveDefault, GiveRole, At, Equipped, HasOp
        <5>3. CASE ~Serve(q)
          BY <2>2, <5>1, <5>3 DEF GoesOn, SeedUsers, SeedRole, SeedPerm, SeedUser, Equipped, HasOp
        <5>. QED  BY <5>2, <5>3
      <4>. QED  BY <4>2, <4>3, <4>4
    <3>. QED  BY <3>1, OneGoesOn, TouchesSame
  <2>3. CASE req[q].op \notin {"create", "clone", "register", "seed"}
    BY <2>3, OneGoesOn, TouchesSame
  <2>. QED  BY <2>1, <2>2, <2>3
<1>. HIDE DEF Fine
<1>11. ASSUME Serve(q)  PROVE Fine
  BY <1>2, <1>3, <1>4, <1>5, <1>11 DEF Serve
<1>12. Fine
  BY <1>2, <1>6, <1>7, <1>8, <1>9, <1>11 DEF GoesOn
<1>. QED  BY <1>10, <1>12 DEF Fine

LEMMA ApartStep == TypeInv /\ Apart /\ [Next]_vars => Apart'
<1>. SUFFICES ASSUME TypeInv, Apart, [Next]_vars  PROVE Apart'
  OBVIOUS
<1>0. req \in [Requests -> Request]
  BY DEF TypeInv, TypeOK
<1>1. CASE UNCHANGED vars
  BY <1>1 DEF Apart, Meet, Touches, InFlight, vars
<1>2. ASSUME NEW q \in Requests, Opened(q)  PROVE Apart'
  <2>1. PICK p \in Request : Begin(q, p)
    BY <1>2 DEF Opened
  <2> DEFINE x == [p EXCEPT !.alone = TRUE]
  <2>2. x \in Request /\ Joins(q, x)
    BY <2>1 DEF Begin, Request
  <2>. HIDE DEF x
  <2>. QED  BY <2>2, JoinApart
<1>3. ASSUME NEW q \in Requests, NEW a \in Users, NEW u \in Users, NEW S \in Ticks, AdminSave(q, a, u, S)
      PROVE  Apart'
  <2> DEFINE p == [Fresh EXCEPT !.pc = "ok", !.op = "admin", !.user = u]
  <2>1. p \in Request /\ Joins(q, p)
    BY <1>3, FreshIsRequest DEF AdminSave, Request, Pc, Finished, AllKinds
  <2>. HIDE DEF p
  <2>. QED  BY <2>1, JoinApart
<1>4. ASSUME NEW q \in Requests, NEW a \in Users, NEW n \in Names, SetDefault(q, a, n)
      PROVE  Apart'
  <2>1. \A o \in Requests \ {q} : req'[o] = req[o]
    BY <1>0, <1>4 DEF SetDefault
  <2>2. req'[q].pc = "ok" /\ req'[q].op = "default"
    BY <1>0, <1>4 DEF SetDefault, Request
  <2>3. Touches(req'[q]) = {}
    BY <2>2 DEF Touches, RoleSaves
  <2>. QED  BY <2>1, <2>2, <2>3 DEF Apart, Meet, InFlight, Finished
<1>5. ASSUME NEW q \in Requests, NEW r \in Roles, InsertRole(q, r)  PROVE Apart'
  <2> DEFINE x == [req[q] EXCEPT !.role = r,
                     !.pc = IF req[q].op = "create" THEN "saved" ELSE "copying"]
  <2>1. x \in Request /\ Joins(q, x)
    BY <1>0, <1>5 DEF InsertRole, Request, Pc
  <2>. HIDE DEF x
  <2>. QED  BY <2>1, JoinApart
<1>6. ASSUME NEW q \in Requests, GoesOn(q), \A r \in Roles : ~InsertRole(q, r)  PROVE Apart'
  <2>1. \A o \in Requests : req'[o].alone = req[o].alone /\ Touches(req'[o]) = Touches(req[o])
    BY <1>6, QuietBook
  <2>2. \A o \in Requests : o \in InFlight' => o \in InFlight
    BY <1>6, QuietBook, OneGoesOn DEF InFlight
  <2>. QED  BY <2>1, <2>2 DEF Apart, Meet
<1>. QED  BY <1>1, <1>2, <1>3, <1>4, <1>5, <1>6, EveryStep, Opens DEF Starts

\* A request writes only rows it touches.
LEMMA RolesTouched ==
  ASSUME TypeInv, NEW q \in Requests, GoesOn(q), NEW s \in Roles, s \notin Touches(req'[q])
  PROVE  role'[s] = role[s] /\ perms'[s] = perms[s]
<1>0. /\ req \in [Requests -> Request] /\ Equipped(req[q])
      /\ role \in [Roles -> Row] /\ perms \in [Roles -> SUBSET Perms]
  BY DEF TypeInv, TypeOK
<1>1. ASSUME NEW r \in Roles, InsertRole(q, r)  PROVE role'[s] = role[s] /\ perms'[s] = perms[s]
  <2>1. r \in Touches(req'[q])
    <3>1. req'[q].op \in RoleSaves /\ req'[q].role = r
      BY <1>1, InsertSame DEF InsertRole, RoleSaves
    <3>2. r # None
      BY NoneAssumption
    <3>. QED  BY <3>1, <3>2 DEF Touches, RoleSaves
  <2>. QED  BY <1>0, <1>1, <2>1 DEF InsertRole
<1>2. ASSUME \A r \in Roles : ~InsertRole(q, r)  PROVE s \notin Touches(req[q])
  BY <1>2, QuietBook
<1>3. ASSUME UpdateRole(q) \/ ClearPerms(q) \/ InsertPerms(q), s \notin Touches(req[q])
      PROVE  role'[s] = role[s] /\ perms'[s] = perms[s]
  <2>1. req[q].op \in RoleSaves /\ req[q].role \in Roles
    BY <1>0, <1>3 DEF UpdateRole, ClearPerms, InsertPerms, At, Equipped, HasOp, HasRole, RoleSaves
  <2>2. req[q].role # None
    BY <2>1, NoneAssumption
  <2>3. s # req[q].role
    BY <1>3, <2>1, <2>2 DEF Touches, RoleSaves
  <2>4. CASE UpdateRole(q)
    BY <1>0, <2>1, <2>3, <2>4 DEF UpdateRole
  <2>5. CASE ClearPerms(q)
    BY <1>0, <2>1, <2>3, <2>5 DEF ClearPerms
  <2>6. CASE InsertPerms(q)
    BY <1>0, <2>1, <2>3, <2>6 DEF InsertPerms
  <2>. QED  BY <1>3, <2>4, <2>5, <2>6
<1>4. ASSUME DeleteRole(q), s \notin Touches(req[q])
      PROVE  role'[s] = role[s] /\ perms'[s] = perms[s]
  <2>1. req[q].op = "delete"
    BY <1>0, <1>4 DEF DeleteRole, Equipped, HasOp
  <2>2. s # req[q].role
    BY <1>4, <2>1 DEF Touches, RoleSaves
  <2>. QED  BY <1>0, <1>4, <2>2 DEF DeleteRole
<1>5. ASSUME (\E n \in StarterNames : SeedRole(q, n)) \/ (\E c \in Perms : SeedPerm(q, c)),
             s \notin Touches(req[q])
      PROVE  FALSE
  <2>1. req[q].op = "seed"
    BY <1>0, <1>5 DEF SeedRole, SeedPerm, Equipped, HasOp
  <2>. QED  BY <1>5, <2>1 DEF Touches, RoleSaves
<1>6. ASSUME SaveRefused(q) \/ CopyPerms(q) \/ ClearRoles(q) \/ SaveAccount(q) \/ CreateUser(q)
               \/ FindDefault(q) \/ GiveDefault(q) \/ Dies(q) \/ SeedUsers(q)
               \/ (\E r \in Roles : GiveRole(q, r)) \/ (\E u \in Users : SeedUser(q, u))
      PROVE  role' = role /\ perms' = perms
  BY <1>6 DEF SaveRefused, CopyPerms, ClearRoles, SaveAccount, CreateUser, FindDefault, GiveDefault,
     Dies, SeedUsers, GiveRole, SeedUser, tables
<1>7. ASSUME Serve(q)  PROVE role'[s] = role[s] /\ perms'[s] = perms[s]
  BY <1>1, <1>2, <1>3, <1>4, <1>6, <1>7 DEF Serve
<1>8. ASSUME NEW r \in Roles, InsertRole(q, r)  PROVE Serve(q)
  BY <1>8 DEF Serve
<1>. QED  BY <1>2, <1>5, <1>6, <1>7, <1>8 DEF GoesOn

LEMMA UsersTouched ==
  ASSUME TypeInv, NEW q \in Requests, GoesOn(q), NEW u \in Users, u \notin Touches(req[q])
  PROVE  held'[u] = held[u] /\ given'[u] = given[u]
<1>0. /\ req \in [Requests -> Request] /\ Equipped(req[q])
      /\ held \in [Users -> SUBSET Roles] /\ given \in [Users -> SUBSET Roles]
  BY DEF TypeInv, TypeOK
<1>1. ASSUME ClearRoles(q) \/ GiveDefault(q) \/ \E r \in Roles : GiveRole(q, r)
      PROVE  held'[u] = held[u] /\ given'[u] = given[u]
  <2>1. req[q].op \in {"assign", "register"}
    BY <1>1 DEF ClearRoles, GiveDefault, GiveRole, At
  <2>2. u # req[q].user
    BY <2>1 DEF Touches, RoleSaves
  <2>. QED  BY <1>0, <1>1, <2>2 DEF ClearRoles, GiveDefault, GiveRole
<1>2. ASSUME DeleteRole(q) \/ \E v \in Users : SeedUser(q, v)  PROVE FALSE
  <2>1. req[q].op \in {"delete", "seed"}
    BY <1>0, <1>2 DEF DeleteRole, SeedUser, Equipped, HasOp
  <2>. QED  BY <2>1 DEF Touches, RoleSaves
<1>3. ASSUME SaveRefused(q) \/ UpdateRole(q) \/ ClearPerms(q) \/ CopyPerms(q) \/ InsertPerms(q)
               \/ SaveAccount(q) \/ CreateUser(q) \/ FindDefault(q) \/ Dies(q) \/ SeedUsers(q)
               \/ (\E r \in Roles : InsertRole(q, r)) \/ (\E n \in StarterNames : SeedRole(q, n))
               \/ (\E c \in Perms : SeedPerm(q, c))
      PROVE  held' = held /\ given' = given
  BY <1>3 DEF SaveRefused, UpdateRole, ClearPerms, CopyPerms, InsertPerms, SaveAccount, CreateUser,
     FindDefault, Dies, SeedUsers, InsertRole, SeedRole, SeedPerm, tables
<1>. QED  BY <1>1, <1>2, <1>3 DEF GoesOn, Serve

\* Nobody else writes a row of a request that met nobody.
LEMMA Untouched ==
  ASSUME TypeInv, Apart, NEW z \in Requests, GoesOn(z), NEW q \in Requests, q # z, req'[q].alone
  PROVE  /\ req[q].alone
         /\ \A s \in Roles \cap Touches(req[q]) : role'[s] = role[s] /\ perms'[s] = perms[s]
         /\ \A u \in Users \cap Touches(req[q]) : held'[u] = held[u] /\ given'[u] = given[u]
<1>0. req \in [Requests -> Request] /\ req[z] \in Request /\ z \in InFlight
  BY OneGoesOn DEF TypeInv, TypeOK
<1>1. req[q].alone /\ ~Meet(req[q], req'[z])
  <2>1. ASSUME NEW r \in Roles, InsertRole(z, r)  PROVE req[q].alone /\ ~Meet(req[q], req'[z])
    <3> DEFINE x == [req[z] EXCEPT !.role = r,
                       !.pc = IF req[z].op = "create" THEN "saved" ELSE "copying"]
    <3>0. x \in Request
      BY <1>0 DEF Request, Pc
    <3>1. x \in Request /\ Joins(z, x)
      BY <2>1, <3>0 DEF InsertRole
    <3>. HIDE DEF x
    <3>2. Touches(req'[z]) = Touches(x)
      BY <3>1, JoinSame, TouchesSame DEF Same
    <3>. QED  BY <3>1, <3>2, JoinApart DEF Meet
  <2>2. CASE \A r \in Roles : ~InsertRole(z, r)
    BY <1>0, <2>2, QuietBook DEF Apart, Meet
  <2>. QED  BY <2>1, <2>2
<1>2. ~Meet(req[q], req[z])
  BY <1>0, <1>1 DEF Apart
<1>3. \A s \in Roles \cap Touches(req[q]) : s \notin Touches(req'[z])
  BY <1>1 DEF Meet
<1>4. \A u \in Users \cap Touches(req[q]) : u \notin Touches(req[z])
  BY <1>2 DEF Meet
<1>. QED  BY <1>1, <1>3, <1>4, RolesTouched, UsersTouched

(***************************************************************************)
(* Assignments that met nobody: what the user has and what is still to be  *)
(* given are together what was given since the old roles were deleted.     *)
(***************************************************************************)
AssignKept(p) ==
  p.alone /\ p.op = "assign" =>
    /\ p.pc \in {"giving", "ok"} => p.user \in Users
    /\ p.pc = "giving" => held[p.user] \union p.todo = given[p.user]
    /\ p.pc = "ok"     => held[p.user] = given[p.user]

AssignInv == \A q \in Requests : AssignKept(req[q])

\* A request that starts spoils the record of others, and writes no rows but
\* those of the user whose admin page is saved.
LEMMA StartsAlone ==
  ASSUME TypeInv, Apart, NEW z \in Requests, Starts(z), NEW q \in Requests, q # z, req'[q].alone
  PROVE  /\ req[q].alone /\ role' = role /\ perms' = perms
         /\ \A u \in Users \cap Touches(req[q]) : held'[u] = held[u] /\ given'[u] = given[u]
<1>0. /\ req \in [Requests -> Request]
      /\ held \in [Users -> SUBSET Roles] /\ given \in [Users -> SUBSET Roles]
  BY DEF TypeInv, TypeOK
<1>1. role' = role /\ perms' = perms
  BY DEF Starts, Ask, CreateBegin, EditBegin, DeleteBegin, CloneBegin, ActivateBegin,
     DeactivateBegin, AssignBegin, AdminSave, SetDefault, RegisterBegin, SeedBegin, Begin, tables
<1>2. ASSUME NEW p \in Request, Begin(z, p)
      PROVE  req[q].alone /\ held' = held /\ given' = given
  <2> DEFINE x == [p EXCEPT !.alone = TRUE]
  <2>1. x \in Request /\ Joins(z, x)
    BY <1>2 DEF Begin, Request
  <2>. HIDE DEF x
  <2>. QED  BY <1>2, <2>1, JoinApart DEF Begin, tables
<1>3. ASSUME NEW a \in Users, NEW v \in Users, NEW S \in Ticks, AdminSave(z, a, v, S)
      PROVE  /\ req[q].alone
             /\ \A u \in Users \cap Touches(req[q]) : held'[u] = held[u] /\ given'[u] = given[u]
  <2> DEFINE p == [Fresh EXCEPT !.pc = "ok", !.op = "admin", !.user = v]
  <2>1. /\ p \in Request /\ p.op = "admin" /\ p.user = v
        /\ Joins(z, p)
    BY <1>3, FreshIsRequest DEF AdminSave, Request, Pc, Finished, AllKinds
  <2>. HIDE DEF p
  <2>2. Touches(p) = {v}
    BY <2>1 DEF Touches, RoleSaves
  <2>3. req[q].alone /\ v \notin Touches(req[q])
    BY <2>1, <2>2, JoinApart DEF Meet
  <2>. QED  BY <1>0, <1>3, <2>3 DEF AdminSave
<1>4. ASSUME NEW a \in Users, NEW n \in Names, SetDefault(z, a, n)
      PROVE  req[q].alone /\ held' = held /\ given' = given
  BY <1>0, <1>4 DEF SetDefault
<1>. QED  BY <1>1, <1>2, <1>3, <1>4, Opens DEF Starts, Opened

\* Whoever the step is of, a request of others that met nobody keeps its rows
\* and goes on as it was.
LEMMA OthersKept ==
  ASSUME TypeInv, Apart, NEW z \in Requests, Starts(z) \/ GoesOn(z),
         NEW q \in Requests, q # z, req'[q].alone
  PROVE  /\ req[q].alone /\ Same(req'[q], req[q])
         /\ \A s \in Roles \cap Touches(req[q]) : role'[s] = role[s] /\ perms'[s] = perms[s]
         /\ \A u \in Users \cap Touches(req[q]) : held'[u] = held[u] /\ given'[u] = given[u]
<1>1. CASE Starts(z)
  BY <1>1, StartsAlone, AskOwes DEF Starts
<1>2. CASE GoesOn(z)
  BY <1>2, Untouched, OneGoesOn
<1>. QED  BY <1>1, <1>2

\* What a request is after it starts.
LEMMA JustStarted ==
  ASSUME TypeInv, NEW q \in Requests, Starts(q)
  PROVE  \/ req'[q].op \in {"admin", "default"}
         \/ /\ req'[q].pc \in {"checked", "counted", "seeding"}
            /\ req'[q].op = "clone" => req'[q].src \in Roles /\ role[req'[q].src].st = "live"
<1>0. req \in [Requests -> Request]
  BY DEF TypeInv, TypeOK
<1>1. ASSUME NEW p \in Request, Equipped(p), Opening(p), Begin(q, p)
      PROVE  /\ req'[q].pc \in {"checked", "counted", "seeding"}
             /\ req'[q].op = "clone" => req'[q].src \in Roles /\ role[req'[q].src].st = "live"
  <2>1. Same(req'[q], p)
    BY <1>1, BeginOwes
  <2>2. p.op = "clone" => p.src \in Roles
    BY <1>1 DEF Opening, Equipped, HasOp, HasRole
  <2>. QED  BY <1>1, <2>1, <2>2 DEF Opening, Same
<1>2. ASSUME NEW a \in Users, NEW u \in Users, NEW S \in Ticks, AdminSave(q, a, u, S)
      PROVE  req'[q].op = "admin"
  BY <1>0, <1>2 DEF AdminSave, Joins, Fresh
<1>3. ASSUME NEW a \in Users, NEW n \in Names, SetDefault(q, a, n)  PROVE req'[q].op = "default"
  BY <1>0, <1>3 DEF SetDefault, Request
<1>. QED  BY <1>1, <1>2, <1>3, Opens DEF Starts, Opened

LEMMA AssignSteps ==
  ASSUME TypeInv, NEW q \in Requests, GoesOn(q), req[q].op = "assign"
  PROVE  ClearRoles(q) \/ Dies(q) \/ \E r \in Roles : GiveRole(q, r)
<1>0. Equipped(req[q])
  BY DEF TypeInv
<1>1. CASE Serve(q)
  BY <1>0, <1>1 DEF Serve, SaveRefused, UpdateRole, ClearPerms, CopyPerms, InsertPerms, DeleteRole,
     SaveAccount, CreateUser, FindDefault, GiveDefault, InsertRole, At, RoleSaves, Equipped, HasOp
<1>2. CASE ~Serve(q)
  BY <1>0, <1>2 DEF GoesOn, SeedUsers, SeedRole, SeedPerm, SeedUser, Equipped, HasOp
<1>. QED  BY <1>1, <1>2

LEMMA AssignStep == TypeInv /\ Apart /\ AssignInv /\ [Next]_vars => AssignInv'
<1>. SUFFICES ASSUME TypeInv, Apart, AssignInv, [Next]_vars  PROVE AssignInv'
  OBVIOUS
<1>0. /\ req \in [Requests -> Request] /\ \A q \in Requests : Equipped(req[q])
      /\ held \in [Users -> SUBSET Roles] /\ given \in [Users -> SUBSET Roles]
  BY DEF TypeInv, TypeOK
<1>1. CASE UNCHANGED vars
  BY <1>1 DEF AssignInv, AssignKept, vars, tables
<1>2. ASSUME NEW z \in Requests, Starts(z) \/ GoesOn(z), NEW q \in Requests,
             req'[q].alone, req'[q].op = "assign"
      PROVE  /\ req'[q].pc \in {"giving", "ok"} => req'[q].user \in Users
             /\ req'[q].pc = "giving" => held'[req'[q].user] \union req'[q].todo = given'[req'[q].user]
             /\ req'[q].pc = "ok"     => held'[req'[q].user] = given'[req'[q].user]
  <2>1. CASE q # z
    <3>1. req[q].alone /\ Same(req'[q], req[q])
      BY <1>2, <2>1, OthersKept
    <3>2. Touches(req[q]) = {req[q].user}
      BY <1>2, <3>1 DEF Same, Touches, RoleSaves
    <3>3. req[q].user \in Users =>
            held'[req[q].user] = held[req[q].user] /\ given'[req[q].user] = given[req[q].user]
      BY <1>2, <2>1, <3>2, OthersKept
    <3>. QED  BY <1>2, <3>1, <3>3 DEF Same, AssignInv, AssignKept
  <2>2. CASE q = z /\ Starts(q)
    BY <1>2, <2>2, JustStarted
  <2>3. CASE q = z /\ GoesOn(q)
    <3> DEFINE u == req[q].user
    <3>1. req[q].op = "assign" /\ req[q].alone /\ req'[q].user = u
      <4>1. \A r \in Roles : ~InsertRole(q, r)
        BY <1>2, <2>3, InsertSame DEF InsertRole
      <4>. QED  BY <1>2, <2>3, <4>1, QuietBook, OneGoesOn
    <3>2. CASE Dies(q)
      BY <1>0, <3>2 DEF Dies, Goto, Request
    <3>3. CASE ClearRoles(q)
      <4>1. u \in Users
        BY <1>0, <3>3 DEF ClearRoles, At, Equipped, HasUser
      <4>2. StillGiven(q, u) = {}
        <5>1. ASSUME NEW p \in Requests \ {q}, req[p].user = u, req[p].pc = "giving"  PROVE FALSE
          <6>1. p \in InFlight /\ req[p].op \in {"assign", "register"}
            BY <1>0, <5>1 DEF InFlight, Finished, Equipped, HasOp
          <6>2. u \in Touches(req[p]) /\ u \in Touches(req[q])
            BY <3>1, <5>1, <6>1 DEF Touches, RoleSaves
          <6>. QED  BY <3>1, <5>1, <6>1, <6>2 DEF Apart, Meet
        <5>. QED  BY <5>1 DEF StillGiven
      <4>3. held'[u] = {} /\ given'[u] = req[q].todo
        BY <1>0, <3>3, <4>1, <4>2 DEF ClearRoles
      <4>4. /\ req'[q].todo = req[q].todo
            /\ req'[q].pc = IF req[q].todo = {} THEN "ok" ELSE "giving"
        BY <1>0, <3>3 DEF ClearRoles, Goto, Request
      <4>. QED  BY <3>1, <4>1, <4>3, <4>4
    <3>4. ASSUME NEW r \in Roles, GiveRole(q, r)
          PROVE  /\ req'[q].pc \in {"giving", "ok"} => u \in Users
                 /\ req'[q].pc = "giving" => held'[u] \union req'[q].todo = given'[u]
                 /\ req'[q].pc = "ok"     => held'[u] = given'[u]
      <4>1. /\ u \in Users /\ r \in req[q].todo /\ given' = given
            /\ held[u] \union req[q].todo = given[u]
        BY <3>1, <3>4 DEF GiveRole, At, AssignInv, AssignKept
      <4>2. CASE Live(r)
        <5>1. held'[u] = held[u] \union {r}
          BY <1>0, <3>4, <4>1, <4>2 DEF GiveRole
        <5>2. /\ req'[q].todo = req[q].todo \ {r}
              /\ req'[q].pc = IF req[q].todo \ {r} = {} THEN "ok" ELSE "giving"
          BY <1>0, <3>4, <4>2 DEF GiveRole, Request
        <5>. QED  BY <4>1, <5>1, <5>2
      <4>3. CASE ~Live(r)
        BY <1>0, <3>4, <4>3 DEF GiveRole, Goto, Request
      <4>. QED  BY <4>2, <4>3
    <3>. QED  BY <2>3, <3>1, <3>2, <3>3, <3>4, AssignSteps
  <2>. QED  BY <1>2, <2>1, <2>2, <2>3
<1>. QED  BY <1>1, <1>2, EveryStep DEF AssignInv, AssignKept

\* An assignment that succeeds while nobody else is at the user's rows leaves
\* the user exactly the roles that were given since, with any number of
\* requests at the same time elsewhere.
THEOREM AssignmentHolds == Spec => []UndisturbedAssignHolds
<1>1. Init => Apart /\ AssignInv
  BY DEF Init, Apart, AssignInv, AssignKept, Fresh
<1>2. Spec => []TypeInv
  BY InitTypes, NextTypes, PTL DEF Spec
<1>3. AssignInv => UndisturbedAssignHolds
  BY DEF AssignInv, AssignKept, UndisturbedAssignHolds
<1>. QED  BY <1>1, <1>2, <1>3, ApartStep, AssignStep, PTL DEF Spec

(***************************************************************************)
(* Saves that met nobody: the row is written first, its permissions are    *)
(* then deleted and inserted, and a copy still equals what it copied.      *)
(***************************************************************************)
Stored(p, rows, codes) ==
  /\ p.pc \in {"saved", "cleared", "copying", "copied", "ok"} =>
       /\ p.role \in Roles /\ rows[p.role].st = "live"
       /\ rows[p.role].name = p.form.name /\ rows[p.role].quota = p.form.quota
  /\ p.pc \in {"cleared", "copying", "copied"} => codes[p.role] = {}
  /\ p.pc = "ok" => codes[p.role] = p.form.perms
  /\ p.op = "clone" /\ p.pc # "failed" => p.src \in Roles /\ rows[p.src].st # "none"
  /\ p.op = "clone" /\ p.pc \in {"copying", "copied", "ok"} => p.src # p.role
  /\ p.op = "clone" /\ p.pc \in {"copied", "ok"} => codes[p.src] = p.form.perms

SaveInv ==
  \A q \in Requests : req[q].alone /\ req[q].op \in RoleSaves => Stored(req[q], role, perms)

LEMMA SaveSteps ==
  ASSUME TypeInv, NEW q \in Requests, GoesOn(q), req[q].op \in RoleSaves
  PROVE  \/ SaveRefused(q) \/ UpdateRole(q) \/ ClearPerms(q) \/ CopyPerms(q) \/ InsertPerms(q)
         \/ Dies(q) \/ \E r \in Roles : InsertRole(q, r)
<1>0. Equipped(req[q])
  BY DEF TypeInv
<1>1. CASE Serve(q)
  BY <1>0, <1>1 DEF Serve, DeleteRole, ClearRoles, SaveAccount, CreateUser, FindDefault, GiveDefault,
     GiveRole, At, RoleSaves, Equipped, HasOp
<1>2. CASE ~Serve(q)
  BY <1>0, <1>2 DEF GoesOn, SeedUsers, SeedRole, SeedPerm, SeedUser, RoleSaves, Equipped, HasOp
<1>. QED  BY <1>1, <1>2

\* One statement of a save that met nobody.
LEMMA StoreGoesOn ==
  ASSUME TypeInv, GoneGivesNothing, NEW q \in Requests, GoesOn(q), req[q].op \in RoleSaves,
         Stored(req[q], role, perms)
  PROVE  Stored(req'[q], role', perms')
<1> DEFINE p == req[q]
<1>0. /\ req \in [Requests -> Request] /\ p \in Request /\ p.form \in Form /\ Equipped(p)
      /\ role \in [Roles -> Row] /\ perms \in [Roles -> SUBSET Perms]
  BY DEF TypeInv, TypeOK, Request
<1>1. CASE SaveRefused(q) \/ Dies(q)
  <2>1. req'[q].pc = "failed"
    BY <1>0, <1>1 DEF SaveRefused, Dies, Goto, Request
  <2>. QED  BY <2>1 DEF Stored
<1>2. CASE UpdateRole(q)
  <2>1. p.role \in Roles /\ p.op = "edit"
    BY <1>0, <1>2 DEF UpdateRole, At, Equipped, HasRole
  <2>2. /\ role'[p.role].st = "live"
        /\ role'[p.role].name = p.form.name /\ role'[p.role].quota = p.form.quota
    BY <1>0, <1>2, <2>1 DEF UpdateRole, NewRow
  <2>3. /\ req'[q].pc = "saved" /\ req'[q].op = p.op /\ req'[q].role = p.role
        /\ req'[q].form = p.form
    BY <1>0, <1>2 DEF UpdateRole, Goto, Request
  <2>. QED  BY <2>1, <2>2, <2>3 DEF Stored
<1>3. CASE ClearPerms(q)
  <2>1. p.role \in Roles /\ p.op # "clone"
    BY <1>0, <1>3 DEF ClearPerms, Equipped, HasOp, HasRole
  <2>2. role' = role /\ perms'[p.role] = {}
    BY <1>0, <1>3, <2>1 DEF ClearPerms
  <2>3. /\ p.pc = "saved" /\ req'[q].pc = "cleared" /\ req'[q].op = p.op /\ req'[q].role = p.role
        /\ req'[q].form = p.form
    BY <1>0, <1>3 DEF ClearPerms, Goto, Request
  <2>. QED  BY <2>1, <2>2, <2>3 DEF Stored
<1>4. CASE CopyPerms(q)
  <2>1. p.op = "clone" /\ p.pc = "copying" /\ role' = role /\ perms' = perms
    BY <1>0, <1>4 DEF CopyPerms, Equipped, HasOp, tables
  <2>2. /\ req'[q].pc = "copied" /\ req'[q].op = p.op /\ req'[q].role = p.role
        /\ req'[q].src = p.src
    BY <1>0, <1>4 DEF CopyPerms, Request
  <2>3. /\ req'[q].form.name = p.form.name /\ req'[q].form.quota = p.form.quota
        /\ req'[q].form.perms = perms[p.src]
    BY <1>0, <1>4 DEF CopyPerms, Request, Form
  <2>. QED  BY <2>1, <2>2, <2>3 DEF Stored
<1>5. CASE InsertPerms(q)
  <2>1. p.pc \in {"cleared", "copied"} /\ p.role \in Roles /\ role' = role
    BY <1>0, <1>5 DEF InsertPerms, Equipped, HasRole
  <2>2. /\ req'[q].pc \in {"ok", "failed"} /\ req'[q].op = p.op /\ req'[q].role = p.role
        /\ req'[q].src = p.src /\ req'[q].form = p.form
    BY <1>0, <1>5 DEF InsertPerms, Goto, Request
  <2>3. CASE req'[q].pc = "failed"
    BY <2>3 DEF Stored
  <2>4. CASE req'[q].pc = "ok"
    <3>1. Insertable(q)
      BY <1>0, <1>5, <2>4 DEF InsertPerms, Goto, Request
    <3>2. perms' = [perms EXCEPT ![p.role] = @ \union p.form.perms]
      BY <1>5, <3>1 DEF InsertPerms
    <3>3. perms[p.role] = {}
      BY <2>1 DEF Stored
    <3>4. perms'[p.role] = p.form.perms /\ \A s \in Roles \ {p.role} : perms'[s] = perms[s]
      BY <1>0, <2>1, <3>2, <3>3
    <3>5. p.op = "clone" => /\ p.pc = "copied" /\ p.src \in Roles /\ p.src # p.role
                            /\ perms[p.src] = p.form.perms
      BY <1>0, <2>1 DEF Stored, Equipped, HasOp
    <3>. QED  BY <2>1, <2>2, <2>4, <3>4, <3>5 DEF Stored
  <2>. QED  BY <2>2, <2>3, <2>4
<1>6. ASSUME NEW r \in Roles, InsertRole(q, r)  PROVE Stored(req'[q], role', perms')
  <2>1. /\ perms' = perms /\ perms[r] = {} /\ role[r].st = "none"
    BY <1>6 DEF InsertRole, GoneGivesNothing, Live
  <2>2. /\ role'[r].st = "live" /\ role'[r].name = p.form.name /\ role'[r].quota = p.form.quota
        /\ \A s \in Roles \ {r} : role'[s] = role[s]
    BY <1>0, <1>6 DEF InsertRole, NewRow
  <2>3. /\ req'[q].pc = IF p.op = "create" THEN "saved" ELSE "copying"
        /\ req'[q].role = r /\ req'[q].op = p.op /\ req'[q].src = p.src /\ req'[q].form = p.form
    BY <1>6, InsertSame
  <2>4. p.op \in {"create", "clone"} /\ p.pc = "checked"
    BY <1>6 DEF InsertRole
  <2>5. p.op = "clone" => p.src \in Roles /\ p.src # r /\ role'[p.src].st # "none"
    BY <2>1, <2>2, <2>4 DEF Stored
  <2>. QED  BY <2>1, <2>2, <2>3, <2>4, <2>5 DEF Stored
<1>. QED  BY <1>1, <1>2, <1>3, <1>4, <1>5, <1>6, SaveSteps

LEMMA SaveStep == TypeInv /\ Apart /\ GoneGivesNothing /\ SaveInv /\ [Next]_vars => SaveInv'
<1>. SUFFICES ASSUME TypeInv, Apart, GoneGivesNothing, SaveInv, [Next]_vars  PROVE SaveInv'
  OBVIOUS
<1>0. req \in [Requests -> Request]
  BY DEF TypeInv, TypeOK
<1>1. CASE UNCHANGED vars
  BY <1>1 DEF SaveInv, vars, tables
<1>2. ASSUME NEW z \in Requests, Starts(z) \/ GoesOn(z), NEW q \in Requests,
             req'[q].alone, req'[q].op \in RoleSaves
      PROVE  Stored(req'[q], role', perms')
  <2>1. CASE q # z
    <3>1. req[q].alone /\ Same(req'[q], req[q])
      BY <1>2, <2>1, OthersKept
    <3>2. Touches(req[q]) = {req[q].role, req[q].src} \ {None}
      <4>1. req[q].op \in RoleSaves
        BY <1>2, <3>1 DEF Same
      <4>. QED  BY <4>1 DEF Touches, RoleSaves
    <3>3. /\ req[q].role \in Roles => role'[req[q].role] = role[req[q].role]
                                      /\ perms'[req[q].role] = perms[req[q].role]
          /\ req[q].src \in Roles => role'[req[q].src] = role[req[q].src]
                                     /\ perms'[req[q].src] = perms[req[q].src]
      <4>1. \A s \in Roles : s # None
        BY NoneAssumption
      <4>2. \A s \in Roles \cap Touches(req[q]) : role'[s] = role[s] /\ perms'[s] = perms[s]
        BY <1>2, <2>1, OthersKept
      <4>. QED  BY <3>2, <4>1, <4>2
    <3>4. Stored(req[q], role, perms)
      BY <1>2, <3>1 DEF Same, SaveInv
    <3>5. /\ req[q].pc \in {"saved", "cleared", "copying", "copied", "ok"} => req[q].role \in Roles
          /\ req[q].op = "clone" /\ req[q].pc # "failed" => req[q].src \in Roles
      BY <3>4 DEF Stored
    <3>. QED  BY <3>1, <3>3, <3>4, <3>5 DEF Same, Stored
  <2>2. CASE q = z /\ Starts(q)
    <3>1. role' = role
      BY <2>2 DEF Starts, Ask, CreateBegin, EditBegin, DeleteBegin, CloneBegin, ActivateBegin,
         DeactivateBegin, AssignBegin, AdminSave, SetDefault, RegisterBegin, SeedBegin, Begin, tables
    <3>2. /\ req'[q].pc \in {"checked", "counted", "seeding"}
          /\ req'[q].op = "clone" => req'[q].src \in Roles /\ role[req'[q].src].st = "live"
      BY <1>2, <2>2, JustStarted DEF RoleSaves
    <3>. QED  BY <3>1, <3>2 DEF Stored
  <2>3. CASE q = z /\ GoesOn(q)
    <3>1. req[q].alone
      <4>1. ASSUME NEW r \in Roles, InsertRole(q, r)  PROVE req[q].alone
        <5> DEFINE x == [req[q] EXCEPT !.role = r,
                           !.pc = IF req[q].op = "create" THEN "saved" ELSE "copying"]
        <5>1. x \in Request /\ x.alone = req[q].alone
          BY <1>0 DEF Request, Pc
        <5>2. Joins(q, x)
          BY <4>1 DEF InsertRole
        <5>. HIDE DEF x
        <5>. QED  BY <1>2, <5>1, <5>2 DEF Joins, Request
      <4>2. CASE \A r \in Roles : ~InsertRole(q, r)
        BY <1>2, <2>3, <4>2, QuietBook
      <4>. QED  BY <4>1, <4>2
    <3>2. req[q].op \in RoleSaves
      BY <1>2, <2>3, OneGoesOn
    <3>. QED  BY <2>3, <3>1, <3>2, StoreGoesOn DEF SaveInv
  <2>. QED  BY <1>2, <2>1, <2>2, <2>3
<1>. QED  BY <1>1, <1>2, EveryStep DEF SaveInv

\* A save that succeeds while nobody else is at its rows leaves there what was
\* submitted or copied, with any number of requests at the same time elsewhere.
THEOREM SaveHolds == Spec => []UndisturbedSaveHolds
<1>1. Init => Apart /\ SaveInv
  BY DEF Init, Apart, SaveInv, Fresh
<1>2. Spec => []TypeInv
  BY InitTypes, NextTypes, PTL DEF Spec
<1>3. SaveInv => UndisturbedSaveHolds
  BY DEF SaveInv, Stored, UndisturbedSaveHolds, Live
<1>. QED  BY <1>1, <1>2, <1>3, GoneIsGone, ApartStep, SaveStep, PTL DEF Spec
==============================================================================
