-------------------------- MODULE MCAccessControl --------------------------
(* Small instances of AccessControl for TLC. *)
EXTENDS AccessControl, TLC

CONSTANTS root, ann, bob, r1, r2, r3, r4, q1, q2, q3

\* Two starter roles, a custom one that the user ann holds, and bob, who is not
\* registered yet.
SeededRole(n) == [st |-> "live", name |-> n, quota |-> Unlimited, system |-> TRUE]

Installed ==
  [role |-> [r \in Roles |->
     CASE r = r1 -> SeededRole("Admin")
       [] r = r2 -> SeededRole("Developer")
       [] r = r3 -> [st |-> "live", name |-> "QA", quota |-> 1, system |-> FALSE]
       [] OTHER  -> [st |-> "none", name |-> "QA", quota |-> Unlimited, system |-> FALSE]],
   perms |-> [r \in Roles |-> IF r = r1 THEN Perms ELSE IF r = r3 THEN {"roles.edit"} ELSE {}],
   account |-> [u \in Users |-> IF u = bob THEN "none" ELSE "active"],
   held |-> [u \in Users |-> IF u = ann THEN {r2} ELSE {}]]

StarterRoles == [n \in {"Admin", "Developer"} |-> IF n = "Admin" THEN Perms ELSE {"roles.edit"}]
Alphabet == [n \in Names |-> CASE n = "Admin" -> 1 [] n = "Developer" -> 2
                               [] n = "QA" -> 3 [] OTHER -> 4]
OwnEmail == [u \in Users |-> u]
LegacyRole == [u \in Users |-> IF u = root THEN "Admin" ELSE None]

\* The first is the name of a starter role, which seed_rbac looks for too.
Submitted == {[name |-> "Developer", perms |-> {}, quota |-> 0],
              [name |-> "QA copy", perms |-> {"roles.edit"}, quota |-> 2]}

TickedRoles == {{}, {r2, r3}}

Anyone == Permutations(Requests)
=============================================================================
