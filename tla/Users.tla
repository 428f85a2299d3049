------------------------------- MODULE Users --------------------------------
(***************************************************************************)
(* User accounts, custom roles, groups and API keys (api/v2/users.py,      *)
(* api/v2/rbac.py, api/v2/groups.py, the API keys of api/v2/account.py and *)
(* auth/unified.py, auth/permissions.py).  Every handler runs to its end   *)
(* without a wait; the server may crash between the two commits of a       *)
(* regenerated key.  Keys are those of one user, Owner.                    *)
(***************************************************************************)
EXTENDS Naturals, FiniteSets

CONSTANTS
  User, Owner, CustomRole, Group,
  KeyId,               \* bound: API keys, 1..n in the order of their creation
  MaxKeys              \* API_KEY_MAX_PER_USER

ASSUME UsersAssumption == Owner \in User /\ IsFiniteSet(KeyId) /\ MaxKeys \in Nat

VARIABLES
  user,                \* user[u]: [there, role, active, custom]
  customRoles, groups, membership,
  apiKeys,             \* apiKeys[k]: none, active, revoked
  spare,               \* regenerations that took no active key away
  act                  \* the last request: [by, via, op]

userVars == <<user, customRoles, groups, membership, apiKeys, spare, act>>

NoUser == [there |-> FALSE, role |-> "viewer", active |-> FALSE, custom |-> "none"]

UsersInit ==
  /\ user = [u \in User |-> IF u = Owner THEN [there |-> TRUE, role |-> "admin", active |-> TRUE, custom |-> "none"]
                            ELSE NoUser]
  /\ customRoles = {} /\ groups = {} /\ membership = {}
  /\ apiKeys = [k \in KeyId |-> "none"]
  /\ spare = 0
  /\ act = [by |-> Owner, via |-> "session", op |-> "none"]

(* Type correctness of the accounts and of what refers to them. *)
UsersTypeOK ==
  /\ \A u \in User : user[u].role \in {"admin", "viewer"} /\ user[u].active \in BOOLEAN
                     /\ (~user[u].there => user[u] = NoUser)
  /\ customRoles \subseteq CustomRole /\ groups \subseteq Group
  /\ membership \subseteq Group \X {u \in User : user[u].there}
  /\ apiKeys \in [KeyId -> {"none", "active", "revoked"}]

-----------------------------------------------------------------------------
(* Who makes a request: the user of a session must be active, the owner of *)
(* a key need not be (verify_api_key does not look).                       *)

Acts(u, via) ==
  /\ user[u].there
  /\ \/ via = "session" /\ user[u].active
     \/ via = "key" /\ u = Owner /\ \E k \in KeyId : apiKeys[k] = "active"

AdminActs(u, via, op) ==
  /\ Acts(u, via) /\ user[u].role = "admin"
  /\ act' = [by |-> u, via |-> via, op |-> op]

SetUser(u, r) == user' = [user EXCEPT ![u] = r]

create_user(a, via, u) ==
  /\ AdminActs(a, via, "create") /\ ~user[u].there
  /\ \E r \in {"admin", "viewer"}, c \in customRoles \cup {"none"}, e \in BOOLEAN :
       SetUser(u, [there |-> TRUE, role |-> r, active |-> e, custom |-> c])
  /\ UNCHANGED <<customRoles, groups, membership, apiKeys, spare>>

(* import_users: each row of the file that names nobody yet. *)
import_users(a, via, u) ==
  /\ AdminActs(a, via, "create") /\ ~user[u].there
  /\ \E r \in {"admin", "viewer"} :
       SetUser(u, [there |-> TRUE, role |-> r, active |-> TRUE, custom |-> "none"])
  /\ UNCHANGED <<customRoles, groups, membership, apiKeys, spare>>

(* update_user by an administrator, who may be changing their own account. *)
update_user(a, via, u) ==
  /\ AdminActs(a, via, "update") /\ user[u].there
  /\ \E r \in {"admin", "viewer"}, c \in customRoles \cup {"none"}, e \in BOOLEAN :
       SetUser(u, [user[u] EXCEPT !.role = r, !.active = e, !.custom = c])
  /\ UNCHANGED <<customRoles, groups, membership, apiKeys, spare>>

(* Mutant: the administrator's own account is not spared. *)
SparedNobody(a, u) == TRUE

Spared(a, u) == u # a

(* delete_user: the row stays. *)
delete_user(a, via, u) ==
  /\ AdminActs(a, via, "delete") /\ user[u].there /\ Spared(a, u)
  /\ SetUser(u, [user[u] EXCEPT !.active = FALSE])
  /\ UNCHANGED <<customRoles, groups, membership, apiKeys, spare>>

(* bulk_delete_users: the identifiers are numbers, as the page sends them. *)
bulk_delete_users(a, via, U) ==
  /\ AdminActs(a, via, "delete")
  /\ user' = [u \in User |-> IF u \in U /\ Spared(a, u) THEN [user[u] EXCEPT !.active = FALSE] ELSE user[u]]
  /\ UNCHANGED <<customRoles, groups, membership, apiKeys, spare>>

toggle_user_status(a, via, u) ==
  /\ AdminActs(a, via, "toggle") /\ user[u].there /\ Spared(a, u)
  /\ SetUser(u, [user[u] EXCEPT !.active = ~@])
  /\ UNCHANGED <<customRoles, groups, membership, apiKeys, spare>>

-----------------------------------------------------------------------------
(* Custom roles and groups. *)

create_custom_role(a, via, c) ==
  /\ AdminActs(a, via, "role") /\ c \notin customRoles
  /\ customRoles' = customRoles \cup {c}
  /\ UNCHANGED <<user, groups, membership, apiKeys, spare>>

(* Mutant: only the active users of a role are counted. *)
AssignedActive(c) == \E u \in User : user[u].custom = c /\ user[u].active

Assigned(c) == \E u \in User : user[u].custom = c

delete_custom_role(a, via, c) ==
  /\ AdminActs(a, via, "role") /\ c \in customRoles /\ ~Assigned(c)
  /\ customRoles' = customRoles \ {c}
  /\ UNCHANGED <<user, groups, membership, apiKeys, spare>>

create_group(a, via, g) ==
  /\ AdminActs(a, via, "group") /\ g \notin groups
  /\ groups' = groups \cup {g}
  /\ UNCHANGED <<user, customRoles, membership, apiKeys, spare>>

(* The relationship deletes the members with their group. *)
MembersDeleted(g) == membership' = {m \in membership : m[1] # g}

delete_group(a, via, g) ==
  /\ AdminActs(a, via, "group") /\ g \in groups
  /\ groups' = groups \ {g}
  /\ MembersDeleted(g)
  /\ UNCHANGED <<user, customRoles, apiKeys, spare>>

add_group_member(a, via, g, u) ==
  /\ AdminActs(a, via, "member") /\ g \in groups /\ user[u].there /\ <<g, u>> \notin membership
  /\ membership' = membership \cup {<<g, u>>}
  /\ UNCHANGED <<user, customRoles, groups, apiKeys, spare>>

remove_group_member(a, via, g, u) ==
  /\ AdminActs(a, via, "member") /\ <<g, u>> \in membership
  /\ membership' = membership \ {<<g, u>>}
  /\ UNCHANGED <<user, customRoles, groups, apiKeys, spare>>

-----------------------------------------------------------------------------
(* API keys. *)

ActiveKeys == {k \in KeyId : apiKeys[k] = "active"}
NextKey == {k \in KeyId : apiKeys[k] = "none" /\ \A j \in KeyId : j < k => apiKeys[j] # "none"}
OwnerActs(via, op) == Acts(Owner, via) /\ act' = [by |-> Owner, via |-> via, op |-> op]

(* Mutant: the limit is compared with the wrong sign. *)
BelowLimitLate == Cardinality(ActiveKeys) <= MaxKeys

BelowLimit == Cardinality(ActiveKeys) < MaxKeys

create_api_key(via) ==
  /\ OwnerActs(via, "key") /\ BelowLimit
  /\ \E k \in NextKey : apiKeys' = [apiKeys EXCEPT ![k] = "active"]
  /\ UNCHANGED <<user, customRoles, groups, membership, spare>>

delete_api_key(via, k) ==
  /\ OwnerActs(via, "key") /\ apiKeys[k] # "none"
  /\ apiKeys' = [apiKeys EXCEPT ![k] = "revoked"]
  /\ UNCHANGED <<user, customRoles, groups, membership, spare>>

(* Mutant: a revoked key is given back its life under the new name. *)
regenerate_api_keyRevived(via, k) ==
  /\ OwnerActs(via, "key") /\ apiKeys[k] = "revoked"
  /\ apiKeys' = [apiKeys EXCEPT ![k] = "active"]
  /\ spare' = spare + 1
  /\ UNCHANGED <<user, customRoles, groups, membership>>

(* regenerate_api_key: no limit, and a key that was revoked will do.  The  *)
(* new key is committed first: a crash leaves the old one active.          *)
regenerate_api_key(via, k) ==
  /\ OwnerActs(via, "key") /\ apiKeys[k] # "none"
  /\ \E n \in NextKey, crash \in BOOLEAN :
       /\ apiKeys' = [apiKeys EXCEPT ![n] = "active", ![k] = IF crash THEN @ ELSE "revoked"]
       /\ spare' = IF crash \/ apiKeys[k] = "revoked" THEN spare + 1 ELSE spare
  /\ UNCHANGED <<user, customRoles, groups, membership>>

UsersNext ==
  \E via \in {"session", "key"} :
    \/ \E a \in User, U \in SUBSET User : bulk_delete_users(a, via, U)
    \/ \E a, u \in User :
         \/ create_user(a, via, u) \/ import_users(a, via, u) \/ update_user(a, via, u)
         \/ delete_user(a, via, u) \/ toggle_user_status(a, via, u)
    \/ \E a \in User, c \in CustomRole : create_custom_role(a, via, c) \/ delete_custom_role(a, via, c)
    \/ \E a \in User, g \in Group :
         \/ create_group(a, via, g) \/ delete_group(a, via, g)
         \/ \E u \in User : add_group_member(a, via, g, u) \/ remove_group_member(a, via, g, u)
    \/ create_api_key(via)
    \/ \E k \in KeyId : delete_api_key(via, k) \/ regenerate_api_key(via, k)

UsersSpec == UsersInit /\ [][UsersNext]_userVars

-----------------------------------------------------------------------------
(* No account refers to a custom role that has been deleted, and no        *)
(* membership to a group that has: deactivated accounts keep both.         *)
ReferencesResolve ==
  /\ \A u \in User : user[u].custom # "none" => user[u].custom \in customRoles
  /\ \A m \in membership : m[1] \in groups

(* A user has at most MaxKeys active keys, and one more for every key that *)
(* was regenerated after its revocation or across a crash.                 *)
KeysBounded == Cardinality(ActiveKeys) <= MaxKeys + spare

(* A key that has been revoked is never accepted again. *)
RevokedForGood ==
  [][\A k \in KeyId : apiKeys[k] = "revoked" => apiKeys'[k] = "revoked"]_userVars

(* Deleting and switching off accounts through a session never takes the   *)
(* last active administrator away; through the key of a deactivated        *)
(* administrator, or with update_user, it may.                             *)
AdminLeft ==
  [][(act'.via = "session" /\ act'.op \in {"delete", "toggle"} /\ user' # user)
       => \E u \in User : user'[u].active /\ user'[u].role = "admin"]_userVars
====
