---------------------------- MODULE AccessProofs ----------------------------
(***************************************************************************)
(* What TLAPS proves about access: accounts, roles and API keys (Users),   *)
(* client certificates (ClientCertificates), passwords, second factors,    *)
(* security keys and sessions (Login), single sign-on (SingleSignOn) and   *)
(* the limits on requests (RateLimiter).                                   *)
(***************************************************************************)
EXTENDS MCAccess, FiniteSetTheorems, WellFoundedInduction, TLAPS

----------------------------------------------------------------------------
(* Accounts, roles, groups and API keys.                                   *)

UserRow == [there : BOOLEAN, role : {"admin", "viewer"}, active : BOOLEAN, custom : CustomRole \cup {"none"}]

AccountsFine ==
  /\ user \in [User -> UserRow]
  /\ \A u \in User : ~user[u].there => user[u] = NoUser
  /\ customRoles \subseteq CustomRole /\ groups \subseteq Group
  /\ membership \subseteq Group \X {u \in User : user[u].there}

KeysFine == apiKeys \in [KeyId -> {"none", "active", "revoked"}] /\ spare \in Nat /\ KeysBounded

UsersInv == AccountsFine /\ ReferencesResolve /\ KeysFine

\* The row of an absent user refers to no role.
LEMMA NoUserFine == NoUser \in UserRow /\ NoUser.custom = "none"
<1>1. NoUser.custom = "none"
  BY DEF NoUser
<1>2. NoUser \in UserRow
  BY DEF NoUser, UserRow
<1> QED
  BY <1>1, <1>2

\* The invariant of the accounts holds before the first request.
LEMMA UsersInitInv == UsersInit => UsersInv
<1> SUFFICES ASSUME UsersInit PROVE UsersInv
  OBVIOUS
<1> DEFINE First == [there |-> TRUE, role |-> "admin", active |-> TRUE, custom |-> "none"]
<1>1. First \in UserRow /\ First.there = TRUE /\ First.custom = "none"
  BY DEF UserRow
<1>2. user = [u \in User |-> IF u = Owner THEN First ELSE NoUser]
  BY DEF UsersInit
<1> HIDE DEF First
<1>3. AccountsFine
  BY <1>1, <1>2, NoUserFine DEF UsersInit, AccountsFine
<1>4. ReferencesResolve
  BY <1>1, <1>2, NoUserFine DEF UsersInit, ReferencesResolve
<1>5. KeysFine
  <2>1. ActiveKeys = {}
    BY DEF UsersInit, ActiveKeys
  <2>2. Cardinality(ActiveKeys) = 0
    BY <2>1, FS_EmptySet
  <2>3. Cardinality(ActiveKeys) <= MaxKeys + spare
    BY <2>2, UsersAssumption DEF UsersInit
  <2> QED
    BY <2>3 DEF UsersInit, KeysFine, KeysBounded
<1> QED
  BY <1>3, <1>4, <1>5 DEF UsersInv

\* A row is written; nobody who was there leaves.
LEMMA RowWrittenFine ==
  ASSUME AccountsFine, ReferencesResolve, NEW u \in User, NEW x \in UserRow, x.there = TRUE,
         x.custom \in customRoles \cup {"none"}, SetUser(u, x),
         customRoles' = customRoles, groups' = groups, membership' = membership
  PROVE  AccountsFine' /\ ReferencesResolve'
<1>1. user' = [user EXCEPT ![u] = x]
  BY DEF SetUser
<1>2. user' \in [User -> UserRow] /\ user'[u] = x /\ \A v \in User \ {u} : user'[v] = user[v]
  BY <1>1 DEF AccountsFine
<1>3. \A v \in User : ~user'[v].there => user'[v] = NoUser
  BY <1>2 DEF AccountsFine
<1>4. {v \in User : user[v].there} \subseteq {v \in User : user'[v].there}
  BY <1>2
<1>5. AccountsFine'
  BY <1>2, <1>3, <1>4 DEF AccountsFine
<1>6. ReferencesResolve'
  BY <1>2 DEF ReferencesResolve
<1> QED
  BY <1>5, <1>6

\* A step that leaves the API keys alone keeps their bound.
LEMMA KeysStay ==
  ASSUME KeysFine, apiKeys' = apiKeys, spare' = spare
  PROVE  KeysFine'
BY DEF KeysFine, KeysBounded, ActiveKeys

\* A request on one account keeps the invariant.
LEMMA AccountStepInv ==
  ASSUME UsersInv, NEW via, NEW a \in User, NEW u \in User,
         \/ create_user(a, via, u) \/ import_users(a, via, u) \/ update_user(a, via, u)
         \/ delete_user(a, via, u) \/ toggle_user_status(a, via, u)
  PROVE  UsersInv'
<1>1. customRoles' = customRoles /\ groups' = groups /\ membership' = membership /\ apiKeys' = apiKeys /\ spare' = spare
  BY DEF create_user, import_users, update_user, delete_user, toggle_user_status
<1>2. user[u] \in UserRow /\ user[u].custom \in customRoles \cup {"none"} /\ customRoles \subseteq CustomRole
  BY DEF UsersInv, AccountsFine, ReferencesResolve
<1>3. \E x \in UserRow : x.there = TRUE /\ x.custom \in customRoles \cup {"none"} /\ SetUser(u, x)
  <2>1. CASE create_user(a, via, u)
    <3>1. PICK r \in {"admin", "viewer"}, c \in customRoles \cup {"none"}, e \in BOOLEAN :
            SetUser(u, [there |-> TRUE, role |-> r, active |-> e, custom |-> c])
      BY <2>1 DEF create_user
    <3>2. PICK x : x = [there |-> TRUE, role |-> r, active |-> e, custom |-> c]
      OBVIOUS
    <3>3. x \in UserRow /\ x.there = TRUE /\ x.custom = c
      BY <1>2, <3>2 DEF UserRow
    <3> QED
      BY <3>1, <3>2, <3>3
  <2>2. CASE import_users(a, via, u)
    <3>1. PICK r \in {"admin", "viewer"} :
            SetUser(u, [there |-> TRUE, role |-> r, active |-> TRUE, custom |-> "none"])
      BY <2>2 DEF import_users
    <3>2. PICK x : x = [there |-> TRUE, role |-> r, active |-> TRUE, custom |-> "none"]
      OBVIOUS
    <3>3. x \in UserRow /\ x.there = TRUE /\ x.custom = "none"
      BY <3>2 DEF UserRow
    <3> QED
      BY <3>1, <3>2, <3>3
  <2>3. CASE update_user(a, via, u)
    <3>1. PICK r \in {"admin", "viewer"}, c \in customRoles \cup {"none"}, e \in BOOLEAN :
            SetUser(u, [user[u] EXCEPT !.role = r, !.active = e, !.custom = c])
      BY <2>3 DEF update_user
    <3>2. PICK x : x = [user[u] EXCEPT !.role = r, !.active = e, !.custom = c]
      OBVIOUS
    <3>3. user[u].there
      BY <2>3 DEF update_user
    <3>4. x \in UserRow /\ x.there = TRUE /\ x.custom = c
      BY <1>2, <3>2, <3>3 DEF UserRow
    <3> QED
      BY <3>1, <3>2, <3>4
  <2>4. CASE delete_user(a, via, u)
    <3>1. SetUser(u, [user[u] EXCEPT !.active = FALSE]) /\ user[u].there
      BY <2>4 DEF delete_user
    <3>2. PICK x : x = [user[u] EXCEPT !.active = FALSE]
      OBVIOUS
    <3>3. x \in UserRow /\ x.there = TRUE /\ x.custom = user[u].custom
      BY <1>2, <3>1, <3>2 DEF UserRow
    <3> QED
      BY <1>2, <3>1, <3>2, <3>3
  <2>5. CASE toggle_user_status(a, via, u)
    <3>1. SetUser(u, [user[u] EXCEPT !.active = ~user[u].active]) /\ user[u].there
      BY <2>5 DEF toggle_user_status
    <3>2. PICK x : x = [user[u] EXCEPT !.active = ~user[u].active]
      OBVIOUS
    <3>3. x \in UserRow /\ x.there = TRUE /\ x.custom = user[u].custom
      BY <1>2, <3>1, <3>2 DEF UserRow
    <3> QED
      BY <1>2, <3>1, <3>2, <3>3
  <2> QED
    BY <2>1, <2>2, <2>3, <2>4, <2>5
<1>4. AccountsFine' /\ ReferencesResolve'
  BY <1>1, <1>3, RowWrittenFine DEF UsersInv
<1>5. KeysFine'
  BY <1>1, KeysStay DEF UsersInv
<1> QED
  BY <1>4, <1>5 DEF UsersInv

\* Accounts deleted together, with what refers to them, keep the invariant.
LEMMA BulkDeleteInv ==
  ASSUME UsersInv, NEW via, NEW a \in User, NEW U \in SUBSET User, bulk_delete_users(a, via, U)
  PROVE  UsersInv'
<1>1. /\ customRoles' = customRoles /\ groups' = groups /\ membership' = membership /\ apiKeys' = apiKeys /\ spare' = spare
      /\ user' = [u \in User |-> IF u \in U /\ Spared(a, u) THEN [user[u] EXCEPT !.active = FALSE] ELSE user[u]]
  BY DEF bulk_delete_users
<1>2. \A u \in User : user[u] \in UserRow
  BY DEF UsersInv, AccountsFine
<1>3. \A u \in User : /\ user'[u] \in UserRow /\ user'[u].there = user[u].there /\ user'[u].custom = user[u].custom
                      /\ (~user[u].there => user'[u] = NoUser)
  <2> SUFFICES ASSUME NEW u \in User
               PROVE  /\ user'[u] \in UserRow /\ user'[u].there = user[u].there /\ user'[u].custom = user[u].custom
                      /\ (~user[u].there => user'[u] = NoUser)
    OBVIOUS
  <2>1. user[u] \in UserRow /\ (~user[u].there => user[u] = NoUser)
    BY DEF UsersInv, AccountsFine
  <2>2. PICK x : x = [user[u] EXCEPT !.active = FALSE]
    OBVIOUS
  <2>3. x \in UserRow /\ x.there = user[u].there /\ x.custom = user[u].custom
    BY <2>1, <2>2 DEF UserRow
  <2>4. ASSUME user[u] = NoUser PROVE x = NoUser
    <3>1. x = [NoUser EXCEPT !.active = FALSE] /\ NoUser.active = FALSE
      BY <2>2, <2>4 DEF NoUser
    <3> QED
      BY <3>1, NoUserFine DEF UserRow
  <2>5. user'[u] = x \/ user'[u] = user[u]
    BY <1>1, <2>2
  <2> QED
    BY <2>1, <2>3, <2>4, <2>5
<1>4. user' \in [User -> UserRow]
  BY <1>1, <1>3
<1>5. AccountsFine'
  <2>1. {u \in User : user'[u].there} = {u \in User : user[u].there}
    BY <1>3
  <2> QED
    BY <1>1, <1>3, <1>4, <2>1 DEF UsersInv, AccountsFine
<1>6. ReferencesResolve'
  BY <1>1, <1>3 DEF UsersInv, ReferencesResolve
<1>7. KeysFine'
  BY <1>1, KeysStay DEF UsersInv
<1> QED
  BY <1>5, <1>6, <1>7 DEF UsersInv

\* A request on roles, groups or members keeps the invariant.
LEMMA RolesAndGroupsInv ==
  ASSUME UsersInv, NEW via, NEW a \in User,
         \/ \E c \in CustomRole : create_custom_role(a, via, c) \/ delete_custom_role(a, via, c)
         \/ \E g \in Group : \/ create_group(a, via, g) \/ delete_group(a, via, g)
                             \/ \E u \in User : add_group_member(a, via, g, u) \/ remove_group_member(a, via, g, u)
  PROVE  UsersInv'
<1>1. user' = user /\ apiKeys' = apiKeys /\ spare' = spare
  BY DEF create_custom_role, delete_custom_role, create_group, delete_group, add_group_member, remove_group_member
<1>2. KeysFine'
  BY <1>1, KeysStay DEF UsersInv
<1>3. customRoles' \subseteq CustomRole /\ \A u \in User : user[u].custom # "none" => user[u].custom \in customRoles'
  <2>1. ASSUME NEW c \in CustomRole, create_custom_role(a, via, c) \/ delete_custom_role(a, via, c)
        PROVE  customRoles' \subseteq CustomRole /\ \A u \in User : user[u].custom # "none" => user[u].custom \in customRoles'
    BY <2>1 DEF create_custom_role, delete_custom_role, Assigned, UsersInv, AccountsFine, ReferencesResolve
  <2>2. CASE customRoles' = customRoles
    BY <2>2 DEF UsersInv, AccountsFine, ReferencesResolve
  <2> QED
    BY <2>1, <2>2 DEF create_group, delete_group, add_group_member, remove_group_member
<1>4. /\ groups' \subseteq Group /\ membership' \subseteq Group \X {u \in User : user[u].there}
      /\ \A m \in membership' : m[1] \in groups'
  <2>0. /\ groups \subseteq Group /\ membership \subseteq Group \X {u \in User : user[u].there}
        /\ \A m \in membership : m[1] \in groups
    BY DEF UsersInv, AccountsFine, ReferencesResolve
  <2>1. CASE groups' = groups /\ membership' = membership
    BY <2>0, <2>1
  <2>2. ASSUME NEW g \in Group, create_group(a, via, g)
        PROVE  /\ groups' \subseteq Group /\ membership' \subseteq Group \X {u \in User : user[u].there}
               /\ \A m \in membership' : m[1] \in groups'
    BY <2>0, <2>2 DEF create_group
  <2>3. ASSUME NEW g \in Group, delete_group(a, via, g)
        PROVE  /\ groups' \subseteq Group /\ membership' \subseteq Group \X {u \in User : user[u].there}
               /\ \A m \in membership' : m[1] \in groups'
    BY <2>0, <2>3 DEF delete_group, MembersDeleted
  <2>4. ASSUME NEW g \in Group, NEW u \in User, add_group_member(a, via, g, u)
        PROVE  /\ groups' \subseteq Group /\ membership' \subseteq Group \X {v \in User : user[v].there}
               /\ \A m \in membership' : m[1] \in groups'
    BY <2>0, <2>4 DEF add_group_member
  <2>5. ASSUME NEW g \in Group, NEW u \in User, remove_group_member(a, via, g, u)
        PROVE  /\ groups' \subseteq Group /\ membership' \subseteq Group \X {v \in User : user[v].there}
               /\ \A m \in membership' : m[1] \in groups'
    BY <2>0, <2>5 DEF remove_group_member
  <2>6. ASSUME NEW c \in CustomRole, create_custom_role(a, via, c) \/ delete_custom_role(a, via, c)
        PROVE  groups' = groups /\ membership' = membership
    BY <2>6 DEF create_custom_role, delete_custom_role
  <2> QED
    BY <2>1, <2>2, <2>3, <2>4, <2>5, <2>6
<1>5. AccountsFine'
  BY <1>1, <1>3, <1>4 DEF UsersInv, AccountsFine
<1>6. ReferencesResolve'
  BY <1>1, <1>3, <1>4 DEF ReferencesResolve
<1> QED
  BY <1>2, <1>5, <1>6 DEF UsersInv

\* The active API keys can be counted.
LEMMA ActiveFinite ==
  IsFiniteSet(ActiveKeys) /\ Cardinality(ActiveKeys) \in Nat
<1>1. ActiveKeys \in SUBSET KeyId
  BY DEF ActiveKeys
<1> QED
  BY <1>1, FS_Subset, FS_CardinalityType, UsersAssumption

\* An API key made, replaced or revoked keeps the active ones within the limit.
LEMMA ApiKeyStepInv ==
  ASSUME UsersInv, NEW via,
         create_api_key(via) \/ \E k \in KeyId : delete_api_key(via, k) \/ regenerate_api_key(via, k)
  PROVE  UsersInv'
<1>1. user' = user /\ customRoles' = customRoles /\ groups' = groups /\ membership' = membership
  BY DEF create_api_key, delete_api_key, regenerate_api_key
<1>2. AccountsFine' /\ ReferencesResolve'
  BY <1>1 DEF UsersInv, AccountsFine, ReferencesResolve
<1>3. apiKeys \in [KeyId -> {"none", "active", "revoked"}] /\ spare \in Nat /\ Cardinality(ActiveKeys) <= MaxKeys + spare
  BY DEF UsersInv, KeysFine, KeysBounded
<1>4. PICK A : A = ActiveKeys
  OBVIOUS
<1>5. PICK B : B = ActiveKeys'
  OBVIOUS
<1>6. IsFiniteSet(A) /\ Cardinality(A) \in Nat /\ Cardinality(A) <= MaxKeys + spare
  BY <1>3, <1>4, ActiveFinite
<1>7. apiKeys' \in [KeyId -> {"none", "active", "revoked"}] /\ spare' \in Nat /\ Cardinality(B) <= MaxKeys + spare'
  <2>1. CASE create_api_key(via)
    <3>1. PICK k \in NextKey : apiKeys' = [apiKeys EXCEPT ![k] = "active"]
      BY <2>1 DEF create_api_key
    <3>2. spare' = spare /\ Cardinality(A) < MaxKeys
      BY <1>4, <2>1 DEF create_api_key, BelowLimit
    <3>3. k \in KeyId
      BY DEF NextKey
    <3>4. apiKeys' \in [KeyId -> {"none", "active", "revoked"}]
      BY <1>3, <3>1, <3>3
    <3>5. B = A \cup {k}
      BY <1>3, <1>4, <1>5, <3>1, <3>3 DEF ActiveKeys
    <3>6. Cardinality(B) <= Cardinality(A) + 1
      BY <1>6, <3>5, FS_AddElement
    <3>7. IsFiniteSet(B) /\ Cardinality(B) \in Nat
      BY <1>6, <3>5, FS_AddElement, FS_CardinalityType
    <3> QED
      BY <1>3, <1>6, <3>2, <3>4, <3>6, <3>7, UsersAssumption
  <2>2. ASSUME NEW k \in KeyId, delete_api_key(via, k)
        PROVE  apiKeys' \in [KeyId -> {"none", "active", "revoked"}] /\ spare' \in Nat /\ Cardinality(B) <= MaxKeys + spare'
    <3>1. apiKeys' = [apiKeys EXCEPT ![k] = "revoked"] /\ spare' = spare
      BY <2>2 DEF delete_api_key
    <3>2. apiKeys' \in [KeyId -> {"none", "active", "revoked"}]
      BY <1>3, <3>1
    <3>3. B \in SUBSET A
      BY <1>3, <1>4, <1>5, <3>1 DEF ActiveKeys
    <3>4. Cardinality(B) <= Cardinality(A) /\ Cardinality(B) \in Nat
      BY <1>6, <3>3, FS_Subset, FS_CardinalityType
    <3> QED
      BY <1>3, <1>6, <3>1, <3>2, <3>4, UsersAssumption
  <2>3. ASSUME NEW k \in KeyId, regenerate_api_key(via, k)
        PROVE  apiKeys' \in [KeyId -> {"none", "active", "revoked"}] /\ spare' \in Nat /\ Cardinality(B) <= MaxKeys + spare'
    <3>1. PICK n \in NextKey, crash \in BOOLEAN :
            /\ apiKeys' = [apiKeys EXCEPT ![n] = "active", ![k] = IF crash THEN @ ELSE "revoked"]
            /\ spare' = IF crash \/ apiKeys[k] = "revoked" THEN spare + 1 ELSE spare
      BY <2>3 DEF regenerate_api_key
    <3>2. n \in KeyId /\ apiKeys[n] = "none" /\ apiKeys[k] # "none" /\ n # k
      BY <2>3 DEF NextKey, regenerate_api_key
    <3>3. \A j \in KeyId : apiKeys'[j] = IF j = n THEN "active" ELSE IF j = k /\ ~crash THEN "revoked" ELSE apiKeys[j]
      BY <1>3, <3>1, <3>2
    <3>4. apiKeys' \in [KeyId -> {"none", "active", "revoked"}]
      BY <1>3, <3>1, <3>2
    <3>5. B \in SUBSET (A \cup {n}) /\ n \notin A
      BY <1>4, <1>5, <3>2, <3>3 DEF ActiveKeys
    <3>6. IsFiniteSet(A \cup {n}) /\ Cardinality(A \cup {n}) = Cardinality(A) + 1
      BY <1>6, <3>5, FS_AddElement
    <3>7. Cardinality(B) <= Cardinality(A) + 1 /\ IsFiniteSet(B) /\ Cardinality(B) \in Nat
      BY <3>5, <3>6, FS_Subset, FS_CardinalityType
    <3>8. CASE crash \/ apiKeys[k] = "revoked"
      <4>1. spare' = spare + 1
        BY <3>1, <3>8
      <4> QED
        BY <1>3, <1>6, <3>4, <3>7, <4>1, UsersAssumption
    <3>9. CASE ~crash /\ apiKeys[k] = "active"
      <4>1. spare' = spare
        BY <3>1, <3>9
      <4>2. k \in A /\ B = (A \cup {n}) \ {k}
        BY <1>4, <1>5, <3>2, <3>3, <3>9 DEF ActiveKeys
      <4>3. PICK D : D = A \cup {n}
        OBVIOUS
      <4>4. IsFiniteSet(D) /\ k \in D /\ B = D \ {k} /\ Cardinality(D) = Cardinality(A) + 1
        BY <3>6, <4>2, <4>3
      <4>5. Cardinality(B) = Cardinality(D) - 1
        BY <4>4, FS_RemoveElement
      <4>6. Cardinality(B) = Cardinality(A)
        BY <1>6, <4>4, <4>5
      <4> QED
        BY <1>3, <1>6, <3>4, <4>1, <4>6
    <3> QED
      BY <1>3, <3>2, <3>8, <3>9
  <2> QED
    BY <2>1, <2>2, <2>3
<1>8. KeysFine'
  BY <1>5, <1>7 DEF KeysFine, KeysBounded
<1> QED
  BY <1>2, <1>8 DEF UsersInv

\* Every request on accounts, roles, groups and keys keeps the invariant.
LEMMA UsersStepInv ==
  ASSUME UsersInv, [UsersNext]_userVars
  PROVE  UsersInv'
<1>1. CASE UsersNext
  <2>1. PICK via \in {"session", "key"} :
          \/ \E a \in User, U \in SUBSET User : bulk_delete_users(a, via, U)
          \/ \E a, u \in User :
               \/ create_user(a, via, u) \/ import_users(a, via, u) \/ update_user(a, via, u)
               \/ delete_user(a, via, u) \/ toggle_user_status(a, via, u)
          \/ \E a \in User, c \in CustomRole : create_custom_role(a, via, c) \/ delete_custom_role(a, via, c)
          \/ \E a \in User, g \in Group :
               \/ create_group(a, via, g) \/ delete_group(a, via, g)
               \/ \E u \in User : add_group_member(a, via, g, u) \/ remove_group_member(a, via, g, u)
          \/ create_api_key(via)
          \/ \E k \in KeyId : delete_api_key(via, k) \/ regenerate_api_key(via, k)
    BY <1>1 DEF UsersNext
  <2>2. CASE \E a \in User, U \in SUBSET User : bulk_delete_users(a, via, U)
    BY <2>2, BulkDeleteInv
  <2>3. CASE \E a, u \in User :
               \/ create_user(a, via, u) \/ import_users(a, via, u) \/ update_user(a, via, u)
               \/ delete_user(a, via, u) \/ toggle_user_status(a, via, u)
    BY <2>3, AccountStepInv
  <2>4. CASE \E a \in User, c \in CustomRole : create_custom_role(a, via, c) \/ delete_custom_role(a, via, c)
    BY <2>4, RolesAndGroupsInv
  <2>5. CASE \E a \in User, g \in Group :
               \/ create_group(a, via, g) \/ delete_group(a, via, g)
               \/ \E u \in User : add_group_member(a, via, g, u) \/ remove_group_member(a, via, g, u)
    BY <2>5, RolesAndGroupsInv
  <2>6. CASE create_api_key(via) \/ \E k \in KeyId : delete_api_key(via, k) \/ regenerate_api_key(via, k)
    BY <2>6, ApiKeyStepInv
  <2> QED
    BY <2>1, <2>2, <2>3, <2>4, <2>5, <2>6
<1>2. CASE UNCHANGED userVars
  BY <1>2, KeysStay DEF userVars, UsersInv, AccountsFine, ReferencesResolve
<1> QED
  BY <1>1, <1>2

\* Accounts, roles, groups and keys refer to what is there, and the active keys
\* of a user stay within the limit, for any number of each (users.py, rbac.py,
\* groups.py, account.py).
THEOREM UsersInvariance == UsersSpec => []UsersInv
<1>1. UsersInit => UsersInv
  BY UsersInitInv
<1>2. UsersInv /\ [UsersNext]_userVars => UsersInv'
  BY UsersStepInv
<1> QED
  BY <1>1, <1>2, PTL DEF UsersSpec

\* The invariant implies the types, the references and the limit on keys.
LEMMA UsersTypes == UsersInv => UsersTypeOK /\ ReferencesResolve /\ KeysBounded
<1> SUFFICES ASSUME UsersInv PROVE UsersTypeOK
  BY DEF UsersInv, KeysFine
<1>1. \A u \in User : user[u] \in UserRow
  BY DEF UsersInv, AccountsFine
<1>2. \A u \in User : user[u].role \in {"admin", "viewer"} /\ user[u].active \in BOOLEAN
  BY <1>1 DEF UserRow
<1> QED
  BY <1>2 DEF UsersInv, AccountsFine, KeysFine, UsersTypeOK

\* A revoked API key stays revoked.
LEMMA RevokedStep ==
  ASSUME UsersInv, UsersNext, NEW k \in KeyId, apiKeys[k] = "revoked"
  PROVE  apiKeys'[k] = "revoked"
<1>1. apiKeys \in [KeyId -> {"none", "active", "revoked"}]
  BY DEF UsersInv, KeysFine
<1>2. PICK via \in {"session", "key"} :
        \/ \E a \in User, U \in SUBSET User : bulk_delete_users(a, via, U)
        \/ \E a, u \in User :
             \/ create_user(a, via, u) \/ import_users(a, via, u) \/ update_user(a, via, u)
             \/ delete_user(a, via, u) \/ toggle_user_status(a, via, u)
        \/ \E a \in User, c \in CustomRole : create_custom_role(a, via, c) \/ delete_custom_role(a, via, c)
        \/ \E a \in User, g \in Group :
             \/ create_group(a, via, g) \/ delete_group(a, via, g)
             \/ \E u \in User : add_group_member(a, via, g, u) \/ remove_group_member(a, via, g, u)
        \/ create_api_key(via)
        \/ \E j \in KeyId : delete_api_key(via, j) \/ regenerate_api_key(via, j)
  BY DEF UsersNext
<1>3. CASE apiKeys' = apiKeys
  BY <1>3
<1>4. CASE create_api_key(via)
  BY <1>1, <1>4 DEF create_api_key, NextKey
<1>5. ASSUME NEW j \in KeyId, delete_api_key(via, j) PROVE apiKeys'[k] = "revoked"
  BY <1>1, <1>5 DEF delete_api_key
<1>6. ASSUME NEW j \in KeyId, regenerate_api_key(via, j) PROVE apiKeys'[k] = "revoked"
  <2>1. PICK n \in NextKey, crash \in BOOLEAN :
          apiKeys' = [apiKeys EXCEPT ![n] = "active", ![j] = IF crash THEN @ ELSE "revoked"]
    BY <1>6 DEF regenerate_api_key
  <2>2. n \in KeyId /\ apiKeys[n] = "none" /\ apiKeys[j] # "none"
    BY <1>6 DEF NextKey, regenerate_api_key
  <2> QED
    BY <1>1, <2>1, <2>2
<1>7. CASE \E a \in User, U \in SUBSET User : bulk_delete_users(a, via, U)
  BY <1>3, <1>7 DEF bulk_delete_users
<1>8. CASE \E a, u \in User :
             \/ create_user(a, via, u) \/ import_users(a, via, u) \/ update_user(a, via, u)
             \/ delete_user(a, via, u) \/ toggle_user_status(a, via, u)
  BY <1>3, <1>8 DEF create_user, import_users, update_user, delete_user, toggle_user_status
<1>9. CASE \E a \in User, c \in CustomRole : create_custom_role(a, via, c) \/ delete_custom_role(a, via, c)
  BY <1>3, <1>9 DEF create_custom_role, delete_custom_role
<1>10. CASE \E a \in User, g \in Group :
              \/ create_group(a, via, g) \/ delete_group(a, via, g)
              \/ \E u \in User : add_group_member(a, via, g, u) \/ remove_group_member(a, via, g, u)
  BY <1>3, <1>10 DEF create_group, delete_group, add_group_member, remove_group_member
<1> QED
  BY <1>2, <1>4, <1>5, <1>6, <1>7, <1>8, <1>9, <1>10

\* An administrator who acts through a session is active, and spares the own
\* account.
LEMMA AdminStep ==
  ASSUME UsersInv, UsersNext, act'.via = "session", act'.op \in {"delete", "toggle"}, user' # user
  PROVE  \E u \in User : user'[u].active /\ user'[u].role = "admin"
<1>0. user \in [User -> UserRow]
  BY DEF UsersInv, AccountsFine
<1>1. PICK via \in {"session", "key"} :
        \/ \E a \in User, U \in SUBSET User : bulk_delete_users(a, via, U)
        \/ \E a, u \in User :
             \/ create_user(a, via, u) \/ import_users(a, via, u) \/ update_user(a, via, u)
             \/ delete_user(a, via, u) \/ toggle_user_status(a, via, u)
        \/ \E a \in User, c \in CustomRole : create_custom_role(a, via, c) \/ delete_custom_role(a, via, c)
        \/ \E a \in User, g \in Group :
             \/ create_group(a, via, g) \/ delete_group(a, via, g)
             \/ \E u \in User : add_group_member(a, via, g, u) \/ remove_group_member(a, via, g, u)
        \/ create_api_key(via)
        \/ \E j \in KeyId : delete_api_key(via, j) \/ regenerate_api_key(via, j)
  BY DEF UsersNext
<1>2. ASSUME NEW a \in User, NEW op, AdminActs(a, via, op), user'[a] = user[a]
      PROVE  \E u \in User : user'[u].active /\ user'[u].role = "admin"
  <2>1. act' = [by |-> a, via |-> via, op |-> op] /\ Acts(a, via) /\ user[a].role = "admin"
    BY <1>2 DEF AdminActs
  <2>2. via = "session"
    BY <2>1
  <2>3. user[a].active
    BY <2>1, <2>2 DEF Acts
  <2> QED
    BY <1>2, <2>1, <2>3
<1>3. ASSUME NEW a \in User, NEW U \in SUBSET User, bulk_delete_users(a, via, U)
      PROVE  \E u \in User : user'[u].active /\ user'[u].role = "admin"
  <2>1. AdminActs(a, via, "delete") /\ user'[a] = user[a]
    BY <1>3 DEF bulk_delete_users, Spared
  <2> QED
    BY <1>2, <2>1
<1>4. ASSUME NEW a \in User, NEW u \in User, delete_user(a, via, u)
      PROVE  \E v \in User : user'[v].active /\ user'[v].role = "admin"
  <2>1. AdminActs(a, via, "delete") /\ user'[a] = user[a]
    BY <1>0, <1>4 DEF delete_user, Spared, SetUser
  <2> QED
    BY <1>2, <2>1
<1>5. ASSUME NEW a \in User, NEW u \in User, toggle_user_status(a, via, u)
      PROVE  \E v \in User : user'[v].active /\ user'[v].role = "admin"
  <2>1. AdminActs(a, via, "toggle") /\ user'[a] = user[a]
    BY <1>0, <1>5 DEF toggle_user_status, Spared, SetUser
  <2> QED
    BY <1>2, <2>1
<1>6. ASSUME NEW a \in User, NEW u \in User, create_user(a, via, u) \/ import_users(a, via, u) \/ update_user(a, via, u)
      PROVE  FALSE
  <2>1. act' = [by |-> a, via |-> via, op |-> "create"] \/ act' = [by |-> a, via |-> via, op |-> "update"]
    BY <1>6 DEF create_user, import_users, update_user, AdminActs
  <2> QED
    BY <2>1
<1>7. CASE \E a \in User, c \in CustomRole : create_custom_role(a, via, c) \/ delete_custom_role(a, via, c)
  BY <1>7 DEF create_custom_role, delete_custom_role
<1>8. CASE \E a \in User, g \in Group :
             \/ create_group(a, via, g) \/ delete_group(a, via, g)
             \/ \E u \in User : add_group_member(a, via, g, u) \/ remove_group_member(a, via, g, u)
  BY <1>8 DEF create_group, delete_group, add_group_member, remove_group_member
<1>9. CASE create_api_key(via) \/ \E j \in KeyId : delete_api_key(via, j) \/ regenerate_api_key(via, j)
  BY <1>9 DEF create_api_key, delete_api_key, regenerate_api_key
<1> QED
  BY <1>1, <1>3, <1>4, <1>5, <1>6, <1>7, <1>8, <1>9

\* A key that was revoked is never accepted again, also when it is regenerated
\* across a crash; and whoever deletes or switches off accounts through a
\* session leaves an active administrator (regenerate_api_key, delete_user,
\* bulk_delete_users, toggle_user_status).
THEOREM UsersKept == UsersSpec => RevokedForGood /\ AdminLeft
<1>1. UsersInv /\ [UsersNext]_userVars
        => [\A k \in KeyId : apiKeys[k] = "revoked" => apiKeys'[k] = "revoked"]_userVars
  BY RevokedStep
<1>2. UsersInv /\ [UsersNext]_userVars
        => [(act'.via = "session" /\ act'.op \in {"delete", "toggle"} /\ user' # user)
              => \E u \in User : user'[u].active /\ user'[u].role = "admin"]_userVars
  BY AdminStep
<1> QED
  BY <1>1, <1>2, UsersInvariance, PTL DEF UsersSpec, RevokedForGood, AdminLeft

----------------------------------------------------------------------------
(* Client certificates.                                                    *)

TextsOf(c) == {Dec(c), Hex(c), Padded(c)}
EnrolledRow == [id : 1..MaxRowId, text : Texts, cert : Cert, user : Person, enabled : BOOLEAN]
StoredRow == [text : Texts, cert : Cert, revoked : BOOLEAN]

EnrolledFine ==
  /\ \A r \in rows : r \in EnrolledRow /\ r.text \in TextsOf(r.cert)
  /\ \A r, q \in rows : r.text = q.text => r = q
  /\ \A r, q \in rows : r.id = q.id => r = q

StoreFine == \A x \in store : x \in StoredRow /\ x.text \in TextsOf(x.cert)

EnteredFine == entered = Nobody \/ (entered.cert \in Cert /\ entered.user \in Person)

CertInv ==
  /\ EnrolledFine /\ StoreFine /\ RevokedDisabled
  /\ expired \subseteq Cert /\ active \subseteq Person /\ EnteredFine

\* A text is of one certificate, and of one base.
LEMMA TextsApart ==
  /\ \A c, d : \A t \in TextsOf(c) : t \in TextsOf(d) => c = d
  /\ \A c, d : Dec(c) # Hex(d)
  /\ \A c \in Cert : TextsOf(c) \subseteq Texts
<1>1. \A c : \A t \in TextsOf(c) : t[2] = c
  BY DEF TextsOf, Dec, Hex, Padded
<1>2. \A c, d : \A t \in TextsOf(c) : t \in TextsOf(d) => c = d
  BY <1>1
<1>3. \A c, d : Dec(c) # Hex(d)
  BY DEF Dec, Hex
<1>4. \A c \in Cert : TextsOf(c) \subseteq Texts
  BY DEF TextsOf, Texts
<1> QED
  BY <1>2, <1>3, <1>4

\* A certificate stored in either base is stored under a text of its own.
LEMMA StoredFine ==
  ASSUME NEW c \in Cert
  PROVE  \A t \in {Dec(c), Hex(c)} : Stored(t, c) \in StoredRow /\ Stored(t, c).text \in TextsOf(Stored(t, c).cert)
                                     /\ Stored(t, c).revoked = FALSE
<1> SUFFICES ASSUME NEW t \in {Dec(c), Hex(c)}
             PROVE  Stored(t, c) \in StoredRow /\ Stored(t, c).text \in TextsOf(Stored(t, c).cert) /\ Stored(t, c).revoked = FALSE
  OBVIOUS
<1>1. t \in TextsOf(c) /\ t \in Texts
  BY TextsApart DEF TextsOf
<1>2. Stored(t, c) = [text |-> t, cert |-> c, revoked |-> FALSE]
  BY DEF Stored
<1> QED
  BY <1>1, <1>2 DEF StoredRow

\* The invariant of the certificates holds before the first enrolment.
LEMMA CertInitInv == CertInit => CertInv
<1> SUFFICES ASSUME CertInit PROVE CertInv
  OBVIOUS
<1>1. \A x \in store : \E c \in Cert : x \in {Stored(Dec(c), c), Stored(Hex(c), c)}
  BY DEF CertInit
<1>2. StoreFine
  BY <1>1, StoredFine DEF StoreFine
<1> QED
  BY <1>2 DEF CertInit, CertInv, EnrolledFine, EnteredFine, RevokedDisabled

\* An enrolment under a text that had none: the row is new in its id too, and no
\* revocation of that text is remembered.
LEMMA EnrolFine ==
  ASSUME EnrolledFine, RevokedDisabled, NEW c \in Cert, NEW t \in TextsOf(c), NEW u \in Person,
         \A r \in rows : r.text # t, Enrol(t, c, u)
  PROVE  EnrolledFine' /\ RevokedDisabled'
<1>1. PICK k \in 1..MaxRowId : NewRowId(k) /\ rows' = rows \cup {Row(k, t, c, u)}
  BY DEF Enrol
<1>2. PICK n : n = Row(k, t, c, u)
  OBVIOUS
<1>3. n = [id |-> k, text |-> t, cert |-> c, user |-> u, enabled |-> TRUE]
  BY <1>2 DEF Row
<1>4. t \in Texts
  BY TextsApart
<1>5. n \in EnrolledRow /\ n.text = t /\ n.cert = c /\ n.id = k
  BY <1>3, <1>4 DEF EnrolledRow
<1>6. \A r \in rows : r.id # k
  <2>1. \A r \in rows : r.id \in 1..MaxRowId /\ r.id < k
    BY <1>1 DEF NewRowId, EnrolledFine, EnrolledRow
  <2> QED
    BY <2>1
<1>7. rows' = rows \cup {n}
  BY <1>1, <1>2
<1>8. EnrolledFine'
  BY <1>5, <1>6, <1>7 DEF EnrolledFine
<1>9. RevokedDisabled'
  <2>1. withdrawn' = withdrawn \ {t} /\ revoking' = revoking /\ cut' = cut
    BY DEF Enrol
  <2> QED
    BY <1>5, <1>7, <2>1 DEF RevokedDisabled, Revoking
<1> QED
  BY <1>8, <1>9

\* A certificate imported into the store is not revoked and stored under a text
\* of its own.
LEMMA ImportFine ==
  ASSUME StoreFine, NEW c \in Cert, Imported(c) \/ store' = store \cup {Stored(Dec(c), c)}
  PROVE  StoreFine'
<1>1. store' \subseteq store \cup {Stored(Dec(c), c)}
  BY DEF Imported
<1>2. PICK n : n = Stored(Dec(c), c)
  OBVIOUS
<1>3. n \in StoredRow /\ n.text \in TextsOf(n.cert) /\ n.revoked = FALSE
  BY <1>2, StoredFine
<1> QED
  BY <1>1, <1>2, <1>3 DEF StoreFine

\* What a login with a certificate may do.
LoginOfRow == entered' # entered => \E r \in rows : r.cert = entered'.cert /\ r.user = entered'.user /\ r.enabled

\* An enrolment writes one row under a text of its certificate and keeps the
\* invariant.
LEMMA EnrolmentInv ==
  ASSUME CertInv, NEW u \in Person, NEW c \in Cert,
         \/ \E t \in Texts : enroll_presented_certificate(u, c, t)
         \/ \E owner \in Person : enroll_import_certificate(u, c, owner) \/ create_user_mtls_certificate(u, c, owner)
         \/ create_mtls_certificate(u, c)
  PROVE  CertInv' /\ LoginOfRow
<1>1. expired' = expired /\ active' = active /\ entered' = entered
  BY DEF enroll_presented_certificate, enroll_import_certificate, create_user_mtls_certificate,
         create_mtls_certificate, Enrol
<1>2. CASE \E t \in Texts : enroll_presented_certificate(u, c, t)
  <2>1. PICK t \in Texts : enroll_presented_certificate(u, c, t)
    BY <1>2
  <2>2. t \in TextsOf(c) /\ (\A r \in rows : r.text # t) /\ Enrol(t, c, u) /\ store' = store
    BY <2>1 DEF enroll_presented_certificate, Presented, TextsOf, Enrolled, ByText
  <2>3. EnrolledFine' /\ RevokedDisabled'
    BY <2>2, EnrolFine DEF CertInv
  <2> QED
    BY <1>1, <2>2, <2>3 DEF CertInv, StoreFine, EnteredFine, LoginOfRow
<1>3. ASSUME NEW owner \in Person, enroll_import_certificate(u, c, owner) \/ create_user_mtls_certificate(u, c, owner)
      PROVE  CertInv' /\ LoginOfRow
  <2>1. (\A r \in rows : r.text # Dec(c)) /\ Enrol(Dec(c), c, owner) /\ Imported(c)
    BY <1>3 DEF enroll_import_certificate, create_user_mtls_certificate, Enrolled, ByText
  <2>2. Dec(c) \in TextsOf(c)
    BY DEF TextsOf
  <2>3. EnrolledFine' /\ RevokedDisabled'
    BY <2>1, <2>2, EnrolFine DEF CertInv
  <2>4. StoreFine'
    BY <2>1, ImportFine DEF CertInv
  <2> QED
    BY <1>1, <2>3, <2>4 DEF CertInv, EnteredFine, LoginOfRow
<1>4. CASE create_mtls_certificate(u, c)
  <2>1. (\A r \in rows : r.cert # c) /\ Enrol(Dec(c), c, u) /\ store' = store \cup {Stored(Dec(c), c)}
    BY <1>4 DEF create_mtls_certificate
  <2>2. Dec(c) \in TextsOf(c)
    BY DEF TextsOf
  <2>3. \A r \in rows : r.text # Dec(c)
    BY <2>1, <2>2, TextsApart DEF CertInv, EnrolledFine
  <2>4. EnrolledFine' /\ RevokedDisabled'
    BY <2>1, <2>2, <2>3, EnrolFine DEF CertInv
  <2>5. StoreFine'
    BY <2>1, ImportFine DEF CertInv
  <2> QED
    BY <1>1, <2>4, <2>5 DEF CertInv, EnteredFine, LoginOfRow
<1> QED
  BY <1>2, <1>3, <1>4

\* A certificate of the store assigned to a user keeps the invariant.
LEMMA AssignInv ==
  ASSUME CertInv, NEW u \in Person, NEW owner \in Person, NEW x \in store, assign_certificate(u, x, owner)
  PROVE  CertInv' /\ LoginOfRow
<1>1. x.cert \in Cert /\ x.text \in TextsOf(x.cert)
  BY DEF CertInv, StoreFine, StoredRow
<1>2. /\ (\A r \in rows : r.text # x.text) /\ Enrol(x.text, x.cert, owner) /\ store' = store
      /\ expired' = expired /\ active' = active /\ entered' = entered
  BY DEF assign_certificate, Enrolled, ByText, Enrol
<1>3. EnrolledFine' /\ RevokedDisabled'
  BY <1>1, <1>2, EnrolFine DEF CertInv
<1> QED
  BY <1>2, <1>3 DEF CertInv, StoreFine, EnteredFine, LoginOfRow

\* A deleted row leaves the others as they were, and what is remembered of them.
LEMMA DeletionInv ==
  ASSUME CertInv, NEW u \in Person, NEW r \in rows,
         \/ delete_mtls_certificate(u, r) \/ delete_user_mtls_certificate(u, r)
         \/ delete_user_certificate(u, r)
  PROVE  CertInv' /\ LoginOfRow
<1>1. Delete(r) /\ store' \subseteq store
  BY DEF delete_mtls_certificate, delete_user_mtls_certificate, delete_user_certificate
<1>2. /\ rows' = rows \ {r} /\ withdrawn' = withdrawn \ {r.text} /\ cut' = cut \ {r.id} /\ revoking' = revoking
      /\ expired' = expired /\ active' = active /\ entered' = entered
  BY <1>1 DEF Delete
<1>3. \A q \in rows' : q \in rows /\ q.id # r.id
  BY <1>2 DEF CertInv, EnrolledFine
<1>4. RevokedDisabled'
  BY <1>2, <1>3 DEF CertInv, RevokedDisabled, Revoking
<1> QED
  BY <1>1, <1>2, <1>4 DEF CertInv, EnrolledFine, StoreFine, EnteredFine, LoginOfRow

\* A revocation in the store leaves its texts alone.
LEMMA RevokeFine ==
  ASSUME StoreFine, NEW x \in store, Revoke(x)
  PROVE  StoreFine'
<1>1. x \in StoredRow /\ x.text \in TextsOf(x.cert)
  BY DEF StoreFine
<1>2. PICK y : y = [x EXCEPT !.revoked = TRUE]
  OBVIOUS
<1>3. y \in StoredRow /\ y.text = x.text /\ y.cert = x.cert
  BY <1>1, <1>2 DEF StoredRow
<1>4. store' = (store \ {x}) \cup {y}
  BY <1>2 DEF Revoke
<1> QED
  BY <1>1, <1>3, <1>4 DEF StoreFine

\* The first commit of a revocation: the row of the text is the one the handler is
\* at work on.
LEMMA RevocationInv ==
  ASSUME CertInv, NEW u \in Person, NEW r \in rows, revoke_user_certificate(u, r)
  PROVE  CertInv' /\ LoginOfRow
<1>1. PICK x \in InStore(r) : Revoke(x)
  BY DEF revoke_user_certificate
<1>2. StoreFine'
  BY <1>1, RevokeFine DEF CertInv, InStore
<1>3. PICK e : e = [id |-> r.id, text |-> r.text]
  OBVIOUS
<1>4. /\ rows' = rows /\ revoking' = revoking \cup {e} /\ withdrawn' = withdrawn \cup {r.text} /\ cut' = cut
      /\ expired' = expired /\ active' = active /\ entered' = entered
  BY <1>3 DEF revoke_user_certificate
<1>5. RevokedDisabled'
  <2>1. \A q \in rows : q.text = r.text => q = r
    BY DEF CertInv, EnrolledFine
  <2>2. e.id = r.id
    BY <1>3
  <2> QED
    BY <1>4, <2>1, <2>2 DEF CertInv, RevokedDisabled, Revoking
<1> QED
  BY <1>2, <1>4, <1>5 DEF CertInv, EnrolledFine, EnteredFine, LoginOfRow

\* The second commit disables the one row with its id.
LEMMA RevocationEndsInv ==
  ASSUME CertInv, NEW e \in revoking, revoke_user_certificate_ends(e)
  PROVE  CertInv' /\ LoginOfRow
<1> DEFINE Shut(r) == IF r.id = e.id THEN [r EXCEPT !.enabled = FALSE] ELSE r
<1>1. /\ rows' = {Shut(r) : r \in rows} /\ revoking' = revoking \ {e} /\ withdrawn' = withdrawn /\ cut' = cut
      /\ store' = store /\ expired' = expired /\ active' = active /\ entered' = entered
  BY DEF revoke_user_certificate_ends
<1>2. \A r \in rows : /\ Shut(r) \in EnrolledRow /\ Shut(r).id = r.id /\ Shut(r).text = r.text
                      /\ Shut(r).cert = r.cert
                      /\ (r.id = e.id => Shut(r).enabled = FALSE)
                      /\ (r.id # e.id => Shut(r) = r)
  <2> SUFFICES ASSUME NEW r \in rows
               PROVE  /\ Shut(r) \in EnrolledRow /\ Shut(r).id = r.id /\ Shut(r).text = r.text
                      /\ Shut(r).cert = r.cert
                      /\ (r.id = e.id => Shut(r).enabled = FALSE)
                      /\ (r.id # e.id => Shut(r) = r)
    OBVIOUS
  <2>1. r \in EnrolledRow
    BY DEF CertInv, EnrolledFine
  <2> QED
    BY <2>1 DEF EnrolledRow
<1> HIDE DEF Shut
<1>3. EnrolledFine'
  <2>1. \A q \in rows' : \E r \in rows : q = Shut(r)
    BY <1>1
  <2>2. \A q \in rows' : q \in EnrolledRow /\ q.text \in TextsOf(q.cert)
    BY <1>2, <2>1 DEF CertInv, EnrolledFine
  <2>3. \A q, p \in rows' : q.text = p.text => q = p
    BY <1>2, <2>1 DEF CertInv, EnrolledFine
  <2>4. \A q, p \in rows' : q.id = p.id => q = p
    BY <1>2, <2>1 DEF CertInv, EnrolledFine
  <2> QED
    BY <2>2, <2>3, <2>4 DEF EnrolledFine
<1>4. RevokedDisabled'
  <2> SUFFICES ASSUME NEW q \in rows', q.text \in withdrawn', ~Revoking(q)', q.id \notin cut'
               PROVE  ~q.enabled
    BY DEF RevokedDisabled
  <2>1. PICK r \in rows : q = Shut(r)
    BY <1>1
  <2>2. CASE r.id = e.id
    BY <1>2, <2>1, <2>2
  <2>3. CASE r.id # e.id
    <3>1. q = r /\ ~Revoking(r)
      BY <1>1, <1>2, <2>1, <2>3 DEF Revoking
    <3> QED
      BY <1>1, <3>1 DEF CertInv, RevokedDisabled
  <2> QED
    BY <2>2, <2>3
<1> QED
  BY <1>1, <1>3, <1>4 DEF CertInv, StoreFine, EnteredFine, LoginOfRow

\* A restart ends the revocations in progress and remembers their rows.
LEMMA CertRestartInv ==
  ASSUME CertInv, CertRestart
  PROVE  CertInv' /\ LoginOfRow
<1>1. /\ rows' = rows /\ withdrawn' = withdrawn /\ cut' = cut \cup {e.id : e \in revoking}
      /\ store' = store /\ expired' = expired /\ active' = active /\ entered' = entered
  BY DEF CertRestart
<1>2. RevokedDisabled'
  BY <1>1 DEF CertInv, RevokedDisabled, Revoking
<1> QED
  BY <1>1, <1>2 DEF CertInv, EnrolledFine, StoreFine, EnteredFine, LoginOfRow

\* A login with a certificate is that of the user of an enabled row.
LEMMA EnterInv ==
  ASSUME CertInv, NEW c \in Cert, NEW t \in Texts, process_client_certificate(c, t) \/ login_mtls(c, t)
  PROVE  CertInv' /\ LoginOfRow
<1>1. /\ t \in Presented(c) /\ authenticate_certificate(c, t)
      /\ rows' = rows /\ store' = store /\ expired' = expired /\ active' = active
      /\ revoking' = revoking /\ withdrawn' = withdrawn /\ cut' = cut
  BY DEF process_client_certificate, login_mtls, revocationVars
<1>2. PICK r \in Candidates(t, c) : r.enabled /\ entered' = [cert |-> c, user |-> r.user]
  BY <1>1 DEF authenticate_certificate
<1>3. t \in TextsOf(c) /\ Dec(c) \in TextsOf(c)
  BY <1>1 DEF Presented, TextsOf
<1>4. r \in rows /\ (r.text \in TextsOf(c) \/ r.cert = c)
  BY <1>2, <1>3 DEF Candidates, ByFingerprint, Find, ByText
<1>5. r.cert = c /\ r.user \in Person
  BY <1>4, TextsApart DEF CertInv, EnrolledFine, EnrolledRow
<1>6. LoginOfRow
  BY <1>2, <1>4, <1>5 DEF LoginOfRow
<1>7. EnteredFine'
  BY <1>2, <1>5 DEF EnteredFine
<1> QED
  BY <1>1, <1>6, <1>7 DEF CertInv, EnrolledFine, StoreFine, RevokedDisabled, Revoking

\* Every step on client certificates keeps the invariant.
LEMMA CertStepInv ==
  ASSUME CertInv, CertNext
  PROVE  CertInv' /\ LoginOfRow
<1>1. CASE \E c \in Cert, t \in Texts : process_client_certificate(c, t) \/ login_mtls(c, t)
  BY <1>1, EnterInv
<1>2. CASE \E u \in Person, c \in Cert, t \in Texts : enroll_presented_certificate(u, c, t)
  BY <1>2, EnrolmentInv
<1>3. CASE \E u, owner \in Person, c \in Cert :
             enroll_import_certificate(u, c, owner) \/ create_user_mtls_certificate(u, c, owner)
  BY <1>3, EnrolmentInv
<1>4. CASE \E u, owner \in Person, x \in store : assign_certificate(u, x, owner)
  BY <1>4, AssignInv
<1>5. CASE \E u \in Person, c \in Cert : create_mtls_certificate(u, c)
  BY <1>5, EnrolmentInv
<1>6. CASE \E u \in Person, r \in rows :
             \/ delete_mtls_certificate(u, r) \/ delete_user_mtls_certificate(u, r)
             \/ delete_user_certificate(u, r) \/ revoke_user_certificate(u, r)
  BY <1>6, DeletionInv, RevocationInv
<1>7. ASSUME NEW u \in Person, update_mtls_settings(u) \/ toggle_person(u) PROVE CertInv' /\ LoginOfRow
  <2>1. /\ rows' = rows /\ store' = store /\ expired' = expired /\ entered' = entered /\ active' \subseteq active \cup {u}
        /\ revoking' = revoking /\ withdrawn' = withdrawn /\ cut' = cut
    BY <1>7 DEF update_mtls_settings, toggle_person, revocationVars
  <2> QED
    BY <2>1 DEF CertInv, EnrolledFine, StoreFine, EnteredFine, RevokedDisabled, Revoking, LoginOfRow
<1>8. ASSUME NEW c \in Cert, Expire(c) PROVE CertInv' /\ LoginOfRow
  <2>1. /\ rows' = rows /\ store' = store /\ expired' = expired \cup {c} /\ entered' = entered /\ active' = active
        /\ revoking' = revoking /\ withdrawn' = withdrawn /\ cut' = cut
    BY <1>8 DEF Expire, revocationVars
  <2> QED
    BY <2>1 DEF CertInv, EnrolledFine, StoreFine, EnteredFine, RevokedDisabled, Revoking, LoginOfRow
<1>9. ASSUME NEW u \in Person, NEW x \in store, revoke_certificate(u, x) PROVE CertInv' /\ LoginOfRow
  <2>1. /\ Revoke(x) /\ rows' = rows /\ expired' = expired /\ entered' = entered /\ active' = active
        /\ revoking' = revoking /\ withdrawn' = withdrawn /\ cut' = cut
    BY <1>9 DEF revoke_certificate, revocationVars
  <2>2. StoreFine'
    BY <2>1, RevokeFine DEF CertInv
  <2> QED
    BY <2>1, <2>2 DEF CertInv, EnrolledFine, EnteredFine, RevokedDisabled, Revoking, LoginOfRow
<1>10. CASE \E e \in revoking : revoke_user_certificate_ends(e)
  BY <1>10, RevocationEndsInv
<1>11. CASE CertRestart
  BY <1>11, CertRestartInv
<1>12. ASSUME NEW u \in Person, NEW x \in store, delete_certificate(u, x) PROVE CertInv' /\ LoginOfRow
  <2>1. /\ store' = store \ {x} /\ rows' = rows /\ expired' = expired /\ entered' = entered /\ active' = active
        /\ revoking' = revoking /\ withdrawn' = withdrawn /\ cut' = cut
    BY <1>12 DEF delete_certificate, revocationVars
  <2> QED
    BY <2>1 DEF CertInv, EnrolledFine, StoreFine, EnteredFine, RevokedDisabled, Revoking, LoginOfRow
<1>13. ASSUME NEW e \in revoking, revoke_user_certificate_fails(e) PROVE CertInv' /\ LoginOfRow
  <2>1. /\ rows' = rows /\ store' = store /\ expired' = expired /\ entered' = entered /\ active' = active
        /\ revoking' = revoking \ {e} /\ withdrawn' = withdrawn /\ cut' = cut \cup {e.id}
    BY <1>13 DEF revoke_user_certificate_fails
  <2> QED
    BY <2>1 DEF CertInv, EnrolledFine, StoreFine, EnteredFine, RevokedDisabled, Revoking, LoginOfRow
<1> QED
  BY <1>1, <1>2, <1>3, <1>4, <1>5, <1>6, <1>7, <1>8, <1>9, <1>10, <1>11, <1>12, <1>13 DEF CertNext

\* In every state the rows of client certificates and the store of issued ones
\* are each under a text of their own certificate, and no two rows share a text or
\* an id (mtls_auth_service.py, mtls.py, user_certificates.py).
THEOREM CertInvariance == CertSpec => []CertInv
<1>1. CertInv /\ [CertNext]_certVars => CertInv'
  <2>1. CASE CertNext
    BY <2>1, CertStepInv
  <2>2. CASE UNCHANGED certVars
    BY <2>2 DEF certVars, CertInv, EnrolledFine, StoreFine, EnteredFine, RevokedDisabled, Revoking
  <2> QED
    BY <2>1, <2>2
<1> QED
  BY <1>1, CertInitInv, PTL DEF CertSpec

\* The two bases leave a certificate at most two rows.
LEMMA FewRows ==
  ASSUME CertInv, NEW c \in Cert, NEW R \in SUBSET rows, \A r \in R : r.text \in {Dec(c), Hex(c)}
  PROVE  IsFiniteSet(R)
<1>1. PICK a : \A r \in rows : r.text = Dec(c) => r = a
  BY DEF CertInv, EnrolledFine
<1>2. PICK b : \A r \in rows : r.text = Hex(c) => r = b
  BY DEF CertInv, EnrolledFine
<1>3. R \subseteq {a, b}
  BY <1>1, <1>2
<1>4. IsFiniteSet({a, b})
  <2>1. IsFiniteSet({a})
    BY FS_Singleton
  <2>2. {a, b} = {a} \cup {b}
    OBVIOUS
  <2> QED
    BY <2>1, <2>2, FS_AddElement
<1> QED
  BY <1>3, <1>4, FS_Subset

\* Under the invariant a certificate with one row is found by its hexadecimal
\* serial.
LEMMA FoundInEitherBase == CertInv => LookupComplete
<1> SUFFICES ASSUME CertInv, NEW c \in Cert, NEW R, R = {r \in rows : r.cert = c}, Cardinality(R) = 1,
                    \A r \in R : r.text \in {Dec(c), Hex(c)}
             PROVE  Find(Hex(c), c) = R
  BY DEF LookupComplete
<1>1. IsFiniteSet(R)
  BY FewRows
<1>2. PICK r : R = {r}
  BY <1>1, FS_Singleton
<1>3. r \in rows /\ r.cert = c /\ r.text \in {Dec(c), Hex(c)}
  BY <1>2
<1>4. \A q \in rows : q.text \in {Dec(c), Hex(c)} => q = r
  <2>1. \A q \in rows : q.text \in {Dec(c), Hex(c)} => q.cert = c
    BY TextsApart DEF CertInv, EnrolledFine, TextsOf
  <2> QED
    BY <1>2, <2>1
<1>5. CASE r.text = Hex(c)
  BY <1>2, <1>3, <1>4, <1>5 DEF Find, Enrolled, ByText
<1>6. CASE r.text = Dec(c)
  <2>1. ~Enrolled(Hex(c))
    BY <1>4, <1>6, TextsApart DEF Enrolled, ByText
  <2>2. ByText(Dec(c)) = {r}
    BY <1>3, <1>4, <1>6 DEF ByText
  <2> QED
    BY <1>2, <2>1, <2>2 DEF Find
<1> QED
  BY <1>3, <1>5, <1>6

\* The rows of client certificates have their types, and no two share an id or a text
\* (models/auth_certificate.py).
LEMMA CertTypes == CertInv => CertTypeOK
BY DEF CertInv, CertTypeOK, EnrolledFine, EnrolledRow, EnteredFine

\* A certificate with one row is found when it is presented in hexadecimal, whichever
\* enrolment of user_certificates.py or mtls.py wrote that row.
THEOREM CertificatesAreFound == CertSpec => []LookupComplete
BY CertInvariance, FoundInEitherBase, PTL

\* A certificate logs in the user of an enabled row of that certificate
\* (authenticate_certificate), by its text or by its fingerprint.
THEOREM CertificatesEnter == CertSpec => CertificateOfUser
<1>1. CertInv /\ [CertNext]_certVars => [LoginOfRow]_certVars
  BY CertStepInv
<1> QED
  BY <1>1, CertInvariance, PTL DEF CertSpec, CertificateOfUser, LoginOfRow

\* When revoke_user_certificate is through both of its commits, the row of the
\* certificate it revoked is disabled, whatever happened to the rows between them.
THEOREM RevocationDisables == CertSpec => []RevokedDisabled
<1>1. CertInv => RevokedDisabled
  BY DEF CertInv
<1> QED
  BY <1>1, CertInvariance, PTL

----------------------------------------------------------------------------
(* The account: passwords, codes, security keys and sessions.              *)

AccountRow ==
  [active : BOOLEAN, failed : 0 .. MaxCounter, locked : 0 .. Horizon + LockoutTime,
   secret : BOOLEAN, totp : BOOLEAN, key : {"none", "enabled", "disabled"}, made : Nat]

SessionRow ==
  [user : {"none", "pending", "full"}, login : Nat, last : Nat, born : Nat, totp : BOOLEAN, factor : BOOLEAN]

Tracker == [count : Nat, until : Nat]

ClockFine == clock \in 1 .. Horizon

TriesFine == tries \in [password : Nat, code : Nat, key : Nat]

AccountFine ==
  /\ acct \in AccountRow
  /\ acct.totp = TRUE => acct.secret = TRUE

\* No more wrong passwords were answered than the row counts, and a row without a
\* lock counts fewer than MaxAttempts of them.
PasswordCounted ==
  /\ tries.password <= acct.failed /\ tries.password <= MaxAttempts
  /\ acct.locked = 0 => tries.password < MaxAttempts

CodesCounted ==
  /\ codes \in Tracker
  /\ tries.code <= codes.count /\ tries.code <= MaxAttempts
  /\ codes.until = 0 => codes.count < MaxAttempts

Busy == {w \in Worker : checking[w] = TRUE}

\* A refused key is counted, or its worker has still to count it.
KeysCounted ==
  /\ keys \in Tracker /\ checking \in [Worker -> BOOLEAN]
  /\ tries.key <= keys.count + Cardinality(Busy)
  /\ tries.key <= MaxAttempts + Cardinality(Worker) - 1
  /\ keys.until = 0 => keys.count < MaxAttempts

\* A challenge in the table has not been of use, and one still to come neither.
ChallengesFine ==
  /\ challenge \in [Challenge -> Nat] /\ opened \in [Challenge -> {0, 1}]
  /\ \A c \in Challenge : challenge[c] # 0 => opened[c] = 0
  /\ \A c \in Challenge : c > acct.made => challenge[c] = 0 /\ opened[c] = 0

SessionFine(r) ==
  /\ r \in SessionRow /\ r.born <= clock
  /\ r.login \in {0, r.born} /\ (r.last = 0 \/ r.born <= r.last)
  /\ r.user = "full" /\ r.totp = TRUE => r.factor = TRUE

SessionsFine == DOMAIN sess = Session /\ sess = [s \in Session |-> sess[s]] /\ \A s \in Session : SessionFine(sess[s])

LoginInv ==
  /\ ClockFine /\ TriesFine /\ AccountFine /\ PasswordCounted /\ CodesCounted /\ KeysCounted
  /\ ChallengesFine /\ SessionsFine

\* The limits are naturals, and the workers can be counted.
LEMMA Positive ==
  /\ MaxAttempts \in Nat /\ MaxAttempts >= 1 /\ LockoutTime \in Nat /\ Horizon \in Nat
  /\ IsFiniteSet(Worker) /\ Cardinality(Worker) \in Nat
<1>1. IsFiniteSet(Worker) /\ MaxAttempts \in Nat \ {0} /\ LockoutTime \in Nat /\ Horizon \in Nat \ {0}
  BY AccessAssumption
<1>2. Cardinality(Worker) \in Nat
  BY <1>1, FS_CardinalityType
<1> QED
  BY <1>1, <1>2

\* An entry of an attempt tracker is either kept or forgotten by a check, and
\* forgotten once its lock is over.
LEMMA EntryFine ==
  ASSUME ClockFine
  PROVE  /\ NoEntry \in Tracker /\ NoEntry.count = 0 /\ NoEntry.until = 0
         /\ \A e \in Tracker :
              /\ EntryChecked(e) \in Tracker
              /\ EntryChecked(e) = NoEntry \/ EntryChecked(e) = e
              /\ ~EntryLocked(e) => EntryChecked(e) = NoEntry \/ (EntryChecked(e) = e /\ e.until = 0)
              /\ ~EntryLocked(e) /\ e.until # 0 => EntryChecked(e) = NoEntry
              /\ e.until = 0 => EntryChecked(e) = e
              /\ EntryFailed(e) \in Tracker /\ EntryFailed(e).count = e.count + 1
              /\ EntryFailed(e).until = 0 => e.count + 1 < MaxAttempts
<1>0. clock \in Nat /\ clock # 0
  BY Positive DEF ClockFine
<1>1. NoEntry \in Tracker /\ NoEntry.count = 0 /\ NoEntry.until = 0
  BY DEF NoEntry, Tracker
<1>2. ASSUME NEW e \in Tracker
      PROVE  /\ EntryChecked(e) \in Tracker
             /\ EntryChecked(e) = NoEntry \/ EntryChecked(e) = e
             /\ ~EntryLocked(e) => EntryChecked(e) = NoEntry \/ (EntryChecked(e) = e /\ e.until = 0)
             /\ ~EntryLocked(e) /\ e.until # 0 => EntryChecked(e) = NoEntry
             /\ e.until = 0 => EntryChecked(e) = e
  <2>1. e.until \in Nat
    BY DEF Tracker
  <2> QED
    BY <1>0, <1>1, <2>1 DEF EntryChecked, EntryLocked
<1>3. ASSUME NEW e \in Tracker
      PROVE  /\ EntryFailed(e) \in Tracker /\ EntryFailed(e).count = e.count + 1
             /\ EntryFailed(e).until = 0 => e.count + 1 < MaxAttempts
  <2>1. e.until \in Nat /\ e.count \in Nat
    BY DEF Tracker
  <2>2. PICK n \in Nat : n = IF e.count + 1 >= MaxAttempts THEN clock + LockoutTime ELSE e.until
    BY <1>0, <2>1, Positive
  <2>3. EntryFailed(e) = [count |-> e.count + 1, until |-> n]
    BY <2>2 DEF EntryFailed
  <2>4. n = 0 => e.count + 1 < MaxAttempts
    BY <1>0, <2>1, <2>2, Positive
  <2> QED
    BY <2>1, <2>2, <2>3, <2>4 DEF Tracker
<1> QED
  BY <1>1, <1>2, <1>3

\* A session that is not there is one of the shape of sessions.
LEMMA NoSessionFine == ASSUME ClockFine PROVE SessionFine(NoSession) /\ NoSession.user = "none"
<1>1. NoSession = [user |-> "none", login |-> 0, last |-> 0, born |-> 0, totp |-> FALSE, factor |-> FALSE]
  BY DEF NoSession
<1>2. clock \in Nat
  BY Positive DEF ClockFine
<1> QED
  BY <1>1, <1>2 DEF SessionFine, SessionRow

\* The invariant of the logins holds before the first attempt.
LEMMA LoginInitInv == clock = 1 /\ LoginInit => LoginInv
<1> SUFFICES ASSUME clock = 1, LoginInit PROVE LoginInv
  OBVIOUS
<1>1. ClockFine
  BY AccessAssumption DEF ClockFine
<1>2. TriesFine /\ tries.password = 0 /\ tries.code = 0 /\ tries.key = 0
  BY DEF LoginInit, TriesFine
<1>3. acct \in AccountRow /\ acct.totp = FALSE /\ acct.failed = 0 /\ acct.locked = 0 /\ acct.made = 0
  <2>1. 0 \in 0 .. MaxCounter /\ 0 \in 0 .. Horizon + LockoutTime
    BY Positive, LoginAssumption
  <2> QED
    BY <2>1 DEF LoginInit, AccountRow
<1>4. PasswordCounted
  BY <1>2, <1>3, Positive DEF PasswordCounted
<1>5. CodesCounted
  BY <1>1, <1>2, EntryFine, Positive DEF CodesCounted, LoginInit
<1>6. KeysCounted
  <2>1. Busy = {}
    BY DEF Busy, LoginInit
  <2>2. Cardinality(Busy) = 0
    BY <2>1, FS_EmptySet
  <2>3. checking \in [Worker -> BOOLEAN]
    BY DEF LoginInit
  <2> QED
    BY <1>1, <1>2, <2>2, <2>3, EntryFine, Positive DEF KeysCounted, LoginInit
<1>8. ChallengesFine
  BY DEF ChallengesFine, LoginInit
<1>9. SessionsFine
  BY <1>1, NoSessionFine DEF SessionsFine, LoginInit
<1> QED
  BY <1>1, <1>2, <1>3, <1>4, <1>5, <1>6, <1>8, <1>9 DEF LoginInv, AccountFine

\* The code of the second factor: who counts its failures, and who clears them.
LEMMA CodesStep ==
  ASSUME LoginInv, LoginStep
  PROVE  CodesCounted'
<1>1. /\ codes \in Tracker /\ codes.count \in Nat /\ codes.until \in Nat /\ tries.code \in Nat
      /\ tries.code <= codes.count /\ tries.code <= MaxAttempts /\ (codes.until = 0 => codes.count < MaxAttempts)
  BY DEF LoginInv, CodesCounted, TriesFine, Tracker
<1>2. tries \in [password : Nat, code : Nat, key : Nat]
  BY DEF LoginInv, TriesFine
<1>3. ClockFine
  BY DEF LoginInv
<1>4. CASE codes' = NoEntry /\ tries'.code = 0
  BY <1>3, <1>4, EntryFine, Positive DEF CodesCounted
<1>5. CASE codes' = codes /\ tries'.code = tries.code
  BY <1>1, <1>5 DEF CodesCounted
<1>6. ASSUME NEW s \in Session, login_2fa_fails(s) PROVE CodesCounted'
  <2>1. PICK e \in Tracker : e = EntryChecked(codes)
    BY <1>1, <1>3, EntryFine
  <2>2. ~EntryLocked(codes) /\ codes' = EntryFailed(e) /\ tries' = [tries EXCEPT !.code = IF e = NoEntry THEN 1 ELSE tries.code + 1]
    BY <1>6, <2>1 DEF login_2fa_fails, CodeRefused
  <2>3. tries'.code = IF e = NoEntry THEN 1 ELSE tries.code + 1
    BY <1>2, <2>2
  <2>4. e = NoEntry \/ (e = codes /\ codes.until = 0)
    BY <1>1, <1>3, <2>1, <2>2, EntryFine
  <2>5. /\ codes' \in Tracker /\ codes'.count = e.count + 1 /\ e.count \in Nat
        /\ codes'.until = 0 => e.count + 1 < MaxAttempts
    BY <1>3, <2>2, EntryFine DEF Tracker
  <2>6. NoEntry.count = 0
    BY <1>3, EntryFine
  <2> QED
    BY <1>1, <2>3, <2>4, <2>5, <2>6, Positive DEF CodesCounted
<1>7. ASSUME NEW s \in Session, login_2fa_inactive(s) PROVE CodesCounted'
  <2>1. codes' = EntryChecked(codes) /\ tries' = [tries EXCEPT !.code = IF EntryChecked(codes) = NoEntry THEN 0 ELSE tries.code]
    BY <1>7 DEF login_2fa_inactive
  <2>2. CASE EntryChecked(codes) = NoEntry
    BY <1>2, <1>4, <2>1, <2>2
  <2>3. CASE EntryChecked(codes) # NoEntry
    BY <1>1, <1>2, <1>3, <1>5, <2>1, <2>3, EntryFine
  <2> QED
    BY <2>2, <2>3
<1>8. ASSUME NEW s \in Session, SessionStep(s) PROVE CodesCounted'
  <2>1. CASE login_2fa(s)
    BY <1>2, <1>4, <2>1 DEF login_2fa
  <2>2. CASE login(s) \/ login_password(s)
    BY <1>2, <1>5, <2>2 DEF login, login_password
  <2>3. CASE \E c \in Challenge : webauthn_verify(s, c)
    BY <1>2, <1>5, <2>3 DEF webauthn_verify
  <2>4. CASE \/ enable_2fa(s) \/ confirm_2fa(s) \/ disable_2fa(s) \/ verify_registration(s) \/ toggle_credential(s)
             \/ delete_credential(s) \/ verify_session(s) \/ logout(s)
    BY <1>5, <2>4 DEF enable_2fa, confirm_2fa, disable_2fa, verify_registration, toggle_credential, delete_credential,
       SetKey, verify_session, logout
  <2> QED
    BY <1>6, <1>7, <1>8, <2>1, <2>2, <2>3, <2>4 DEF SessionStep
<1>9. CASE login_fails \/ login_password_fails \/ webauthn_start \/ session_cleanup \/ toggle_account
  BY <1>2, <1>5, <1>9 DEF login_fails, login_password_fails, webauthn_start, session_cleanup, toggle_account
<1>11. CASE \E w \in Worker : webauthn_refused(w) \/ webauthn_counted(w)
  BY <1>2, <1>5, <1>11 DEF webauthn_refused, webauthn_counted
<1>12. CASE Restart
  BY <1>2, <1>4, <1>12 DEF Restart
<1> QED
  BY <1>8, <1>9, <1>11, <1>12 DEF LoginStep

\* A worker that starts or ends a check of a key changes the number of the
\* checks by one.
LEMMA BusyMore ==
  ASSUME checking \in [Worker -> BOOLEAN], NEW w \in Worker, NEW b \in BOOLEAN, checking' = [checking EXCEPT ![w] = b]
  PROVE  /\ checking' \in [Worker -> BOOLEAN] /\ IsFiniteSet(Busy) /\ Cardinality(Busy) \in Nat
         /\ Cardinality(Busy) <= Cardinality(Worker)
         /\ b /\ ~checking[w] => Cardinality(Busy)' = Cardinality(Busy) + 1 /\ Cardinality(Busy) < Cardinality(Worker)
         /\ ~b /\ checking[w] => Cardinality(Busy)' = Cardinality(Busy) - 1
<1>1. IsFiniteSet(Busy) /\ Cardinality(Busy) \in Nat /\ Cardinality(Busy) <= Cardinality(Worker)
  <2>1. Busy \in SUBSET Worker
    BY DEF Busy
  <2> QED
    BY <2>1, Positive, FS_Subset, FS_CardinalityType
<1>2. checking' \in [Worker -> BOOLEAN]
  OBVIOUS
<1>3. ASSUME b = TRUE, checking[w] = FALSE
      PROVE  Cardinality(Busy)' = Cardinality(Busy) + 1 /\ Cardinality(Busy) < Cardinality(Worker)
  <2>1. Busy' = Busy \cup {w} /\ w \notin Busy
    BY <1>3 DEF Busy
  <2>2. Cardinality(Busy \cup {w}) = Cardinality(Busy) + 1
    BY <1>1, <2>1, FS_AddElement
  <2>3. Busy \cup {w} \in SUBSET Worker
    BY DEF Busy
  <2>4. Cardinality(Busy \cup {w}) <= Cardinality(Worker)
    BY <2>3, Positive, FS_Subset
  <2> QED
    BY <1>1, <2>1, <2>2, <2>4, Positive
<1>4. ASSUME b = FALSE, checking[w] = TRUE
      PROVE  Cardinality(Busy)' = Cardinality(Busy) - 1
  <2>1. Busy' = Busy \ {w} /\ w \in Busy
    BY <1>4 DEF Busy
  <2> QED
    BY <1>1, <2>1, FS_RemoveElement
<1>5. checking[w] \in BOOLEAN
  OBVIOUS
<1> QED
  BY <1>1, <1>2, <1>3, <1>4, <1>5

\* Every step keeps the count of refused security keys.
LEMMA KeysStep ==
  ASSUME LoginInv, LoginStep
  PROVE  KeysCounted'
<1>1. /\ keys \in Tracker /\ keys.count \in Nat /\ keys.until \in Nat /\ tries.key \in Nat
      /\ checking \in [Worker -> BOOLEAN] /\ tries.key <= keys.count + Cardinality(Busy)
      /\ tries.key <= MaxAttempts + Cardinality(Worker) - 1 /\ (keys.until = 0 => keys.count < MaxAttempts)
  BY DEF LoginInv, KeysCounted, TriesFine, Tracker
<1>2. tries \in [password : Nat, code : Nat, key : Nat]
  BY DEF LoginInv, TriesFine
<1>3. ClockFine
  BY DEF LoginInv
<1>4. IsFiniteSet(Busy) /\ Cardinality(Busy) \in Nat
  <2>1. Busy \in SUBSET Worker
    BY DEF Busy
  <2> QED
    BY <2>1, Positive, FS_Subset, FS_CardinalityType
<1>5. CASE keys' = keys /\ tries'.key = tries.key /\ checking' = checking
  BY <1>1, <1>5 DEF KeysCounted, Busy
<1>6. ASSUME NEW s \in Session, NEW c \in Challenge, webauthn_verify(s, c) PROVE KeysCounted'
  <2>1. keys' = NoEntry /\ tries'.key = 0 /\ checking' = checking
    BY <1>2, <1>6 DEF webauthn_verify
  <2>2. Busy' = Busy
    BY <2>1 DEF Busy
  <2> QED
    BY <1>1, <1>3, <1>4, <2>1, <2>2, EntryFine, Positive DEF KeysCounted
<1>7. CASE Restart
  <2>1. keys' = NoEntry /\ tries'.key = 0 /\ checking' = [w \in Worker |-> FALSE]
    BY <1>2, <1>7 DEF Restart
  <2>2. Busy' = {}
    BY <2>1 DEF Busy
  <2>3. Cardinality(Busy') = 0
    BY <2>2, FS_EmptySet
  <2> QED
    BY <1>3, <2>1, <2>3, EntryFine, Positive DEF KeysCounted
<1>8. ASSUME NEW w \in Worker, webauthn_refused(w) PROVE KeysCounted'
  <2>1. PICK e \in Tracker : e = EntryChecked(keys)
    BY <1>1, <1>3, EntryFine
  <2>2. /\ ~checking[w] /\ ~EntryLocked(keys) /\ keys' = e /\ checking' = [checking EXCEPT ![w] = TRUE]
        /\ tries' = [tries EXCEPT !.key = IF e = NoEntry /\ keys # NoEntry THEN 1 ELSE tries.key + 1]
    BY <1>8, <2>1 DEF webauthn_refused
  <2>3. tries'.key = IF e = NoEntry /\ keys # NoEntry THEN 1 ELSE tries.key + 1
    BY <1>2, <2>2
  <2>4. /\ checking' \in [Worker -> BOOLEAN] /\ Cardinality(Busy)' = Cardinality(Busy) + 1
        /\ Cardinality(Busy) < Cardinality(Worker)
    BY <1>1, <2>2, BusyMore
  <2>5. (e = NoEntry /\ keys # NoEntry) \/ (e = keys /\ keys.until = 0)
    BY <1>1, <1>3, <2>1, <2>2, EntryFine
  <2>6. NoEntry.count = 0
    BY <1>3, EntryFine
  <2>7. CASE e = NoEntry /\ keys # NoEntry
    BY <1>4, <2>2, <2>3, <2>4, <2>6, <2>7, Positive DEF KeysCounted
  <2>8. CASE e = keys /\ keys.until = 0
    <3>1. tries'.key = tries.key + 1
      BY <2>3, <2>8
    <3>2. tries.key + 1 <= keys.count + (Cardinality(Busy) + 1)
      BY <1>1, <1>4
    <3>3. tries.key + 1 <= MaxAttempts + Cardinality(Worker) - 1
      BY <1>1, <1>4, <2>4, <2>8, Positive
    <3> QED
      BY <1>1, <2>2, <2>4, <2>8, <3>1, <3>2, <3>3 DEF KeysCounted
  <2> QED
    BY <2>5, <2>7, <2>8
<1>9. ASSUME NEW w \in Worker, webauthn_counted(w) PROVE KeysCounted'
  <2>1. checking[w] /\ keys' = EntryFailed(keys) /\ checking' = [checking EXCEPT ![w] = FALSE] /\ tries' = tries
    BY <1>9 DEF webauthn_counted
  <2>2. checking' \in [Worker -> BOOLEAN] /\ Cardinality(Busy)' = Cardinality(Busy) - 1
    BY <1>1, <2>1, BusyMore
  <2>3. /\ keys' \in Tracker /\ keys'.count = keys.count + 1
        /\ keys'.until = 0 => keys.count + 1 < MaxAttempts
    BY <1>1, <1>3, <2>1, EntryFine
  <2>4. tries.key <= (keys.count + 1) + (Cardinality(Busy) - 1)
    BY <1>1, <1>4
  <2> QED
    BY <1>1, <2>1, <2>2, <2>3, <2>4 DEF KeysCounted
<1>10. ASSUME NEW s \in Session, SessionStep(s) PROVE KeysCounted'
  <2>1. CASE login(s) \/ login_password(s) \/ login_2fa(s) \/ login_2fa_fails(s) \/ login_2fa_inactive(s)
    BY <1>2, <1>5, <2>1 DEF login, login_password, login_2fa, login_2fa_fails, login_2fa_inactive
  <2>2. CASE \/ enable_2fa(s) \/ confirm_2fa(s) \/ disable_2fa(s) \/ verify_registration(s) \/ toggle_credential(s)
             \/ delete_credential(s) \/ verify_session(s) \/ logout(s)
    BY <1>5, <2>2 DEF enable_2fa, confirm_2fa, disable_2fa, verify_registration, toggle_credential, delete_credential,
       SetKey, verify_session, logout
  <2> QED
    BY <1>6, <1>10, <2>1, <2>2 DEF SessionStep
<1>11. CASE login_fails \/ login_password_fails \/ webauthn_start \/ session_cleanup \/ toggle_account
  BY <1>2, <1>5, <1>11 DEF login_fails, login_password_fails, webauthn_start, session_cleanup, toggle_account
<1> QED
  BY <1>7, <1>8, <1>9, <1>10, <1>11 DEF LoginStep

\* Every step keeps the counts of attempts naturals.
LEMMA TriesStep ==
  ASSUME LoginInv, LoginStep
  PROVE  TriesFine'
<1>1. tries \in [password : Nat, code : Nat, key : Nat]
  BY DEF LoginInv, TriesFine
<1>2. tries.password \in Nat /\ tries.code \in Nat /\ tries.key \in Nat
  BY <1>1
<1>3. ASSUME NEW s \in Session, SessionStep(s) PROVE TriesFine'
  <2>1. CASE login_2fa_fails(s)
    <3>1. PICK n \in Nat : n = IF EntryChecked(codes) = NoEntry THEN 1 ELSE tries.code + 1
      BY <1>2
    <3>2. tries' = [tries EXCEPT !.code = n]
      BY <2>1, <3>1 DEF login_2fa_fails
    <3> QED
      BY <1>1, <3>2 DEF TriesFine
  <2>2. CASE login_2fa_inactive(s)
    <3>1. PICK n \in Nat : n = IF EntryChecked(codes) = NoEntry THEN 0 ELSE tries.code
      BY <1>2
    <3>2. tries' = [tries EXCEPT !.code = n]
      BY <2>2, <3>1 DEF login_2fa_inactive
    <3> QED
      BY <1>1, <3>2 DEF TriesFine
  <2>3. CASE login(s) \/ login_password(s) \/ login_2fa(s)
    <3>1. tries' = [tries EXCEPT !.password = 0] \/ tries' = [tries EXCEPT !.code = 0]
      BY <2>3 DEF login, login_password, login_2fa
    <3> QED
      BY <1>1, <3>1 DEF TriesFine
  <2>4. CASE \E c \in Challenge : webauthn_verify(s, c)
    <3>1. tries' = [tries EXCEPT !.key = 0, !.password = 0]
      BY <2>4 DEF webauthn_verify
    <3> QED
      BY <1>1, <3>1 DEF TriesFine
  <2>5. CASE \/ enable_2fa(s) \/ confirm_2fa(s) \/ disable_2fa(s) \/ verify_registration(s) \/ toggle_credential(s)
             \/ delete_credential(s) \/ verify_session(s) \/ logout(s)
    BY <1>1, <2>5 DEF enable_2fa, confirm_2fa, disable_2fa, verify_registration, toggle_credential, delete_credential,
       SetKey, verify_session, logout, TriesFine
  <2> QED
    BY <1>3, <2>1, <2>2, <2>3, <2>4, <2>5 DEF SessionStep
<1>4. CASE login_fails
  <2>1. PICK n \in Nat : n = TriesChecked
    BY <1>2 DEF TriesChecked
  <2>2. tries' = [tries EXCEPT !.password = n + 1]
    BY <1>4, <2>1 DEF login_fails
  <2> QED
    BY <1>1, <2>2 DEF TriesFine
<1>5. CASE \E w \in Worker : webauthn_refused(w)
  <2>1. PICK n \in Nat : n = IF EntryChecked(keys) = NoEntry /\ keys # NoEntry THEN 1 ELSE tries.key + 1
    BY <1>2
  <2>2. tries' = [tries EXCEPT !.key = n]
    BY <1>5, <2>1 DEF webauthn_refused
  <2> QED
    BY <1>1, <2>2 DEF TriesFine
<1>6. CASE \/ login_password_fails \/ webauthn_start \/ session_cleanup \/ toggle_account
           \/ Restart \/ \E w \in Worker : webauthn_counted(w)
  <2>1. tries' = tries \/ tries' = [tries EXCEPT !.code = 0, !.key = 0]
    BY <1>6 DEF login_password_fails, webauthn_start, session_cleanup, toggle_account, Restart,
       webauthn_counted
  <2>2. [tries EXCEPT !.code = 0, !.key = 0] \in [password : Nat, code : Nat, key : Nat]
    BY <1>1
  <2> QED
    BY <1>1, <2>1, <2>2 DEF TriesFine
<1> QED
  BY <1>3, <1>4, <1>5, <1>6 DEF LoginStep

\* The fields of a row and of a change to it.
LEMMA AccountFields ==
  ASSUME NEW a \in AccountRow
  PROVE  /\ a.active \in BOOLEAN /\ a.failed \in 0 .. MaxCounter /\ a.locked \in 0 .. Horizon + LockoutTime
         /\ a.secret \in BOOLEAN /\ a.totp \in BOOLEAN
         /\ a.key \in {"none", "enabled", "disabled"} /\ a.made \in Nat
BY DEF AccountRow

SameFactor(a, b) == b.totp = a.totp /\ b.secret = a.secret

\* A change that leaves the second factor.
LEMMA AccountKept ==
  ASSUME AccountFine, acct' \in AccountRow, SameFactor(acct, acct')
  PROVE  AccountFine'
BY DEF AccountFine, SameFactor

\* With the lock checked the row has none, and the answers are those it counts.
LEMMA Unlocked ==
  ASSUME ClockFine, TriesFine, AccountFine, PasswordCounted, ~AccountLocked
  PROVE  LET a == LockChecked(acct)
         IN  /\ a \in AccountRow /\ a.locked = 0 /\ SameFactor(acct, a) /\ a.made = acct.made
             /\ TriesChecked \in Nat /\ TriesChecked < MaxAttempts /\ TriesChecked <= a.failed
<1>0. acct \in AccountRow /\ acct.failed \in 0 .. MaxCounter /\ acct.locked \in 0 .. Horizon + LockoutTime
  BY AccountFields DEF AccountFine
<1>1. clock \in Nat /\ tries.password \in Nat /\ tries.password <= acct.failed
  BY Positive DEF ClockFine, TriesFine, PasswordCounted
<1>2. acct.locked \in Nat
  BY <1>0, Positive
<1>3. CASE acct.locked # 0 /\ clock >= acct.locked
  <2>1. LockChecked(acct) = [acct EXCEPT !.locked = 0, !.failed = 0] /\ TriesChecked = 0
    BY <1>3 DEF LockChecked, TriesChecked
  <2>2. PICK a : a = LockChecked(acct)
    OBVIOUS
  <2>3. 0 \in 0 .. MaxCounter /\ 0 \in 0 .. Horizon + LockoutTime
    BY Positive, LoginAssumption
  <2>4. a \in AccountRow
    BY <1>0, <2>1, <2>2, <2>3 DEF AccountRow
  <2>5. a.locked = 0 /\ a.failed = 0 /\ a.made = acct.made
    BY <1>0, <2>1, <2>2 DEF AccountRow
  <2>6. SameFactor(acct, a)
    BY <1>0, <2>1, <2>2 DEF AccountRow, SameFactor
  <2> QED
    BY <2>1, <2>2, <2>4, <2>5, <2>6, Positive
<1>4. CASE ~(acct.locked # 0 /\ clock >= acct.locked)
  <2>1. LockChecked(acct) = acct /\ TriesChecked = tries.password
    BY <1>4 DEF LockChecked, TriesChecked
  <2>2. acct.locked = 0
    BY <1>1, <1>2, <1>4 DEF AccountLocked
  <2>3. tries.password < MaxAttempts
    BY <2>2 DEF PasswordCounted
  <2> QED
    BY <1>0, <1>1, <2>1, <2>2, <2>3 DEF SameFactor
<1> QED
  BY <1>3, <1>4

\* A step that loses no failure of the account keeps the count of refused
\* passwords.
LEMMA CountKept ==
  ASSUME LoginInv, acct' \in AccountRow, acct'.failed >= acct.failed, acct'.locked = acct.locked,
         tries'.password = tries.password
  PROVE  PasswordCounted'
<1>1. tries.password \in Nat /\ acct.failed \in Nat /\ acct'.failed \in Nat
  BY AccountFields, LoginAssumption DEF LoginInv, TriesFine, AccountFine
<1> QED
  BY <1>1, Positive DEF LoginInv, PasswordCounted

\* A step that clears the attempts keeps the count of refused passwords.
LEMMA CountCleared ==
  ASSUME acct' \in AccountRow, tries'.password = 0
  PROVE  PasswordCounted'
<1>1. acct'.failed \in 0 .. MaxCounter
  BY AccountFields
<1>2. 0 <= acct'.failed
  BY <1>1, LoginAssumption
<1> QED
  BY <1>2, Positive DEF PasswordCounted

\* What the owner or an administrator changes of the row touches no count.
LEMMA OwnerStep ==
  ASSUME LoginInv, NEW s,
         \/ enable_2fa(s) \/ confirm_2fa(s) \/ disable_2fa(s) \/ verify_registration(s) \/ toggle_credential(s)
         \/ delete_credential(s) \/ toggle_account
  PROVE  AccountFine' /\ PasswordCounted' /\ acct'.made = acct.made
<1>1. tries' = tries
  BY DEF enable_2fa, confirm_2fa, disable_2fa, verify_registration, toggle_credential, delete_credential, SetKey, toggle_account
<1>2. acct \in AccountRow /\ AccountFine
  BY DEF LoginInv, AccountFine
<1>3. acct.failed \in Nat
  BY <1>2, AccountFields, LoginAssumption
<1>4. CASE \/ verify_registration(s) \/ toggle_credential(s) \/ delete_credential(s)
  <2>1. PICK k \in {"none", "enabled", "disabled"} : acct' = [acct EXCEPT !.key = k]
    BY <1>4 DEF verify_registration, toggle_credential, delete_credential, SetKey
  <2>2. acct' \in AccountRow
    BY <1>2, <2>1 DEF AccountRow
  <2>3. SameFactor(acct, acct')
    BY <1>2, <2>1 DEF AccountRow, SameFactor
  <2>4. acct'.failed = acct.failed /\ acct'.locked = acct.locked /\ acct'.made = acct.made
    BY <1>2, <2>1 DEF AccountRow
  <2> QED
    BY <1>1, <1>2, <1>3, <2>2, <2>3, <2>4, AccountKept, CountKept
<1>5. CASE toggle_account
  <2>1. acct.active \in BOOLEAN
    BY <1>2, AccountFields
  <2>2. PICK b \in BOOLEAN : acct' = [acct EXCEPT !.active = b]
    BY <1>5, <2>1 DEF toggle_account
  <2>3. acct' \in AccountRow
    BY <1>2, <2>2 DEF AccountRow
  <2>4. SameFactor(acct, acct')
    BY <1>2, <2>2 DEF AccountRow, SameFactor
  <2>5. acct'.failed = acct.failed /\ acct'.locked = acct.locked /\ acct'.made = acct.made
    BY <1>2, <2>2 DEF AccountRow
  <2> QED
    BY <1>1, <1>2, <1>3, <2>3, <2>4, <2>5, AccountKept, CountKept
<1>6. CASE enable_2fa(s) \/ confirm_2fa(s) \/ disable_2fa(s)
  <2>1. \/ acct' = [acct EXCEPT !.secret = TRUE]
        \/ acct' = [acct EXCEPT !.totp = TRUE] /\ acct.secret
        \/ acct' = [acct EXCEPT !.totp = FALSE, !.secret = FALSE]
    BY <1>6 DEF enable_2fa, confirm_2fa, disable_2fa
  <2>2. acct.secret \in BOOLEAN
    BY <1>2, AccountFields
  <2>3. acct' \in AccountRow
    <3>1. [acct EXCEPT !.totp = FALSE, !.secret = FALSE] \in AccountRow
      BY <1>2 DEF AccountRow
    <3>2. [acct EXCEPT !.totp = TRUE] \in AccountRow
      BY <1>2 DEF AccountRow
    <3>3. [acct EXCEPT !.secret = TRUE] \in AccountRow
      BY <1>2 DEF AccountRow
    <3> QED
      BY <2>1, <3>1, <3>2, <3>3
  <2>5. acct'.failed = acct.failed /\ acct'.locked = acct.locked /\ acct'.made = acct.made
    BY <1>2, <2>1 DEF AccountRow
  <2>6. acct'.totp = TRUE => acct'.secret = TRUE
    BY <1>2, <2>1, <2>2 DEF AccountRow, AccountFine
  <2>7. AccountFine'
    BY <1>2, <2>3, <2>6 DEF AccountFine
  <2> QED
    BY <1>1, <1>3, <2>3, <2>5, <2>7, CountKept
<1> QED
  BY <1>4, <1>5, <1>6

\* A password that was taken, and a security key, clear the count.
LEMMA TakenStep ==
  ASSUME LoginInv, NEW s \in Session, login(s) \/ login_password(s) \/ \E c \in Challenge : webauthn_verify(s, c)
  PROVE  AccountFine' /\ PasswordCounted' /\ acct'.made = acct.made
<1>1. tries' \in {[tries EXCEPT !.password = 0], [tries EXCEPT !.key = 0, !.password = 0]}
  BY DEF login, login_password, webauthn_verify
<1>2. acct \in AccountRow /\ AccountFine /\ ClockFine /\ TriesFine /\ PasswordCounted
  BY DEF LoginInv, AccountFine
<1>3. tries'.password = 0
  BY <1>1, <1>2 DEF TriesFine
<1>4. 0 \in 0 .. MaxCounter /\ 0 \in 0 .. Horizon + LockoutTime
  BY Positive, LoginAssumption
<1>5. PICK a \in AccountRow :
        /\ SameFactor(acct, a) /\ a.made = acct.made
        /\ acct' = [a EXCEPT !.failed = 0, !.locked = 0] \/ acct' = [a EXCEPT !.failed = 0]
  <2>1. CASE login(s)
    <3>1. ~AccountLocked /\ acct' = [LockChecked(acct) EXCEPT !.failed = 0, !.locked = 0]
      BY <2>1 DEF login
    <3>2. PICK a : a = LockChecked(acct)
      OBVIOUS
    <3>3. a \in AccountRow /\ SameFactor(acct, a) /\ a.made = acct.made
      BY <1>2, <3>1, <3>2, Unlocked
    <3> QED
      BY <3>1, <3>2, <3>3
  <2>2. CASE login_password(s) \/ \E c \in Challenge : webauthn_verify(s, c)
    BY <1>2, <2>2 DEF login_password, webauthn_verify, SameFactor
  <2> QED
    BY <2>1, <2>2
<1>6. acct' \in AccountRow
  BY <1>4, <1>5 DEF AccountRow
<1>7. SameFactor(a, acct') /\ acct'.made = a.made
  BY <1>5 DEF AccountRow, SameFactor
<1>8. SameFactor(acct, acct') /\ acct'.made = acct.made
  BY <1>5, <1>7 DEF SameFactor
<1> QED
  BY <1>1, <1>2, <1>3, <1>6, <1>8, AccountKept, CountCleared

\* A wrong password: counted by both logins, and the older one locks the row with the
\* MaxAttempts-th.
LEMMA WrongStep ==
  ASSUME LoginInv, login_fails \/ login_password_fails
  PROVE  AccountFine' /\ PasswordCounted' /\ acct'.made = acct.made
<1>2. acct \in AccountRow /\ AccountFine /\ ClockFine /\ TriesFine /\ PasswordCounted
  BY DEF LoginInv, AccountFine
<1>3. clock \in Nat /\ clock # 0 /\ clock <= Horizon
  BY <1>2, Positive DEF ClockFine
<1>4. CASE login_fails
  <2>1. PICK a : a = LockChecked(acct)
    OBVIOUS
  <2>2. PICK n : n = TriesChecked
    OBVIOUS
  <2>3. ~AccountLocked /\ a.failed < MaxCounter /\ acct' = RecordFailed(a) /\ tries' = [tries EXCEPT !.password = n + 1]
    BY <1>4, <2>1, <2>2 DEF login_fails
  <2>4. /\ a \in AccountRow /\ a.locked = 0 /\ SameFactor(acct, a) /\ a.made = acct.made
        /\ n \in Nat /\ n < MaxAttempts /\ n <= a.failed
    BY <1>2, <2>1, <2>2, <2>3, Unlocked
  <2>5. a.failed \in 0 .. MaxCounter /\ MaxCounter \in Nat
    BY <2>4, AccountFields, LoginAssumption
  <2>6. PICK l \in 0 .. Horizon + LockoutTime : l = IF a.failed + 1 >= MaxAttempts THEN clock + LockoutTime ELSE 0
    BY <1>3, Positive
  <2>7. PICK f \in 0 .. MaxCounter : f = a.failed + 1
    BY <2>3, <2>5
  <2>8. acct' = [a EXCEPT !.failed = f, !.locked = l]
    BY <2>3, <2>4, <2>6, <2>7 DEF RecordFailed
  <2>9. acct' \in AccountRow
    BY <2>4, <2>8 DEF AccountRow
  <2>10. SameFactor(a, acct') /\ acct'.made = a.made /\ acct'.failed = f /\ acct'.locked = l
    BY <2>4, <2>8 DEF AccountRow, SameFactor
  <2>11. SameFactor(acct, acct') /\ acct'.made = acct.made
    BY <2>4, <2>10 DEF SameFactor
  <2>12. tries'.password = n + 1
    BY <1>2, <2>3 DEF TriesFine
  <2>13. n + 1 <= f /\ n + 1 <= MaxAttempts /\ (l = 0 => n + 1 < MaxAttempts)
    BY <1>3, <2>4, <2>5, <2>6, <2>7, Positive
  <2>14. PasswordCounted'
    BY <2>10, <2>12, <2>13 DEF PasswordCounted
  <2> QED
    BY <1>2, <2>9, <2>11, <2>14, AccountKept
<1>5. CASE login_password_fails
  <2>1. acct.failed \in 0 .. MaxCounter /\ MaxCounter \in Nat
    BY <1>2, AccountFields, LoginAssumption
  <2>2. acct.failed < MaxCounter /\ acct' = [acct EXCEPT !.failed = acct.failed + 1] /\ tries' = tries
    BY <1>5 DEF login_password_fails
  <2>3. PICK f \in 0 .. MaxCounter : f = acct.failed + 1
    BY <2>1, <2>2
  <2>4. acct' = [acct EXCEPT !.failed = f]
    BY <2>2, <2>3
  <2>5. acct' \in AccountRow
    BY <1>2, <2>4 DEF AccountRow
  <2>6. SameFactor(acct, acct') /\ acct'.made = acct.made /\ acct'.failed = f /\ acct'.locked = acct.locked
    BY <1>2, <2>4 DEF AccountRow, SameFactor
  <2>7. acct'.failed >= acct.failed
    BY <2>1, <2>3, <2>6
  <2> QED
    BY <1>2, <2>2, <2>5, <2>6, <2>7, AccountKept, CountKept
<1> QED
  BY <1>4, <1>5

\* A WebAuthn challenge handed out changes the account's count of them alone.
LEMMA StartStep ==
  ASSUME LoginInv, webauthn_start
  PROVE  AccountFine' /\ PasswordCounted' /\ acct'.made = acct.made + 1
<1>1. acct \in AccountRow /\ AccountFine
  BY DEF LoginInv, AccountFine
<1>2. PICK n \in Nat : n = acct.made + 1
  BY <1>1, AccountFields
<1>3. acct' = [acct EXCEPT !.made = n] /\ tries' = tries
  BY <1>2 DEF webauthn_start
<1>4. acct' \in AccountRow
  BY <1>1, <1>3 DEF AccountRow
<1>5. SameFactor(acct, acct') /\ acct'.made = n /\ acct'.failed = acct.failed /\ acct'.locked = acct.locked
  BY <1>1, <1>3 DEF AccountRow, SameFactor
<1>6. acct.failed \in Nat
  BY <1>1, AccountFields, LoginAssumption
<1> QED
  BY <1>1, <1>2, <1>3, <1>4, <1>5, <1>6, AccountKept, CountKept

\* Every step keeps the account's row and its count of failures.
LEMMA AccountStep ==
  ASSUME LoginInv, LoginStep
  PROVE  AccountFine' /\ PasswordCounted' /\ (webauthn_start \/ acct'.made = acct.made)
<1>1. tries \in [password : Nat, code : Nat, key : Nat]
  BY DEF LoginInv, TriesFine
<1>2. CASE acct' = acct /\ tries'.password = tries.password
  BY <1>2 DEF LoginInv, AccountFine, PasswordCounted
<1>3. ASSUME NEW s \in Session, SessionStep(s)
      PROVE  AccountFine' /\ PasswordCounted' /\ acct'.made = acct.made
  <2>1. CASE login_2fa(s) \/ login_2fa_fails(s) \/ login_2fa_inactive(s) \/ verify_session(s) \/ logout(s)
    <3>1. acct' = acct
      BY <2>1 DEF login_2fa, login_2fa_fails, login_2fa_inactive, verify_session, logout
    <3>2. tries'.password = tries.password
      BY <1>1, <2>1 DEF login_2fa, login_2fa_fails, login_2fa_inactive, verify_session, logout
    <3> QED
      BY <1>2, <3>1, <3>2
  <2> QED
    BY <1>3, <2>1, OwnerStep, TakenStep DEF SessionStep
<1>4. CASE Restart \/ session_cleanup \/ \E w \in Worker : webauthn_refused(w) \/ webauthn_counted(w)
  <2>1. acct' = acct
    BY <1>4 DEF Restart, session_cleanup, webauthn_refused, webauthn_counted
  <2>2. tries'.password = tries.password
    BY <1>1, <1>4 DEF Restart, session_cleanup, webauthn_refused, webauthn_counted
  <2> QED
    BY <1>2, <2>1, <2>2
<1> QED
  BY <1>3, <1>4, OwnerStep, WrongStep, StartStep DEF LoginStep

\* Every step keeps the challenges that were of use out of the table.
LEMMA ChallengesStep ==
  ASSUME LoginInv, LoginStep
  PROVE  ChallengesFine'
<1>1. /\ challenge \in [Challenge -> Nat] /\ opened \in [Challenge -> {0, 1}]
      /\ \A c \in Challenge : challenge[c] # 0 => opened[c] = 0
      /\ \A c \in Challenge : c > acct.made => challenge[c] = 0 /\ opened[c] = 0
  BY DEF LoginInv, ChallengesFine
<1>2. acct.made \in Nat /\ clock \in Nat
  BY AccountFields, Positive DEF LoginInv, AccountFine, ClockFine
<1>3. webauthn_start \/ acct'.made = acct.made
  BY AccountStep
<1>4. CASE webauthn_start
  <2>1. PICK n \in Challenge : n = acct.made + 1
    BY <1>4 DEF webauthn_start
  <2>2. PICK e \in Nat : e = clock + ChallengeLife
    BY <1>2, LoginAssumption
  <2>3. challenge' = [Fresh EXCEPT ![n] = e] /\ opened' = opened /\ acct'.made = n
    BY <1>4, <2>1, <2>2, StartStep DEF webauthn_start
  <2>4. Fresh \in [Challenge -> Nat] /\ \A c \in Challenge : Fresh[c] \in {0, challenge[c]}
    BY <1>1 DEF Fresh
  <2>5. challenge' \in [Challenge -> Nat]
    BY <2>3, <2>4
  <2>6. \A c \in Challenge : challenge'[c] # 0 => opened[c] = 0
    BY <1>1, <1>2, <2>1, <2>3, <2>4
  <2>7. \A c \in Challenge : c > n => challenge'[c] = 0 /\ opened[c] = 0
    BY <1>1, <1>2, <2>1, <2>3, <2>4, LoginAssumption
  <2> QED
    BY <1>1, <2>3, <2>5, <2>6, <2>7 DEF ChallengesFine
<1>5. ASSUME NEW s, NEW c \in Challenge, webauthn_verify(s, c), acct'.made = acct.made PROVE ChallengesFine'
  <2>1. challenge[c] # 0 /\ challenge' = [challenge EXCEPT ![c] = 0] /\ opened' = [opened EXCEPT ![c] = opened[c] + 1]
    BY <1>5 DEF webauthn_verify, ChallengeValid, ChallengeTaken
  <2>2. opened' = [opened EXCEPT ![c] = 1] /\ ~(c > acct.made)
    <3>1. opened[c] = 0
      BY <1>1, <2>1
    <3>2. ~(c > acct.made)
      BY <1>1, <2>1
    <3>3. opened[c] + 1 = 1
      BY <3>1
    <3> QED
      BY <2>1, <3>2, <3>3
  <2>3. challenge' \in [Challenge -> Nat] /\ opened' \in [Challenge -> {0, 1}]
    BY <1>1, <2>1, <2>2
  <2>4. \A d \in Challenge : challenge'[d] # 0 => opened'[d] = 0
    BY <1>1, <2>1, <2>2
  <2>5. \A d \in Challenge : d > acct.made => challenge'[d] = 0 /\ opened'[d] = 0
    BY <1>1, <2>1, <2>2
  <2> QED
    BY <1>5, <2>3, <2>4, <2>5 DEF ChallengesFine
<1>6. CASE challenge' = challenge /\ opened' = opened /\ acct'.made = acct.made
  BY <1>1, <1>6 DEF ChallengesFine
<1>7. ASSUME NEW s \in Session, SessionStep(s), acct'.made = acct.made PROVE ChallengesFine'
  <2>1. CASE \/ login(s) \/ login_password(s) \/ login_2fa(s) \/ login_2fa_fails(s) \/ login_2fa_inactive(s)
             \/ enable_2fa(s) \/ confirm_2fa(s) \/ disable_2fa(s) \/ verify_registration(s) \/ toggle_credential(s)
             \/ delete_credential(s) \/ verify_session(s) \/ logout(s)
    BY <1>6, <1>7, <2>1 DEF login, login_password, login_2fa, login_2fa_fails, login_2fa_inactive, enable_2fa, confirm_2fa,
       disable_2fa, verify_registration, toggle_credential, delete_credential, SetKey, verify_session, logout
  <2> QED
    BY <1>5, <1>7, <2>1 DEF SessionStep
<1>8. CASE /\ acct'.made = acct.made
           /\ \/ login_fails \/ login_password_fails \/ session_cleanup \/ toggle_account \/ Restart
              \/ \E w \in Worker : webauthn_refused(w) \/ webauthn_counted(w)
  BY <1>6, <1>8 DEF login_fails, login_password_fails, session_cleanup, toggle_account, Restart,
     webauthn_refused, webauthn_counted
<1> QED
  BY <1>3, <1>4, <1>7, <1>8 DEF LoginStep

\* What an accepted request asks of its session.
FreshUse(s) ==
  /\ sess[s].user = "full" /\ sess'[s].user = "full"
  /\ sess'[s].born = sess[s].born /\ sess'[s].last # sess[s].last
  => /\ sess[s].last # 0 => clock <= sess[s].last + SessionTimeout
     /\ sess[s].login # 0 => clock <= sess[s].born + SessionMaxLifetime

\* A session that is set changes no other.
LEMMA SessionSet ==
  ASSUME SessionsFine, NEW s \in Session, NEW r, SessionFine(r), clock' = clock, SetSession(s, r)
  PROVE  SessionsFine' /\ sess'[s] = r /\ \A o \in Session \ {s} : sess'[o] = sess[o]
<1>1. sess' = [sess EXCEPT ![s] = r]
  BY DEF SetSession
<1>2. DOMAIN sess' = Session /\ sess' = [o \in Session |-> sess'[o]] /\ sess'[s] = r
      /\ \A o \in Session \ {s} : sess'[o] = sess[o]
  BY <1>1 DEF SessionsFine
<1>3. \A o \in Session : SessionFine(sess'[o])
  BY <1>2 DEF SessionsFine
<1>4. \A o \in Session : SessionFine(sess[o])'
  BY <1>3 DEF SessionFine
<1> QED
  BY <1>2, <1>4 DEF SessionsFine

\* A session just opened is that of the user, born now.
LEMMA OpenedFine ==
  ASSUME ClockFine, NEW timed \in BOOLEAN
  PROVE  LET r == Opened(timed)
         IN  SessionFine(r) /\ r.user = "full" /\ r.born = clock /\ r.totp = FALSE /\ r.last \in {0, clock} /\ r.login \in {0, clock}
<1>1. clock \in Nat
  BY Positive DEF ClockFine
<1>2. PICK n \in {0, clock} : n = IF timed THEN clock ELSE 0
  OBVIOUS
<1>3. Opened(timed) = [user |-> "full", login |-> n, last |-> n, born |-> clock, totp |-> FALSE, factor |-> FALSE]
  BY <1>2 DEF Opened
<1>4. PICK r : r = Opened(timed)
  OBVIOUS
<1>5. r \in SessionRow
  BY <1>1, <1>2, <1>3, <1>4 DEF SessionRow
<1>6. r.user = "full" /\ r.born = clock /\ r.totp = FALSE /\ r.last = n /\ r.login = n
  BY <1>3, <1>4
<1>7. SessionFine(r)
  BY <1>1, <1>2, <1>5, <1>6 DEF SessionFine
<1> QED
  BY <1>2, <1>4, <1>6, <1>7

\* A session that waits for its second factor is nobody's.
LEMMA PendingFine == ASSUME ClockFine PROVE SessionFine(Pending) /\ Pending.user = "pending"
<1>1. clock \in Nat
  BY Positive DEF ClockFine
<1>2. NoSession \in SessionRow /\ NoSession.login = 0 /\ NoSession.last = 0
  BY DEF NoSession, SessionRow
<1>3. PICK r : r = Pending
  OBVIOUS
<1>4. r \in SessionRow /\ r.user = "pending" /\ r.login = 0 /\ r.last = 0 /\ r.born = clock
  BY <1>1, <1>2, <1>3 DEF SessionRow, Pending
<1>5. SessionFine(r)
  BY <1>1, <1>4 DEF SessionFine
<1> QED
  BY <1>3, <1>4, <1>5

\* A session that is replaced by a new one of the same instant, by none, or by a
\* pending one, has not been used.
LEMMA NewSession ==
  ASSUME LoginInv, NEW s \in Session, NEW r, SessionFine(r), clock' = clock, SetSession(s, r),
         r.user # "full" \/ r.born = clock
  PROVE  SessionsFine' /\ \A o \in Session : FreshUse(o)
<1>1. SessionsFine' /\ sess'[s] = r /\ \A o \in Session \ {s} : sess'[o] = sess[o]
  BY SessionSet DEF LoginInv
<1>2. sess[s].born \in Nat /\ sess[s].last \in Nat /\ (sess[s].last = 0 \/ sess[s].born <= sess[s].last)
  BY DEF LoginInv, SessionsFine, SessionFine, SessionRow
<1>3. FreshUse(s)
  BY <1>1, <1>2, LoginAssumption DEF FreshUse
<1>4. \A o \in Session \ {s} : FreshUse(o)
  BY <1>1 DEF FreshUse
<1> QED
  BY <1>1, <1>3, <1>4

\* Every step keeps the sessions, and none is used after its time.
LEMMA SessionsStep ==
  ASSUME LoginInv, LoginStep, clock' = clock
  PROVE  SessionsFine' /\ \A o \in Session : FreshUse(o)
<1>1. ClockFine /\ SessionsFine /\ \A s \in Session : SessionFine(sess[s])
  BY DEF LoginInv, SessionsFine
<1>2. clock \in Nat /\ clock # 0
  BY <1>1, Positive DEF ClockFine
<1>3. CASE sess' = sess
  BY <1>1, <1>3 DEF SessionsFine, SessionFine, FreshUse
<1>4. CASE session_cleanup
  <2>1. sess' = [s \in Session |->
                   IF sess[s].last + SessionMaxLifetime < clock /\ sess[s].born + SessionMaxLifetime < clock
                   THEN NoSession ELSE sess[s]]
    BY <1>4 DEF session_cleanup
  <2>2. DOMAIN sess' = Session /\ sess' = [s \in Session |-> sess'[s]]
        /\ \A s \in Session : sess'[s] = NoSession \/ sess'[s] = sess[s]
    BY <2>1
  <2>3. \A s \in Session : SessionFine(sess'[s])
    BY <1>1, <2>2, NoSessionFine
  <2>4. \A s \in Session : SessionFine(sess[s])'
    BY <2>3 DEF SessionFine
  <2>5. \A s \in Session : FreshUse(s)
    <3>1. NoSession.user # "full"
      BY <1>1, NoSessionFine
    <3> QED
      BY <2>2, <3>1 DEF FreshUse
  <2> QED
    BY <2>2, <2>4, <2>5 DEF SessionsFine
<1>5. ASSUME NEW s \in Session, SessionStep(s) PROVE SessionsFine' /\ \A o \in Session : FreshUse(o)
  <2>1. CASE login(s)
    <3>1. SetSession(s, Opened(TRUE))
      BY <2>1 DEF login
    <3>2. PICK r : r = Opened(TRUE)
      OBVIOUS
    <3>3. SessionFine(r) /\ r.born = clock
      BY <1>1, <3>2, OpenedFine
    <3> QED
      BY <3>1, <3>2, <3>3, NewSession
  <2>2. CASE login_password(s)
    <3>1. SetSession(s, Pending) \/ SetSession(s, Opened(FALSE))
      BY <2>2 DEF login_password
    <3>2. PICK r : (r = Pending \/ r = Opened(FALSE)) /\ SetSession(s, r)
      BY <3>1
    <3>3. SessionFine(r) /\ (r.user # "full" \/ r.born = clock)
      <4>1. CASE r = Pending
        <5>1. r.user = "pending"
          BY <1>1, <4>1, PendingFine
        <5> QED
          BY <1>1, <4>1, <5>1, PendingFine
      <4>2. CASE r = Opened(FALSE)
        BY <1>1, <4>2, OpenedFine
      <4> QED
        BY <3>2, <4>1, <4>2
    <3> QED
      BY <3>2, <3>3, NewSession
  <2>3. CASE \E c \in Challenge : webauthn_verify(s, c)
    <3>1. SetSession(s, Opened(FALSE))
      BY <2>3 DEF webauthn_verify
    <3>2. PICK r : r = Opened(FALSE)
      OBVIOUS
    <3>3. SessionFine(r) /\ r.born = clock
      BY <1>1, <3>2, OpenedFine
    <3> QED
      BY <3>1, <3>2, <3>3, NewSession
  <2>4. CASE login_2fa(s)
    <3>1. PICK x : x = Opened(FALSE)
      OBVIOUS
    <3>2. PICK r : r = [x EXCEPT !.totp = TRUE, !.factor = TRUE, !.born = sess[s].born]
      OBVIOUS
    <3>3. sess[s].user = "pending" /\ SetSession(s, r)
      BY <2>4, <3>1, <3>2 DEF login_2fa
    <3>4. x = [user |-> "full", login |-> 0, last |-> 0, born |-> clock, totp |-> FALSE, factor |-> FALSE]
      BY <3>1 DEF Opened
    <3>5. x \in SessionRow /\ x.login = 0 /\ x.last = 0
      BY <1>2, <3>4 DEF SessionRow
    <3>6. sess[s].born \in Nat /\ sess[s].born <= clock
      BY <1>1 DEF SessionFine, SessionRow
    <3>7. r \in SessionRow /\ r.login = 0 /\ r.last = 0 /\ r.factor = TRUE /\ r.born = sess[s].born
      BY <3>2, <3>5, <3>6 DEF SessionRow
    <3>8. SessionFine(r)
      BY <3>6, <3>7 DEF SessionFine
    <3>9. SessionsFine' /\ \A o \in Session \ {s} : sess'[o] = sess[o]
      BY <1>1, <3>3, <3>8, SessionSet
    <3>10. FreshUse(s)
      BY <3>3 DEF FreshUse
    <3> QED
      BY <3>9, <3>10 DEF FreshUse
  <2>5. CASE login_2fa_inactive(s) \/ logout(s) \/ (verify_session(s) /\ ~Accepted(s))
    <3>1. SetSession(s, NoSession)
      BY <2>5 DEF login_2fa_inactive, logout, verify_session
    <3>2. SessionFine(NoSession) /\ NoSession.user # "full"
      BY <1>1, NoSessionFine
    <3> QED
      BY <3>1, <3>2, NewSession
  <2>6. CASE verify_session(s) /\ Accepted(s)
    <3>1. PICK r : r = [sess[s] EXCEPT !.last = clock]
      OBVIOUS
    <3>2. SetSession(s, r) /\ ~TooOld(sess[s]) /\ ~IdleTooLong(sess[s])
      BY <2>6, <3>1 DEF verify_session, Accepted
    <3>3. sess[s] \in SessionRow /\ sess[s].born \in Nat /\ sess[s].last \in Nat /\ sess[s].login \in {0, sess[s].born} /\ SessionFine(sess[s])
      BY <1>1 DEF SessionFine, SessionRow
    <3>4. r \in SessionRow /\ r.last = clock
      BY <1>2, <3>1, <3>3 DEF SessionRow
    <3>5. r.born = sess[s].born /\ r.login = sess[s].login /\ r.user = sess[s].user /\ r.totp = sess[s].totp /\ r.factor = sess[s].factor
      BY <3>1, <3>3 DEF SessionRow
    <3>6. SessionFine(r)
      BY <3>3, <3>4, <3>5 DEF SessionFine
    <3>7. SessionsFine' /\ \A o \in Session \ {s} : sess'[o] = sess[o]
      BY <1>1, <3>2, <3>6, SessionSet
    <3>8. (sess[s].last # 0 => clock <= sess[s].last + SessionTimeout) /\ (sess[s].login # 0 => clock <= sess[s].born + SessionMaxLifetime)
      BY <1>2, <3>2, <3>3, LoginAssumption DEF TooOld, IdleTooLong
    <3>9. FreshUse(s)
      BY <3>8 DEF FreshUse
    <3> QED
      BY <3>7, <3>9 DEF FreshUse
  <2>7. CASE \/ login_2fa_fails(s) \/ enable_2fa(s) \/ confirm_2fa(s) \/ disable_2fa(s)
             \/ verify_registration(s) \/ toggle_credential(s) \/ delete_credential(s)
    BY <1>3, <2>7 DEF login_2fa_fails, enable_2fa, confirm_2fa, disable_2fa, verify_registration, toggle_credential,
       delete_credential, SetKey
  <2> QED
    BY <1>5, <2>1, <2>2, <2>3, <2>4, <2>5, <2>6, <2>7 DEF SessionStep
<1>6. CASE \/ login_fails \/ login_password_fails \/ webauthn_start \/ toggle_account \/ Restart
           \/ \E w \in Worker : webauthn_refused(w) \/ webauthn_counted(w)
  BY <1>3, <1>6 DEF login_fails, login_password_fails, webauthn_start, toggle_account, Restart,
     webauthn_refused, webauthn_counted
<1> QED
  BY <1>4, <1>5, <1>6 DEF LoginStep

\* Every step of the logins keeps the invariant, and none uses a session after
\* its time.
LEMMA LoginStepInv ==
  ASSUME LoginInv, [LoginNext]_<<clock, loginVars>>
  PROVE  LoginInv' /\ \A s \in Session : FreshUse(s)
<1>1. CASE LoginStep /\ UNCHANGED <<clock, ways>>
  <2>1. ClockFine'
    BY <1>1 DEF LoginInv, ClockFine
  <2> QED
    BY <1>1, <2>1, TriesStep, AccountStep, CodesStep, KeysStep, ChallengesStep, SessionsStep DEF LoginInv
<1>2. CASE clock' \in {clock, clock + 1} /\ ClockFine' /\ UNCHANGED loginVars
  <2>1. /\ acct' = acct /\ sess' = sess /\ codes' = codes /\ keys' = keys /\ challenge' = challenge
        /\ checking' = checking /\ tries' = tries /\ opened' = opened
    BY <1>2 DEF loginVars
  <2>2. TriesFine' /\ AccountFine' /\ PasswordCounted' /\ CodesCounted'
    BY <2>1 DEF LoginInv, TriesFine, AccountFine, PasswordCounted, CodesCounted
  <2>3. KeysCounted' /\ ChallengesFine'
    BY <2>1 DEF LoginInv, KeysCounted, Busy, ChallengesFine
  <2>4. SessionsFine'
    <3>1. clock \in Nat
      BY Positive DEF LoginInv, ClockFine
    <3>2. \A s \in Session : SessionFine(sess[s])'
      BY <1>2, <2>1, <3>1 DEF LoginInv, SessionsFine, SessionFine, SessionRow
    <3> QED
      BY <2>1, <3>2 DEF LoginInv, SessionsFine
  <2> QED
    BY <1>2, <2>1, <2>2, <2>3, <2>4 DEF LoginInv, FreshUse
<1>3. CASE Tick /\ UNCHANGED loginVars
  <2>1. clock' = clock + 1 /\ ClockFine'
    BY <1>3, Positive DEF LoginInv, ClockFine, Tick
  <2> QED
    BY <1>2, <1>3, <2>1
<1>4. CASE UNCHANGED <<clock, loginVars>>
  <2>1. clock' = clock /\ UNCHANGED loginVars
    BY <1>4
  <2>2. ClockFine'
    BY <2>1 DEF LoginInv, ClockFine
  <2> QED
    BY <1>2, <2>1, <2>2
<1> QED
  BY <1>1, <1>3, <1>4 DEF LoginNext

\* In every state each refused password, code and security key is counted or
\* still to be counted, a challenge that was of use is gone, and a
\* full session has its second factor (auth_methods.py, auth.py,
\* account.py).
THEOREM LoginInvariance == LoginSpec => []LoginInv
BY LoginInitInv, LoginStepInv, PTL DEF LoginSpec

\* The invariant implies the types.
LEMMA LoginTypes == LoginInv => LoginTypeOK
<1> SUFFICES ASSUME LoginInv PROVE LoginTypeOK
  OBVIOUS
<1>1. acct \in AccountRow /\ (acct.totp = TRUE => acct.secret = TRUE)
  BY DEF LoginInv, AccountFine
<1>2. /\ acct.active \in BOOLEAN /\ acct.failed \in 0 .. MaxCounter /\ acct.locked \in 0 .. Horizon + LockoutTime
      /\ acct.secret \in BOOLEAN /\ acct.totp \in BOOLEAN
      /\ acct.key \in {"none", "enabled", "disabled"}
  BY <1>1, AccountFields
<1>3. acct.totp => acct.secret
  BY <1>1, <1>2
<1>4. \A s \in Session : sess[s].user \in {"none", "pending", "full"}
  BY DEF LoginInv, SessionsFine, SessionFine, SessionRow
<1>5. checking \in [Worker -> BOOLEAN]
  BY DEF LoginInv, KeysCounted
<1> QED
  BY <1>1, <1>2, <1>3, <1>4, <1>5 DEF LoginTypeOK

\* The invariant implies that a challenge and a second factor are taken
\* once.
LEMMA ProofsOnce == LoginInv => ProofsTaken
<1> SUFFICES ASSUME LoginInv PROVE ProofsTaken
  OBVIOUS
<1>2. ChallengeOnce
  BY DEF LoginInv, ChallengesFine, ChallengeOnce
<1>3. SecondFactorTaken
  <2>1. \A s \in Session : SessionFine(sess[s])
    BY DEF LoginInv, SessionsFine
  <2>2. \A s \in Session : sess[s].totp \in BOOLEAN
    BY <2>1 DEF SessionFine, SessionRow
  <2> QED
    BY <2>1, <2>2 DEF SessionFine, SecondFactorTaken
<1> QED
  BY <1>2, <1>3 DEF ProofsTaken

\* The invariant implies the bound on refused passwords, codes and keys.
LEMMA GuessesOfPasswords == LoginInv => PasswordGuesses
BY DEF LoginInv, PasswordCounted, CodesCounted, KeysCounted, PasswordGuesses

\* The answer to a WebAuthn challenge opens one session, and a session of
\* login_password is nobody's until its code was taken, for any number of sessions,
\* challenges and workers.
THEOREM ProofsAreTakenOnce == LoginSpec => []ProofsTaken
BY LoginInvariance, ProofsOnce, PTL

\* At most MaxAttempts wrong passwords and codes are answered before the lock, and one
\* more refused key for each further worker that waits to count one.
THEOREM PasswordsLocked == LoginSpec => []PasswordGuesses
BY LoginInvariance, GuessesOfPasswords, PTL

\* verify_session accepts a session only within the timeout of its last use and within
\* the largest lifetime of its login.
THEOREM SessionsEnd == LoginSpec => SessionsFresh
<1>1. LoginInv /\ [LoginNext]_<<clock, loginVars>> => [\A s \in Session : FreshUse(s)]_loginVars
  BY LoginStepInv
<1> QED
  BY <1>1, LoginInvariance, PTL DEF LoginSpec, SessionsFresh, FreshUse

----------------------------------------------------------------------------
(* Single sign-on.  A new number is one more than the largest in use.      *)

\* A set of naturals that is not empty has a least element.
LEMMA NatMin ==
  ASSUME NEW S, S \subseteq Nat, S # {}
  PROVE  \E x \in S : \A y \in S : x <= y
<1> DEFINE R == OpToRel(<, Nat)
<1>1. \E x \in S : \A y \in S : ~(<<y, x>> \in R)
  BY NatLessThanWellFounded, WFMin
<1>2. \A x, y \in Nat : y < x => <<y, x>> \in R
  BY DEF OpToRel
<1> HIDE DEF R
<1>3. PICK x \in S : \A y \in S : ~(<<y, x>> \in R)
  BY <1>1
<1>4. \A y \in S : ~(y < x)
  BY <1>2, <1>3
<1> QED
  BY <1>4

\* A bounded set of naturals that is not empty has a greatest element.
LEMMA NatMax ==
  ASSUME NEW b \in Nat, NEW S, S \subseteq 0 .. b, S # {}
  PROVE  \E x \in S : \A y \in S : y <= x
<1> DEFINE T == {b - x : x \in S}
<1>1. T \subseteq Nat
  <2>1. \A x \in S : b - x \in Nat
    OBVIOUS
  <2> QED
    BY <2>1
<1>2. PICK z \in S : TRUE
  OBVIOUS
<1>3. b - z \in T
  OBVIOUS
<1>4. T # {}
  BY <1>3
<1>5. \E m \in T : \A y \in T : m <= y
  <2> HIDE DEF T
  <2> QED
  BY <1>1, <1>4, NatMin
<1>6. PICK m \in T : \A y \in T : m <= y
  BY <1>5
<1>7. PICK x \in S : m = b - x
  OBVIOUS
<1>8. \A y \in S : y <= x
  <2> SUFFICES ASSUME NEW y \in S PROVE y <= x
    OBVIOUS
  <2>1. b - y \in T
    OBVIOUS
  <2>2. b - x <= b - y
    BY <1>6, <1>7, <2>1
  <2> QED
    BY <2>2
<1> QED
  BY <1>8

SsoRole == {"viewer", "operator", "admin"}
ProviderKind == {"oauth2", "saml", "ldap"}
ProviderRow ==
  [kind : ProviderKind, id : 1 .. MaxProviderId, default : BOOLEAN, enabled : BOOLEAN, create : BOOLEAN,
   update : BOOLEAN, role : SsoRole]
ReadRow == [kind : ProviderKind, id : 1 .. MaxProviderId, create : BOOLEAN, update : BOOLEAN, role : SsoRole]
MemberRow == [there : BOOLEAN, role : SsoRole, failed : Nat, locked : 0 .. Horizon + LockoutTime]

ProvidersFine ==
  /\ kinds \subseteq ProviderKind
  /\ \A p \in providers : p \in ProviderRow /\ p.kind \in kinds
  /\ \A p, q \in providers : p.id = q.id => p = q
  /\ ProvidersDistinct

SsoRowsFine == rowOf \in [Subjects -> [provider : Nat, late : BOOLEAN]] /\ RowsOfProviders

JobsFine == job \in [Worker -> {Idle} \cup ReadRow] /\ \A w \in Worker : job[w].kind \in kinds \cup {"idle"}

Asking == {w \in Worker : job[w].kind = "ldap"}

\* A wrong password was counted on the row; a row without a lock counts fewer than
\* MaxAttempts; and the logins that wait could not all be refused beyond the bound.
MemberFine ==
  /\ member \in MemberRow /\ (member.there = FALSE => member.failed = 0)
  /\ member.locked = 0 => member.failed < MaxAttempts
  /\ guesses \in Nat /\ guesses <= member.failed

AskingFine == guesses + Cardinality(Asking) <= MaxAttempts + Cardinality(Worker) - 1

SsoInv == ClockFine /\ ProvidersFine /\ SsoRowsFine /\ JobsFine /\ MemberFine /\ AskingFine /\ asked \in 0 .. MaxStates

\* The logins that wait for the directory can be counted, and are no more than
\* the workers.
LEMMA AskingCount == IsFiniteSet(Asking) /\ Cardinality(Asking) \in Nat /\ Cardinality(Asking) <= Cardinality(Worker)
<1>1. Asking \in SUBSET Worker
  BY DEF Asking
<1> QED
  BY <1>1, Positive, FS_Subset, FS_CardinalityType

\* The invariant of the single sign-on holds before the first login.
LEMMA SsoInitInv == clock = 1 /\ SsoInit => SsoInv
<1> SUFFICES ASSUME clock = 1, SsoInit PROVE SsoInv
  OBVIOUS
<1>1. ClockFine
  BY AccessAssumption DEF ClockFine
<1>2. ProvidersFine
  BY SsoAssumption DEF SsoInit, ProvidersFine, ProvidersDistinct, ProviderKind
<1>3. SsoRowsFine
  <2>1. NoRow \in [provider : Nat, late : BOOLEAN]
    BY DEF NoRow
  <2> QED
    BY <2>1 DEF SsoInit, SsoRowsFine, RowsOfProviders
<1>4. Idle.kind = "idle"
  BY DEF Idle
<1>5. JobsFine
  BY <1>4 DEF SsoInit, JobsFine
<1>6. MemberFine
  <2>1. PICK e \in BOOLEAN : member = [there |-> e, role |-> "viewer", failed |-> 0, locked |-> 0]
    BY DEF SsoInit
  <2>2. 0 \in 0 .. Horizon + LockoutTime
    BY Positive
  <2> QED
    BY <2>1, <2>2, Positive DEF SsoInit, MemberFine, MemberRow, SsoRole
<1>7. AskingFine
  <2>1. Asking = {}
    BY <1>4 DEF SsoInit, Asking
  <2>2. Cardinality(Asking) = 0
    BY <2>1, FS_EmptySet
  <2> QED
    BY <2>2, Positive DEF SsoInit, AskingFine
<1>8. asked \in 0 .. MaxStates
  BY SsoAssumption DEF SsoInit
<1> QED
  BY <1>1, <1>2, <1>3, <1>5, <1>6, <1>7, <1>8 DEF SsoInv

\* The id of a new provider is above those in use.
LEMMA NewIdFine ==
  ASSUME ProvidersFine
  PROVE  NewId \in Nat /\ NewId >= 1 /\ \A p \in providers : p.id < NewId
<1>1. \A p \in providers : p.id \in 1 .. MaxProviderId
  BY DEF ProvidersFine, ProviderRow
<1>2. CASE providers = {}
  BY <1>2 DEF NewId
<1>3. CASE providers # {}
  <2> DEFINE S == {p.id : p \in providers}
  <2>1. S \subseteq 0 .. MaxProviderId /\ S # {} /\ MaxProviderId \in Nat
    BY <1>1, <1>3, SsoAssumption
  <2>2. \E i \in S : \A j \in S : j <= i
    <3> HIDE DEF S
    <3> QED
    BY <2>1, NatMax
  <2>3. \E i \in S : \A p \in providers : p.id <= i
    BY <2>2
  <2>4. PICK n : n = CHOOSE i \in S : \A p \in providers : p.id <= i
    OBVIOUS
  <2>5. n \in S /\ \A p \in providers : p.id <= n
    BY <2>3, <2>4
  <2>6. NewId = 1 + n
    BY <1>3, <2>4 DEF NewId
  <2>7. n \in 1 .. MaxProviderId
    BY <1>1, <2>5
  <2> QED
    BY <1>1, <2>5, <2>6, <2>7, SsoAssumption
<1> QED
  BY <1>2, <1>3

\* A saved provider has the kind, the id and the default flag it was saved with.
LEMMA SavedFine ==
  ASSUME NEW k \in ProviderKind, NEW i \in 1 .. MaxProviderId, NEW d \in BOOLEAN, NEW x \in Settings
  PROVE  Saved(k, i, d, x) \in ProviderRow /\ Saved(k, i, d, x).kind = k /\ Saved(k, i, d, x).id = i /\ Saved(k, i, d, x).default = d
<1>1. x.enabled \in BOOLEAN /\ x.create \in BOOLEAN /\ x.update \in BOOLEAN /\ x.role \in SsoRole
  BY SsoAssumption DEF SsoRole
<1>2. Saved(k, i, d, x) = [kind |-> k, id |-> i, default |-> d, enabled |-> x.enabled, create |-> x.create,
                           update |-> x.update, role |-> x.role]
  BY DEF Saved
<1> QED
  BY <1>1, <1>2 DEF ProviderRow

\* A provider is saved beside others of other numbers and kinds.
LEMMA SavedBeside ==
  ASSUME ProvidersFine, NEW P \in SUBSET providers, NEW d \in BOOLEAN, NEW n \in ProviderRow, n.kind \in kinds, n.default = d,
         \A p \in P : p.id # n.id /\ p.kind # n.kind, providers' = Others(d, P) \cup {n}, kinds' = kinds
  PROVE  ProvidersFine' /\ (\A p \in P \cup {n} : \E q \in providers' : q.id = p.id)
<1>0. \A p \in P : p \in ProviderRow /\ p.kind \in kinds
  BY DEF ProvidersFine
<1>1. PICK Q : Q = Others(d, P)
  OBVIOUS
<1>2. /\ \A q \in Q : q \in ProviderRow /\ (d = TRUE => q.default = FALSE)
      /\ \A q \in Q : \E p \in P : q.id = p.id /\ q.kind = p.kind /\ (q = p \/ q = [p EXCEPT !.default = FALSE])
      /\ \A p \in P : \E q \in Q : q.id = p.id
      /\ \A q \in Q : d = FALSE => q \in P
  <2>1. CASE d = TRUE
    <3>1. \A p \in P : /\ [p EXCEPT !.default = FALSE] \in ProviderRow /\ [p EXCEPT !.default = FALSE].default = FALSE
                       /\ [p EXCEPT !.default = FALSE].id = p.id /\ [p EXCEPT !.default = FALSE].kind = p.kind
      BY <1>0 DEF ProviderRow
    <3>2. Q = {[p EXCEPT !.default = FALSE] : p \in P}
      BY <1>1, <2>1 DEF Others, Undefaulted
    <3> QED
      BY <2>1, <3>1, <3>2
  <2>2. CASE d = FALSE
    BY <1>0, <1>1, <2>2 DEF Others
  <2> QED
    BY <2>1, <2>2
<1>3. \A q, r \in Q : q.id = r.id => q = r
  <2> SUFFICES ASSUME NEW q \in Q, NEW r \in Q, q.id = r.id PROVE q = r
    OBVIOUS
  <2>1. CASE d = FALSE
    BY <1>2, <2>1 DEF ProvidersFine
  <2>2. CASE d = TRUE
    <3>1. Q = {[p EXCEPT !.default = FALSE] : p \in P}
      BY <1>1, <2>2 DEF Others, Undefaulted
    <3>2. PICK p \in P : q = [p EXCEPT !.default = FALSE]
      BY <3>1
    <3>3. PICK o \in P : r = [o EXCEPT !.default = FALSE]
      BY <3>1
    <3>4. q.id = p.id /\ r.id = o.id
      BY <1>0, <3>2, <3>3 DEF ProviderRow
    <3>5. p = o
      BY <3>4 DEF ProvidersFine
    <3> QED
      BY <3>2, <3>3, <3>5
  <2> QED
    BY <2>1, <2>2
<1>4. \A q, r \in Q : q # r => q.kind # r.kind
  <2>1. \A p, o \in P : p.kind = o.kind => p = o
    BY DEF ProvidersFine, ProvidersDistinct
  <2> QED
    BY <1>2, <1>3, <2>1
<1>5. \A q, r \in Q : q # r => ~(q.default /\ r.default)
  BY <1>2 DEF ProvidersFine, ProvidersDistinct
<1>6. \A q \in Q : q.id # n.id /\ q.kind # n.kind /\ q.kind \in kinds /\ ~(q.default /\ n.default)
  BY <1>0, <1>2
<1>7. providers' = Q \cup {n}
  BY <1>1
<1>8. \A p \in providers' : p \in ProviderRow /\ p.kind \in kinds'
  BY <1>2, <1>6, <1>7
<1>9. \A p, q \in providers' : p.id = q.id => p = q
  BY <1>3, <1>6, <1>7
<1>10. ProvidersDistinct'
  BY <1>4, <1>5, <1>6, <1>7 DEF ProvidersDistinct
<1>11. ProvidersFine'
  BY <1>8, <1>9, <1>10 DEF ProvidersFine
<1> QED
  BY <1>2, <1>7, <1>11

\* Rows of users still have their provider when no id goes away.
LEMMA RowsStay ==
  ASSUME SsoRowsFine, rowOf' = rowOf, \A p \in providers : \E q \in providers' : q.id = p.id
  PROVE  SsoRowsFine'
BY DEF SsoRowsFine, RowsOfProviders

\* A provider added, changed or deleted leaves one provider per kind and no row
\* without its provider.
LEMMA ProviderStep ==
  ASSUME SsoInv,
         \/ \E k \in kinds, d, secret \in BOOLEAN, x \in Settings : create_provider(k, d, x, secret)
         \/ \E p \in providers :
              \/ \E d, secret \in BOOLEAN, x \in Settings : update_provider(p, d, x, secret)
              \/ toggle_provider(p) \/ delete_provider(p)
  PROVE  ProvidersFine' /\ SsoRowsFine'
<1>1. ProvidersFine /\ SsoRowsFine
  BY DEF SsoInv
<1>2. \A p \in providers : p \in ProviderRow /\ p.kind \in kinds /\ p.kind \in ProviderKind /\ p.id \in 1 .. MaxProviderId
  BY <1>1 DEF ProvidersFine, ProviderRow
<1>3. ASSUME NEW k \in kinds, NEW d \in BOOLEAN, NEW secret \in BOOLEAN, NEW x \in Settings, create_provider(k, d, x, secret)
      PROVE  ProvidersFine' /\ SsoRowsFine'
  <2>1. /\ (\A p \in providers : p.kind # k) /\ NewId <= MaxProviderId /\ kinds' = kinds /\ rowOf' = rowOf
        /\ providers' = Others(d, providers) \cup {Saved(k, NewId, d, x)}
    BY <1>3 DEF create_provider
  <2>2. NewId \in 1 .. MaxProviderId /\ \A p \in providers : p.id < NewId
    BY <1>1, <2>1, NewIdFine, SsoAssumption
  <2>3. PICK n : n = Saved(k, NewId, d, x)
    OBVIOUS
  <2>4. n \in ProviderRow /\ n.kind = k /\ n.id = NewId /\ n.default = d
    BY <1>1, <2>2, <2>3, SavedFine DEF ProvidersFine
  <2>5. \A p \in providers : p.id # n.id /\ p.kind # n.kind
    BY <1>2, <2>1, <2>2, <2>4
  <2>6. ProvidersFine' /\ (\A p \in providers \cup {n} : \E q \in providers' : q.id = p.id)
    BY <1>1, <2>1, <2>3, <2>4, <2>5, SavedBeside
  <2> QED
    BY <1>1, <2>1, <2>6, RowsStay
<1>4. ASSUME NEW p \in providers, NEW d \in BOOLEAN, NEW secret \in BOOLEAN, NEW x \in Settings, update_provider(p, d, x, secret)
      PROVE  ProvidersFine' /\ SsoRowsFine'
  <2>1. /\ kinds' = kinds /\ rowOf' = rowOf
        /\ providers' = Others(d, providers \ {p}) \cup {Saved(p.kind, p.id, d, x)}
    BY <1>4 DEF update_provider
  <2>2. PICK n : n = Saved(p.kind, p.id, d, x)
    OBVIOUS
  <2>3. n \in ProviderRow /\ n.kind = p.kind /\ n.id = p.id /\ n.default = d
    BY <1>2, <2>2, SavedFine
  <2>4. \A q \in providers \ {p} : q.id # n.id /\ q.kind # n.kind
    BY <1>1, <2>3 DEF ProvidersFine, ProvidersDistinct
  <2>5. n.kind \in kinds
    BY <1>2, <2>3
  <2>6. PICK P : P = providers \ {p}
    OBVIOUS
  <2>7. ProvidersFine' /\ (\A r \in P \cup {n} : \E q \in providers' : q.id = r.id)
    <3>1. P \in SUBSET providers /\ providers' = Others(d, P) \cup {n} /\ \A q \in P : q.id # n.id /\ q.kind # n.kind
      BY <2>1, <2>2, <2>4, <2>6
    <3>2. n \in ProviderRow /\ n.default = d /\ kinds' = kinds /\ ProvidersFine
      BY <1>1, <2>1, <2>3
    <3> QED
      BY <2>5, <3>1, <3>2, SavedBeside, Zenon
  <2>8. \A r \in providers : \E q \in providers' : q.id = r.id
    BY <2>3, <2>6, <2>7
  <2> QED
    BY <1>1, <2>1, <2>7, <2>8, RowsStay
<1>5. ASSUME NEW p \in providers, toggle_provider(p) PROVE ProvidersFine' /\ SsoRowsFine'
  <2>1. PICK n : n = [p EXCEPT !.enabled = ~p.enabled]
    OBVIOUS
  <2>2. kinds' = kinds /\ rowOf' = rowOf /\ providers' = (providers \ {p}) \cup {n}
    BY <1>5, <2>1 DEF toggle_provider
  <2>3. p.enabled \in BOOLEAN /\ p \in ProviderRow
    BY <1>2 DEF ProviderRow
  <2>4. n \in ProviderRow /\ n.kind = p.kind /\ n.id = p.id /\ n.default = p.default
    BY <2>1, <2>3 DEF ProviderRow
  <2>5. \A r \in providers' : r \in ProviderRow /\ r.kind \in kinds'
    BY <1>2, <2>2, <2>4
  <2>6. \A q, r \in providers' : q.id = r.id => q = r
    BY <1>1, <2>2, <2>4 DEF ProvidersFine
  <2>7. ProvidersDistinct'
    BY <1>1, <2>2, <2>4 DEF ProvidersFine, ProvidersDistinct
  <2>8. ProvidersFine'
    BY <1>1, <2>2, <2>5, <2>6, <2>7 DEF ProvidersFine
  <2>9. \A r \in providers : \E q \in providers' : q.id = r.id
    BY <2>2, <2>4
  <2> QED
    BY <1>1, <2>2, <2>8, <2>9, RowsStay
<1>6. ASSUME NEW p \in providers, delete_provider(p) PROVE ProvidersFine' /\ SsoRowsFine'
  <2>1. /\ kinds' = kinds /\ providers' = providers \ {p}
        /\ rowOf' = [s \in Subjects |-> IF rowOf[s].provider = p.id THEN NoRow ELSE rowOf[s]]
    BY <1>6 DEF delete_provider, RowsDeleted
  <2>2. ProvidersFine'
    BY <1>1, <2>1 DEF ProvidersFine, ProvidersDistinct
  <2>3. NoRow \in [provider : Nat, late : BOOLEAN]
    BY DEF NoRow
  <2>4. rowOf' \in [Subjects -> [provider : Nat, late : BOOLEAN]]
    BY <1>1, <2>1, <2>3 DEF SsoRowsFine
  <2>5. \A s \in Subjects : rowOf'[s] = NoRow \/ (rowOf'[s] = rowOf[s] /\ rowOf[s].provider # p.id)
    BY <2>1
  <2>6. RowsOfProviders'
    BY <1>1, <2>1, <2>5 DEF SsoRowsFine, RowsOfProviders
  <2> QED
    BY <2>2, <2>4, <2>6 DEF SsoRowsFine
<1> QED
  BY <1>3, <1>4, <1>5, <1>6

\* What a login reads of a provider is of that provider's kind.
LEMMA ReadFine ==
  ASSUME NEW p \in ProviderRow
  PROVE  Read(p) \in ReadRow /\ Read(p).kind = p.kind
<1>1. Read(p) = [kind |-> p.kind, id |-> p.id, create |-> p.create, update |-> p.update, role |-> p.role]
  BY DEF Read
<1> QED
  BY <1>1 DEF ProviderRow, ReadRow

\* A row is written for a provider that is there, or marked late.
LEMMA SsoRowWritten ==
  ASSUME SsoInv, NEW p \in ReadRow, RowWritten(p), providers' = providers
  PROVE  SsoRowsFine'
<1>1. SsoRowsFine
  BY DEF SsoInv
<1>2. CASE rowOf' = rowOf
  BY <1>1, <1>2, RowsStay
<1>3. CASE rowOf' # rowOf
  <2>1. PICK s : s = SubjectOf(p.kind)
    OBVIOUS
  <2>2. PICK b \in BOOLEAN : b = Gone(p)
    BY DEF Gone
  <2>3. PICK n : n = [provider |-> p.id, late |-> b]
    OBVIOUS
  <2>4. rowOf' = [rowOf EXCEPT ![s] = n]
    BY <1>3, <2>1, <2>2, <2>3 DEF RowWritten
  <2>5. s \in Subjects
    BY <2>1 DEF SubjectOf, Subjects
  <2>6. n \in [provider : Nat, late : BOOLEAN] /\ n.provider = p.id /\ n.late = b
    <3>1. p.id \in Nat
      BY SsoAssumption DEF ReadRow
    <3> QED
      BY <2>3, <3>1
  <2>7. rowOf' \in [Subjects -> [provider : Nat, late : BOOLEAN]]
    BY <1>1, <2>4, <2>5, <2>6 DEF SsoRowsFine
  <2>8. b = FALSE => \E q \in providers : q.id = n.provider
    BY <2>2, <2>6 DEF Gone
  <2>9. RowsOfProviders'
    BY <1>1, <2>4, <2>5, <2>6, <2>8 DEF SsoRowsFine, RowsOfProviders
  <2> QED
    BY <2>7, <2>9 DEF SsoRowsFine
<1> QED
  BY <1>2, <1>3

\* The fields of a directory user's row have their types.
LEMMA MemberFields ==
  ASSUME NEW m \in MemberRow
  PROVE  m.there \in BOOLEAN /\ m.role \in SsoRole /\ m.failed \in Nat /\ m.locked \in 0 .. Horizon + LockoutTime /\ m.locked \in Nat
<1>1. m.there \in BOOLEAN /\ m.role \in SsoRole /\ m.failed \in Nat /\ m.locked \in 0 .. Horizon + LockoutTime
  BY DEF MemberRow
<1> QED
  BY <1>1, Positive

\* The account of a login is the one there was, with its count, or a new one.
LEMMA SsoUserFine ==
  ASSUME NEW m \in MemberRow, NEW p \in ReadRow
  PROVE  LET n == _get_or_create_sso_user(p, m)
         IN  /\ n \in MemberRow
             /\ m.there = TRUE => n.there = TRUE /\ n.failed = m.failed /\ n.locked = m.locked
             /\ m.there = FALSE => n.there = TRUE /\ n.failed = 0 /\ n.locked = 0
<1>1. p.update \in BOOLEAN /\ p.role \in SsoRole
  BY DEF ReadRow
<1>2. PICK n : n = _get_or_create_sso_user(p, m)
  OBVIOUS
<1>3. m.there \in BOOLEAN
  BY MemberFields
<1>4. CASE m.there = TRUE /\ p.update = TRUE
  <2>1. n = [m EXCEPT !.role = p.role]
    BY <1>2, <1>4 DEF _get_or_create_sso_user, _resolve_role
  <2> QED
    BY <1>1, <1>2, <1>4, <2>1 DEF MemberRow
<1>5. CASE m.there = TRUE /\ p.update = FALSE
  BY <1>2, <1>5 DEF _get_or_create_sso_user
<1>6. CASE m.there = FALSE
  <2>1. n = [there |-> TRUE, role |-> p.role, failed |-> 0, locked |-> 0]
    BY <1>2, <1>6 DEF _get_or_create_sso_user, _resolve_role
  <2>2. 0 \in 0 .. Horizon + LockoutTime
    BY Positive
  <2> QED
    BY <1>1, <1>2, <1>6, <2>1, <2>2 DEF MemberRow
<1> QED
  BY <1>1, <1>3, <1>4, <1>5, <1>6

\* A login of OAuth2 or SAML keeps the count of the account.
LEMMA SignedOnInv ==
  ASSUME SsoInv, NEW p \in ReadRow, SignedOn(p)
  PROVE  ProvidersFine' /\ SsoRowsFine' /\ MemberFine' /\ kinds' = kinds /\ asked' = asked /\ guesses' = guesses
<1>1. /\ kinds' = kinds /\ asked' = asked /\ guesses' = guesses /\ providers' = providers
      /\ RowWritten(p) /\ member' = _get_or_create_sso_user(p, member)
  BY DEF SignedOn
<1>2. SsoRowsFine'
  BY <1>1, SsoRowWritten
<1>3. ProvidersFine'
  BY <1>1 DEF SsoInv, ProvidersFine, ProvidersDistinct
<1>4. MemberFine /\ member \in MemberRow /\ member.there \in BOOLEAN /\ member.failed \in Nat
  BY MemberFields DEF SsoInv, MemberFine
<1>5. PICK n : n = _get_or_create_sso_user(p, member)
  OBVIOUS
<1>6. /\ n \in MemberRow /\ n.there = TRUE
      /\ member.there = TRUE => n.failed = member.failed /\ n.locked = member.locked
      /\ member.there = FALSE => n.failed = 0 /\ n.locked = 0
  BY <1>4, <1>5, SsoUserFine
<1>7. n.failed = member.failed
  BY <1>4, <1>6 DEF MemberFine
<1>8. n.locked = 0 => n.failed < MaxAttempts
  BY <1>4, <1>6, Positive DEF MemberFine
<1>9. MemberFine'
  BY <1>1, <1>4, <1>5, <1>6, <1>7, <1>8 DEF MemberFine
<1> QED
  BY <1>1, <1>2, <1>3, <1>9

\* A worker takes a login, or gives it up.
LEMMA JobSet ==
  ASSUME JobsFine, NEW w \in Worker, NEW x \in {Idle} \cup ReadRow, x.kind \in kinds \cup {"idle"}, kinds' = kinds,
         job' = [job EXCEPT ![w] = x]
  PROVE  JobsFine' /\ job'[w] = x /\ Asking' = IF x.kind = "ldap" THEN Asking \cup {w} ELSE Asking \ {w}
<1>1. job' \in [Worker -> {Idle} \cup ReadRow] /\ job'[w] = x /\ \A o \in Worker \ {w} : job'[o] = job[o]
  BY DEF JobsFine
<1>2. JobsFine'
  BY <1>1 DEF JobsFine
<1>3. Asking' = IF x.kind = "ldap" THEN Asking \cup {w} ELSE Asking \ {w}
  BY <1>1 DEF Asking
<1> QED
  BY <1>1, <1>2, <1>3

\* A worker without a login is idle.
LEMMA IdleKind == Idle.kind = "idle" /\ Idle \in {Idle} \cup ReadRow
BY DEF Idle

\* A worker that waits for an answer holds what it read of a provider.
LEMMA WaitingJob ==
  ASSUME JobsFine, NEW w \in Worker, job[w].kind \in {"oauth2", "ldap"}
  PROVE  job[w] \in ReadRow
BY IdleKind DEF JobsFine

\* A login that starts or ends to wait changes their number by one at most.
LEMMA AskingMore ==
  ASSUME NEW w \in Worker
  PROVE  /\ Cardinality(Asking \cup {w}) \in Nat /\ Cardinality(Asking \cup {w}) <= Cardinality(Worker)
         /\ Cardinality(Asking \ {w}) \in Nat /\ Cardinality(Asking \ {w}) <= Cardinality(Asking)
         /\ w \in Asking => Cardinality(Asking \ {w}) = Cardinality(Asking) - 1
<1>1. Asking \cup {w} \in SUBSET Worker /\ Asking \ {w} \in SUBSET Asking
  BY DEF Asking
<1>2. Cardinality(Asking \cup {w}) \in Nat /\ Cardinality(Asking \cup {w}) <= Cardinality(Worker)
  BY <1>1, Positive, FS_Subset, FS_CardinalityType
<1>3. Cardinality(Asking \ {w}) \in Nat /\ Cardinality(Asking \ {w}) <= Cardinality(Asking)
  BY <1>1, AskingCount, FS_Subset, FS_CardinalityType
<1>4. w \in Asking => Cardinality(Asking \ {w}) = Cardinality(Asking) - 1
  BY AskingCount, FS_RemoveElement
<1> QED
  BY <1>2, <1>3, <1>4

\* A login that ends leaves as many or fewer that wait.
LEMMA AnswerEnds ==
  ASSUME SsoInv, NEW w \in Worker, job' = [job EXCEPT ![w] = Idle], kinds' = kinds, guesses' \in {0, guesses}
  PROVE  JobsFine' /\ AskingFine'
<1>1. JobsFine' /\ Asking' = Asking \ {w}
  BY IdleKind, JobSet DEF SsoInv
<1>2. Cardinality(Asking') \in Nat /\ Cardinality(Asking') <= Cardinality(Asking) /\ Cardinality(Asking) \in Nat
  BY <1>1, AskingMore, AskingCount
<1>3. guesses \in Nat /\ guesses + Cardinality(Asking) <= MaxAttempts + Cardinality(Worker) - 1
  BY DEF SsoInv, MemberFine, AskingFine
<1>4. guesses' + Cardinality(Asking') <= MaxAttempts + Cardinality(Worker) - 1
  BY <1>2, <1>3, Positive
<1> QED
  BY <1>1, <1>4 DEF AskingFine

\* The steps of SAML and OAuth2 logins keep the invariant.
LEMMA ForeignStep ==
  ASSUME SsoInv, clock' = clock,
         \/ \E p \in providers : sso_callback_saml(p) \/ \E w \in Worker : sso_callback_oauth2(w, p)
         \/ initiate_sso_login \/ \E w \in Worker : oauth2_answer(w)
  PROVE  SsoInv'
<1>1. /\ ClockFine /\ ProvidersFine /\ SsoRowsFine /\ JobsFine /\ MemberFine /\ AskingFine /\ asked \in 0 .. MaxStates
      /\ ClockFine'
  BY DEF SsoInv, ClockFine
<1>2. \A p \in providers : p \in ProviderRow /\ p.kind \in kinds
  BY <1>1 DEF ProvidersFine
<1>3. CASE initiate_sso_login
  <2>1. /\ asked < MaxStates /\ asked' = asked + 1 /\ kinds' = kinds /\ providers' = providers /\ member' = member
        /\ rowOf' = rowOf /\ job' = job /\ guesses' = guesses
    BY <1>3 DEF initiate_sso_login
  <2>2. asked' \in 0 .. MaxStates
    BY <1>1, <2>1, SsoAssumption
  <2>3. ProvidersFine' /\ SsoRowsFine' /\ JobsFine' /\ MemberFine' /\ AskingFine'
    BY <1>1, <2>1 DEF ProvidersFine, ProvidersDistinct, SsoRowsFine, RowsOfProviders, JobsFine, MemberFine, AskingFine, Asking
  <2> QED
    BY <1>1, <2>2, <2>3 DEF SsoInv
<1>4. ASSUME NEW p \in providers, sso_callback_saml(p) PROVE SsoInv'
  <2>1. SignedOn(Read(p)) /\ job' = job
    BY <1>4 DEF sso_callback_saml
  <2>2. PICK r : r = Read(p)
    OBVIOUS
  <2>3. r \in ReadRow /\ SignedOn(r)
    BY <1>2, <2>1, <2>2, ReadFine
  <2>4. ProvidersFine' /\ SsoRowsFine' /\ MemberFine' /\ kinds' = kinds /\ asked' = asked /\ guesses' = guesses
    BY <2>3, SignedOnInv
  <2>5. JobsFine' /\ AskingFine'
    BY <1>1, <2>1, <2>4 DEF JobsFine, AskingFine, Asking
  <2> QED
    BY <1>1, <2>4, <2>5 DEF SsoInv
<1>5. ASSUME NEW p \in providers, NEW w \in Worker, sso_callback_oauth2(w, p) PROVE SsoInv'
  <2>1. PICK r : r = Read(p)
    OBVIOUS
  <2>2. /\ job[w] = Idle /\ p.kind = "oauth2" /\ job' = [job EXCEPT ![w] = r]
        /\ asked' = asked /\ kinds' = kinds /\ providers' = providers /\ member' = member
        /\ rowOf' = rowOf /\ guesses' = guesses
    BY <1>5, <2>1 DEF sso_callback_oauth2
  <2>3. r \in ReadRow /\ r.kind = "oauth2" /\ r.kind \in kinds
    BY <1>2, <2>1, <2>2, ReadFine
  <2>4. JobsFine' /\ Asking' = Asking \ {w}
    BY <1>1, <2>2, <2>3, JobSet
  <2>5. Asking' = Asking
    BY <2>2, <2>4, IdleKind DEF Asking
  <2>6. ProvidersFine' /\ SsoRowsFine' /\ MemberFine' /\ AskingFine'
    BY <1>1, <2>2, <2>5 DEF ProvidersFine, ProvidersDistinct, SsoRowsFine, RowsOfProviders, MemberFine, AskingFine
  <2> QED
    BY <1>1, <2>2, <2>4, <2>6 DEF SsoInv
<1>6. ASSUME NEW w \in Worker, oauth2_answer(w) PROVE SsoInv'
  <2>1. /\ job[w].kind = "oauth2" /\ job' = [job EXCEPT ![w] = Idle]
        /\ SignedOn(job[w]) \/ UNCHANGED <<kinds, providers, sealed, member, rowOf, asked, guesses>>
    BY <1>6 DEF oauth2_answer
  <2>2. PICK r \in ReadRow : r = job[w]
    BY <1>1, <2>1, WaitingJob
  <2>3. ProvidersFine' /\ SsoRowsFine' /\ MemberFine' /\ kinds' = kinds /\ asked' = asked /\ guesses' = guesses
    <3>1. CASE SignedOn(r)
      BY <3>1, SignedOnInv
    <3>2. CASE UNCHANGED <<kinds, providers, sealed, member, rowOf, asked, guesses>>
      BY <1>1, <3>2 DEF ProvidersFine, ProvidersDistinct, SsoRowsFine, RowsOfProviders, MemberFine
    <3> QED
      BY <2>1, <2>2, <3>1, <3>2
  <2>4. JobsFine' /\ AskingFine'
    BY <2>1, <2>3, AnswerEnds
  <2> QED
    BY <1>1, <2>3, <2>4 DEF SsoInv
<1> QED
  BY <1>3, <1>4, <1>5, <1>6

\* The steps of LDAP logins, which wait for the directory, keep the invariant.
LEMMA DirectoryStep ==
  ASSUME SsoInv, clock' = clock,
         \/ \E p \in providers, w \in Worker : ldap_login(w, p)
         \/ \E w \in Worker : ldap_refused(w) \/ ldap_accepted(w)
  PROVE  SsoInv'
<1>1. /\ ClockFine /\ ProvidersFine /\ SsoRowsFine /\ JobsFine /\ MemberFine /\ AskingFine /\ asked \in 0 .. MaxStates
      /\ ClockFine'
  BY DEF SsoInv, ClockFine
<1>2. clock \in Nat /\ clock # 0 /\ clock <= Horizon
  BY <1>1, Positive DEF ClockFine
<1>3. /\ member \in MemberRow /\ member.there \in BOOLEAN /\ member.failed \in Nat /\ member.locked \in Nat
      /\ member.locked \in 0 .. Horizon + LockoutTime /\ guesses \in Nat /\ guesses <= member.failed
      /\ (member.there = FALSE => member.failed = 0) /\ (member.locked = 0 => member.failed < MaxAttempts)
  BY <1>1, MemberFields DEF MemberFine
<1>4. Cardinality(Asking) \in Nat /\ guesses + Cardinality(Asking) <= MaxAttempts + Cardinality(Worker) - 1
  BY <1>1, AskingCount DEF AskingFine
<1>5. ASSUME NEW p \in providers, NEW w \in Worker, ldap_login(w, p) PROVE SsoInv'
  <2>1. PICK r : r = Read(p)
    OBVIOUS
  <2>2. PICK n : n = _check_ldap_lockout(member)
    OBVIOUS
  <2>3. /\ p.kind = "ldap" /\ ~LdapLocked /\ member' = n /\ guesses' = (IF n # member THEN 0 ELSE guesses)
        /\ job' = [job EXCEPT ![w] = r] /\ kinds' = kinds /\ providers' = providers /\ rowOf' = rowOf /\ asked' = asked
    BY <1>5, <2>1, <2>2 DEF ldap_login
  <2>4. r \in ReadRow /\ r.kind = "ldap" /\ r.kind \in kinds
    BY <1>1, <2>1, <2>3, ReadFine DEF ProvidersFine
  <2>5. JobsFine' /\ Asking' = Asking \cup {w}
    BY <1>1, <2>3, <2>4, JobSet
  <2>6. n \in MemberRow /\ n.locked = 0 /\ guesses' \in Nat /\ guesses' <= n.failed /\ n.failed < MaxAttempts
        /\ (n.there = FALSE => n.failed = 0)
    <3>1. CASE member.locked # 0 /\ clock >= member.locked
      <4>1. n = [member EXCEPT !.locked = 0, !.failed = 0]
        BY <2>2, <3>1 DEF _check_ldap_lockout
      <4>2. 0 \in 0 .. Horizon + LockoutTime
        BY Positive
      <4>3. n \in MemberRow /\ n.locked = 0 /\ n.failed = 0
        BY <1>3, <4>1, <4>2 DEF MemberRow
      <4>4. n # member
        BY <3>1, <4>3
      <4> QED
        BY <2>3, <4>3, <4>4, Positive
    <3>2. CASE ~(member.locked # 0 /\ clock >= member.locked)
      <4>1. n = member
        BY <2>2, <3>2 DEF _check_ldap_lockout
      <4>2. member.locked = 0
        BY <1>2, <1>3, <2>3, <3>2 DEF LdapLocked
      <4> QED
        BY <1>3, <2>3, <4>1, <4>2
    <3> QED
      BY <3>1, <3>2
  <2>7. MemberFine'
    BY <2>3, <2>6 DEF MemberFine
  <2>8. n.failed \in Nat
    BY <2>6, MemberFields
  <2>9. guesses' + Cardinality(Asking') <= MaxAttempts + Cardinality(Worker) - 1
    <3>1. PICK k : k = Cardinality(Asking \cup {w})
      OBVIOUS
    <3>2. k \in Nat /\ k <= Cardinality(Worker)
      BY <3>1, AskingMore
    <3>3. Cardinality(Asking') = k
      BY <2>5, <3>1
    <3>4. guesses' + k <= MaxAttempts + Cardinality(Worker) - 1
      BY <2>6, <2>8, <3>2, Positive
    <3> QED
      BY <3>3, <3>4
  <2>10. ProvidersFine' /\ SsoRowsFine'
    BY <1>1, <2>3 DEF ProvidersFine, ProvidersDistinct, SsoRowsFine, RowsOfProviders
  <2> QED
    BY <1>1, <2>3, <2>5, <2>7, <2>9, <2>10 DEF SsoInv, AskingFine
<1>6. ASSUME NEW w \in Worker, ldap_refused(w) PROVE SsoInv'
  <2>1. /\ job[w].kind = "ldap" /\ job' = [job EXCEPT ![w] = Idle] /\ member' = _record_ldap_failed_attempt(member)
        /\ guesses' = (IF member.there THEN guesses + 1 ELSE guesses)
        /\ kinds' = kinds /\ providers' = providers /\ rowOf' = rowOf /\ asked' = asked
    BY <1>6 DEF ldap_refused
  <2>2. JobsFine' /\ Asking' = Asking \ {w}
    BY <1>1, <2>1, IdleKind, JobSet
  <2>3. Cardinality(Asking') = Cardinality(Asking) - 1
    <3>1. w \in Asking
      BY <2>1 DEF Asking
    <3> QED
      BY <2>2, <3>1, AskingMore
  <2>4. guesses' \in Nat /\ guesses' <= guesses + 1
    BY <1>3, <2>1
  <2>5. guesses' + Cardinality(Asking') <= MaxAttempts + Cardinality(Worker) - 1
    BY <1>3, <1>4, <2>3, <2>4, Positive
  <2>6. MemberFine'
    <3>1. CASE member.there = FALSE
      <4>1. member' = member /\ guesses' = guesses
        BY <2>1, <3>1 DEF _record_ldap_failed_attempt
      <4> QED
        BY <1>1, <4>1 DEF MemberFine
    <3>2. CASE member.there = TRUE
      <4>1. PICK f \in Nat : f = member.failed + 1
        BY <1>3
      <4>2. PICK l \in 0 .. Horizon + LockoutTime :
              l = IF member.failed + 1 >= MaxAttempts THEN clock + LockoutTime ELSE member.locked
        BY <1>2, <1>3, Positive
      <4>3. member' = [member EXCEPT !.failed = f, !.locked = l] /\ guesses' = guesses + 1
        BY <2>1, <3>2, <4>1, <4>2 DEF _record_ldap_failed_attempt
      <4>4. member' \in MemberRow /\ member'.failed = f /\ member'.locked = l /\ member'.there = TRUE
        BY <1>3, <3>2, <4>3 DEF MemberRow
      <4>5. l = 0 => f < MaxAttempts
        BY <1>2, <1>3, <4>1, <4>2, Positive
      <4>6. guesses + 1 <= f
        BY <1>3, <4>1
      <4> QED
        BY <1>3, <4>3, <4>4, <4>5, <4>6 DEF MemberFine
    <3> QED
      BY <1>3, <3>1, <3>2
  <2>7. ProvidersFine' /\ SsoRowsFine'
    BY <1>1, <2>1 DEF ProvidersFine, ProvidersDistinct, SsoRowsFine, RowsOfProviders
  <2> QED
    BY <1>1, <2>1, <2>2, <2>5, <2>6, <2>7 DEF SsoInv, AskingFine
<1>7. ASSUME NEW w \in Worker, ldap_accepted(w) PROVE SsoInv'
  <2>1. PICK p : p = job[w]
    OBVIOUS
  <2>2. /\ p.kind = "ldap" /\ job' = [job EXCEPT ![w] = Idle]
        /\ \/ member' = member /\ rowOf' = rowOf /\ guesses' = guesses
           \/ /\ member' = _clear_ldap_failed_attempts(_get_or_create_sso_user(p, member))
              /\ guesses' = 0 /\ RowWritten(p)
        /\ kinds' = kinds /\ providers' = providers /\ asked' = asked
    BY <1>7, <2>1 DEF ldap_accepted
  <2>3. p \in ReadRow
    BY <1>1, <2>1, <2>2, WaitingJob
  <2>4. JobsFine' /\ AskingFine'
    BY <2>2, AnswerEnds
  <2>5. ProvidersFine'
    BY <1>1, <2>2 DEF ProvidersFine, ProvidersDistinct
  <2>6. CASE member' = member /\ rowOf' = rowOf /\ guesses' = guesses
    <3>1. SsoRowsFine' /\ MemberFine'
      BY <1>1, <2>2, <2>6 DEF SsoRowsFine, RowsOfProviders, MemberFine
    <3> QED
      BY <1>1, <2>2, <2>4, <2>5, <3>1 DEF SsoInv
  <2>7. CASE member' = _clear_ldap_failed_attempts(_get_or_create_sso_user(p, member)) /\ guesses' = 0 /\ RowWritten(p)
    <3>1. SsoRowsFine'
      BY <2>2, <2>3, <2>7, SsoRowWritten
    <3>2. PICK n : n = _get_or_create_sso_user(p, member)
      OBVIOUS
    <3>3. n \in MemberRow
      BY <1>3, <2>3, <3>2, SsoUserFine
    <3>4. member' = [n EXCEPT !.failed = 0, !.locked = 0]
      BY <2>7, <3>2 DEF _clear_ldap_failed_attempts
    <3>5. 0 \in 0 .. Horizon + LockoutTime
      BY Positive
    <3>6. member' \in MemberRow /\ member'.failed = 0 /\ member'.locked = 0
      BY <3>3, <3>4, <3>5 DEF MemberRow
    <3>7. MemberFine'
      BY <2>7, <3>6, Positive DEF MemberFine
    <3> QED
      BY <1>1, <2>2, <2>4, <2>5, <3>1, <3>7 DEF SsoInv
  <2> QED
    BY <2>2, <2>6, <2>7
<1> QED
  BY <1>5, <1>6, <1>7

\* Every step of the single sign-on keeps the invariant.
LEMMA SsoStepInv ==
  ASSUME SsoInv, [SsoNext]_<<clock, ssoVars>>
  PROVE  SsoInv'
<1>1. CASE SsoStep /\ UNCHANGED clock
  <2>1. CASE \/ \E k \in kinds, d, secret \in BOOLEAN, x \in Settings : create_provider(k, d, x, secret)
             \/ \E p \in providers :
                  \/ \E d, secret \in BOOLEAN, x \in Settings : update_provider(p, d, x, secret)
                  \/ toggle_provider(p) \/ delete_provider(p)
    <3>1. ProvidersFine' /\ SsoRowsFine'
      BY <2>1, ProviderStep
    <3>2. kinds' = kinds /\ member' = member /\ asked' = asked /\ job' = job /\ guesses' = guesses
      BY <2>1 DEF create_provider, update_provider, toggle_provider, delete_provider
    <3>3. ClockFine' /\ JobsFine' /\ MemberFine' /\ AskingFine'
      BY <1>1, <3>2 DEF SsoInv, ClockFine, JobsFine, MemberFine, AskingFine, Asking
    <3> QED
      BY <3>1, <3>2, <3>3 DEF SsoInv
  <2>2. CASE \/ \E p \in providers : sso_callback_saml(p) \/ \E w \in Worker : sso_callback_oauth2(w, p)
             \/ initiate_sso_login \/ \E w \in Worker : oauth2_answer(w)
    BY <1>1, <2>2, ForeignStep
  <2>3. CASE \/ \E p \in providers, w \in Worker : ldap_login(w, p)
             \/ \E w \in Worker : ldap_refused(w) \/ ldap_accepted(w)
    BY <1>1, <2>3, DirectoryStep
  <2> QED
    BY <1>1, <2>1, <2>2, <2>3 DEF SsoStep
<1>2. CASE ClockFine' /\ UNCHANGED ssoVars
  <2>1. /\ kinds' = kinds /\ providers' = providers /\ member' = member /\ rowOf' = rowOf /\ asked' = asked
        /\ job' = job /\ guesses' = guesses
    BY <1>2 DEF ssoVars
  <2>2. ProvidersFine' /\ SsoRowsFine' /\ JobsFine' /\ MemberFine' /\ AskingFine'
    BY <2>1 DEF SsoInv, ProvidersFine, ProvidersDistinct, SsoRowsFine, RowsOfProviders, JobsFine, MemberFine, AskingFine, Asking
  <2> QED
    BY <1>2, <2>1, <2>2 DEF SsoInv
<1>3. CASE Tick /\ UNCHANGED ssoVars
  <2>1. ClockFine'
    BY <1>3, Positive DEF SsoInv, ClockFine, Tick
  <2> QED
    BY <1>2, <1>3, <2>1
<1>4. CASE UNCHANGED <<clock, ssoVars>>
  <2>1. ClockFine' /\ UNCHANGED ssoVars
    BY <1>4 DEF SsoInv, ClockFine
  <2> QED
    BY <1>2, <2>1
<1> QED
  BY <1>1, <1>3, <1>4 DEF SsoNext

\* In every state providers and the rows of their users agree, and the passwords
\* the directory refused, with those it was still asked about, stay within the
\* limit and the number of workers (sso.py).
THEOREM SsoInvariance == SsoSpec => []SsoInv
BY SsoInitInv, SsoStepInv, PTL DEF SsoSpec

\* The invariant implies the types, one provider per kind, and rows that have
\* their provider.
LEMMA SsoTypes == SsoInv => SsoTypeOK /\ ProvidersDistinct /\ RowsOfProviders
<1> SUFFICES ASSUME SsoInv PROVE SsoTypeOK /\ ProvidersDistinct /\ RowsOfProviders
  OBVIOUS
<1>1. ProvidersDistinct /\ RowsOfProviders
  BY DEF SsoInv, ProvidersFine, SsoRowsFine
<1>2. /\ \A p \in providers : p.id \in 1 .. MaxProviderId /\ p.kind \in kinds
      /\ \A p, q \in providers : p.id = q.id => p = q
  BY DEF SsoInv, ProvidersFine, ProviderRow
<1>3. member.there \in BOOLEAN /\ member.role \in {"viewer", "operator", "admin"} /\ member.locked \in 0 .. Horizon + LockoutTime
  BY MemberFields DEF SsoInv, MemberFine, SsoRole
<1>4. \A w \in Worker : job[w].kind \in kinds \cup {"idle"}
  BY DEF SsoInv, JobsFine
<1> QED
  BY <1>1, <1>2, <1>3, <1>4 DEF SsoInv, SsoTypeOK

\* The invariant implies the bound on passwords the directory refused.
LEMMA GuessesOfDirectory == SsoInv => DirectoryGuesses
<1> SUFFICES ASSUME SsoInv PROVE DirectoryGuesses
  OBVIOUS
<1>1. guesses \in Nat /\ Cardinality(Asking) \in Nat /\ guesses + Cardinality(Asking) <= MaxAttempts + Cardinality(Worker) - 1
  BY AskingCount DEF SsoInv, MemberFine, AskingFine
<1> QED
  BY <1>1, Positive DEF DirectoryGuesses

----------------------------------------------------------------------------
(* The rate limiter.  The bucket and the requests that were let through    *)
(* tell the same story: the younger of the bucket's requests are the ones  *)
(* that passed, and what the bucket lacks was spent on them.               *)

Stamp == (0 .. Window) \X Nat
BucketRow == [tokens : Int, idle : Nat, requests : SUBSET Stamp, there : BOOLEAN, sound : BOOLEAN]

RateTypes ==
  /\ custom \in [Path -> Limits \cup {DefaultLimit}]
  /\ bucket \in BucketRow /\ IsFiniteSet(bucket.requests)
  /\ bucket.there => bucket.tokens <= MaxBurst * Window

PassedCounted ==
  /\ passed = Younger(bucket.requests)
  /\ ~bucket.there => bucket.requests = {}

\* The requests of this second are numbered from 0, so that the next number
\* is free.
Numbered == \A x \in OfNow(passed) : x[2] < Cardinality(OfNow(passed))

\* When nothing passed for k seconds, a bucket that met no limit below one has, or
\* will be given for the time since it was last filled, k parts of a token.
Recovering ==
  \A k \in 0 .. Window :
    bucket.there /\ bucket.sound /\ (\A x \in passed : x[1] >= k) => bucket.tokens + bucket.idle >= k

\* What passed in this second is missing in the bucket.
BurstSpent ==
  OfNow(passed) # {} =>
    bucket.idle = 0 /\ bucket.tokens + Window * Cardinality(OfNow(passed)) <= MaxBurst * Window

RateRows == RateTypes /\ PassedCounted /\ Numbered /\ Recovering /\ BurstSpent

RateInv == RateRows /\ WindowBounded /\ NeverShutOut

\* Products, as the bucket uses them.
LEMMA Products ==
  /\ \A a, c \in Nat : a * c \in Nat
  /\ \A a, b \in Int, c \in Nat : a <= b => a * c <= b * c
  /\ \A a, c \in Nat : a >= 1 => c <= a * c /\ c <= c * a
  /\ \A a, c \in Nat : c * (a + 1) = c * a + c
<1>1. \A a, c \in Nat : a * c \in Nat
  BY SMT
<1>2. ASSUME NEW a \in Int, NEW b \in Int, NEW c \in Nat, a <= b PROVE a * c <= b * c
  <2>1. PICK e \in Nat : b = a + e
    <3>1. b - a \in Nat /\ b = a + (b - a)
      BY <1>2
    <3> QED
      BY <3>1
  <2>2. b * c = a * c + e * c
    BY <2>1
  <2>3. a * c \in Int /\ e * c \in Nat
    BY <1>1
  <2> QED
    BY <2>2, <2>3
<1>3. ASSUME NEW a \in Nat, NEW c \in Nat, a >= 1 PROVE c <= a * c /\ c <= c * a
  <2>1. 1 * c <= a * c
    BY <1>2, <1>3
  <2> QED
    BY <2>1
<1>4. \A a, c \in Nat : c * (a + 1) = c * a + c
  OBVIOUS
<1> QED
  BY <1>1, <1>2, <1>3, <1>4

\* No limit's bucket holds more than the largest, and where its burst is one or more
\* it holds a token.
LEMMA Bursts ==
  /\ MaxBurst \in Int /\ MaxBurst * Window \in Int
  /\ \A l \in Limits \cup {DefaultLimit} :
       /\ l.rpm \in Int /\ l.burst \in Int /\ l.burst * Window \in Int
       /\ l.burst >= 1 => Window <= l.burst * Window
       /\ l.burst * Window <= MaxBurst * Window
<1> DEFINE A == Limits \cup {DefaultLimit}
<1>1. Window \in Nat /\ Window >= 1 /\ \A l \in A : l.rpm \in Int /\ l.burst \in Int
  BY LimitsAssumption
<1>2. MaxBurst \in {l.burst : l \in A} /\ \A l \in A : l.burst <= MaxBurst
  BY BurstBounded DEF MaxBurst
<1>3. MaxBurst \in Int
  BY <1>1, <1>2
<1>4. MaxBurst * Window \in Int
  BY <1>1, <1>3
<1>5. ASSUME NEW l \in A
      PROVE  /\ l.burst * Window \in Int /\ l.burst * Window <= MaxBurst * Window
             /\ l.burst >= 1 => Window <= l.burst * Window
  <2>1. l.burst \in Int /\ l.burst <= MaxBurst
    BY <1>1, <1>2
  <2>2. l.burst * Window <= MaxBurst * Window
    BY <1>1, <1>3, <2>1, Products
  <2>3. l.burst >= 1 => Window <= l.burst * Window
    BY <1>1, <2>1, Products
  <2> QED
    BY <1>1, <2>1, <2>2, <2>3
<1> QED
  BY <1>1, <1>3, <1>4, <1>5

\* The bucket found, and what it holds once filled.
LEMMA FilledFine ==
  ASSUME RateRows, NEW p \in Path
  PROVE  LET b == Found(p)
             t == Filled(p, b)
         IN  /\ get_limit(p) \in Limits \cup {DefaultLimit}
             /\ b.tokens \in Int /\ b.idle \in Nat /\ b.sound \in BOOLEAN /\ Younger(b.requests) = passed
             /\ t \in Int /\ t <= MaxBurst * Window
             /\ b.idle = 0 => t <= b.tokens
             /\ b.sound /\ AtLeastOne(get_limit(p)) =>
                  \A k \in 0 .. Window : (\A x \in passed : x[1] >= k) => t >= k
             /\ OfNow(passed) # {} => b.idle = 0 /\ b.tokens = bucket.tokens
<1> DEFINE l == get_limit(p)
           b == Found(p)
           t == Filled(p, b)
<1>1. l \in Limits \cup {DefaultLimit}
  BY DEF RateRows, RateTypes, get_limit
<1>2. /\ MaxBurst * Window \in Int /\ l.rpm \in Int /\ l.burst \in Int /\ l.burst * Window \in Int
      /\ Window \in Nat /\ (l.burst >= 1 => Window <= l.burst * Window) /\ l.burst * Window <= MaxBurst * Window
  BY <1>1, Bursts, LimitsAssumption
<1>3. \/ bucket.there /\ b = bucket
      \/ ~bucket.there /\ b.tokens = l.burst * Window /\ b.idle = 0 /\ b.requests = {} /\ b.sound = TRUE
  BY DEF Found, RateRows, RateTypes, BucketRow
<1>4. b.tokens \in Int /\ b.idle \in Nat /\ b.sound \in BOOLEAN
  <2>1. bucket.tokens \in Int /\ bucket.idle \in Nat /\ bucket.sound \in BOOLEAN
    BY DEF RateRows, RateTypes, BucketRow
  <2> HIDE DEF b, l
  <2>2. CASE bucket.there /\ b = bucket
    BY <2>1, <2>2
  <2>3. CASE b.tokens = l.burst * Window /\ b.idle = 0 /\ b.sound = TRUE
    <3>1. b.sound \in BOOLEAN
      BY <2>3
    <3>2. b.tokens \in Int /\ b.idle \in Nat
      <4>1. b.tokens = l.burst * Window /\ b.idle = 0
        BY <2>3
      <4> QED
        BY <1>2, <4>1
    <3> QED
      BY <3>1, <3>2
  <2> QED
    BY <1>3, <2>2, <2>3
<1>5. Younger(b.requests) = passed /\ (~bucket.there => passed = {})
  BY <1>3 DEF RateRows, PassedCounted, Younger
<1> HIDE DEF b, l
<1>6. b.idle * l.rpm \in Int /\ (l.rpm >= 1 => b.idle <= b.idle * l.rpm) /\ (b.idle = 0 => b.idle * l.rpm = 0)
  <2>1. b.idle * l.rpm \in Int /\ (b.idle = 0 => b.idle * l.rpm = 0)
    BY <1>2, <1>4
  <2>2. l.rpm >= 1 => b.idle <= b.idle * l.rpm
    BY <1>2, <1>4, Products
  <2> QED
    BY <2>1, <2>2
<1>7. t = Least(l.burst * Window, b.tokens + b.idle * l.rpm)
  BY DEF Filled, l
<1>8. t \in Int /\ t <= MaxBurst * Window /\ (b.idle = 0 => t <= b.tokens)
  BY <1>2, <1>4, <1>6, <1>7 DEF Least
<1>9. l.rpm >= 1 /\ l.burst >= 1 => \A k \in 0 .. Window : b.tokens + b.idle >= k => t >= k
  BY <1>2, <1>4, <1>6, <1>7 DEF Least
<1> HIDE DEF t
<1>10. b.sound /\ l.rpm >= 1 /\ l.burst >= 1 =>
         \A k \in 0 .. Window : (\A x \in passed : x[1] >= k) => b.tokens + b.idle >= k
  BY <1>2, <1>3, <1>4 DEF RateRows, Recovering
<1>11. OfNow(passed) # {} => b.idle = 0 /\ b.tokens = bucket.tokens
  BY <1>3, <1>5 DEF RateRows, BurstSpent, OfNow
<1> QED
  BY <1>1, <1>4, <1>5, <1>8, <1>9, <1>10, <1>11 DEF t, b, l, AtLeastOne


\* What passed is among the bucket's requests, and can be counted.
LEMMA PassedFine ==
  ASSUME RateRows
  PROVE  /\ IsFiniteSet(passed) /\ Cardinality(passed) \in Nat
         /\ IsFiniteSet(OfNow(passed)) /\ Cardinality(OfNow(passed)) \in Nat
         /\ passed \subseteq Stamp /\ Younger(passed) = passed
         /\ \A x \in Stamp : x[1] \in 0 .. Window /\ x[2] \in Nat /\ x = <<x[1], x[2]>>
<1>1. passed \subseteq bucket.requests /\ bucket.requests \subseteq Stamp /\ IsFiniteSet(bucket.requests)
  BY DEF RateRows, RateTypes, BucketRow, PassedCounted, Younger
<1>2. IsFiniteSet(passed) /\ Cardinality(passed) \in Nat
  BY <1>1, FS_Subset, FS_CardinalityType
<1>3. IsFiniteSet(OfNow(passed)) /\ Cardinality(OfNow(passed)) \in Nat
  BY <1>2, FS_Subset, FS_CardinalityType DEF OfNow
<1>4. Younger(passed) = passed
  BY DEF RateRows, PassedCounted, Younger
<1>5. \A x \in Stamp : x[1] \in 0 .. Window /\ x[2] \in Nat /\ x = <<x[1], x[2]>>
  BY DEF Stamp
<1> QED
  BY <1>1, <1>2, <1>3, <1>4, <1>5

\* One more request that passes.
LEMMA AppendedFine ==
  ASSUME RateRows
  PROVE  LET s == Appended(passed)
         IN  /\ s \subseteq Stamp /\ IsFiniteSet(s) /\ Younger(s) = s
             /\ Cardinality(s) = Cardinality(passed) + 1
             /\ Cardinality(OfNow(s)) = Cardinality(OfNow(passed)) + 1
             /\ \A x \in OfNow(s) : x[2] < Cardinality(OfNow(s))
             /\ \E x \in s : x[1] = 0
<1> DEFINE n == Cardinality(OfNow(passed))
           y == <<0, n>>
           s == passed \cup {y}
<1>1. n \in Nat /\ y[1] = 0 /\ y[2] = n /\ y \in Stamp /\ Window \in Nat /\ 0 < Window
  BY PassedFine, LimitsAssumption DEF Stamp
<1>2. y \notin passed
  BY <1>1 DEF RateRows, Numbered, OfNow
<1> HIDE DEF n, y
<1>3. s \subseteq Stamp /\ Younger(s) = s
  BY <1>1, PassedFine DEF Younger
<1>4. IsFiniteSet(s) /\ Cardinality(s) = Cardinality(passed) + 1
  BY <1>2, PassedFine, FS_AddElement
<1>5. OfNow(s) = OfNow(passed) \cup {y}
  BY <1>1 DEF OfNow
<1>6. y \notin OfNow(passed)
  BY <1>2 DEF OfNow
<1>7. Cardinality(OfNow(s)) = n + 1
  BY <1>5, <1>6, PassedFine, FS_AddElement DEF n
<1>8. \A x \in OfNow(s) : x[2] < n + 1
  <2>1. \A x \in OfNow(passed) : x[2] < n /\ x[2] \in Nat
    BY PassedFine DEF RateRows, Numbered, OfNow, n
  <2> QED
    BY <1>1, <1>5, <2>1
<1>9. s = Appended(passed)
  BY DEF Appended, y, n
<1> HIDE DEF s
<1> QED
  BY <1>1, <1>3, <1>4, <1>7, <1>8, <1>9 DEF n, s

\* A request that is checked, let through or refused.
LEMMA CheckInv ==
  ASSUME RateInv, NEW p \in Path, check_rate_limit(p)
  PROVE  RateInv'
<1> DEFINE b == Found(p)
           t == Filled(p, b)
           n == Cardinality(OfNow(passed))
           sound == b.sound /\ AtLeastOne(get_limit(p))
<1>0. RateRows
  BY DEF RateInv
<1>1. /\ get_limit(p) \in Limits \cup {DefaultLimit} /\ b.tokens \in Int /\ b.idle \in Nat /\ sound \in BOOLEAN
      /\ Younger(b.requests) = passed /\ t \in Int /\ t <= MaxBurst * Window
      /\ b.idle = 0 => t <= b.tokens
      /\ sound => \A k \in 0 .. Window : (\A x \in passed : x[1] >= k) => t >= k
      /\ OfNow(passed) # {} => b.idle = 0 /\ b.tokens = bucket.tokens
  BY <1>0, FilledFine DEF AtLeastOne
<1>2. /\ IsFiniteSet(passed) /\ Cardinality(passed) \in Nat /\ IsFiniteSet(OfNow(passed)) /\ n \in Nat
      /\ passed \subseteq Stamp /\ Younger(passed) = passed
  BY <1>0, PassedFine
<1>3. /\ Window \in Nat /\ Window >= 1 /\ MaxBurst * Window \in Int
      /\ get_limit(p).rpm \in Int /\ MaxBurst \in Int
      /\ sound => get_limit(p).rpm >= 1
  BY <1>1, Bursts, LimitsAssumption DEF AtLeastOne
<1> DEFINE ok == t >= Window /\ Cardinality(passed) < get_limit(p).rpm
<1>4. /\ bucket' = [tokens |-> IF ok THEN t - Window ELSE t, idle |-> 0,
                    requests |-> IF ok THEN Appended(passed) ELSE passed, there |-> TRUE,
                    sound |-> sound]
      /\ passed' = IF ok THEN Appended(passed) ELSE passed
      /\ verdict' = [path |-> p, allowed |-> ok, shut |-> ~ok /\ passed = {} /\ sound]
      /\ custom' = custom
  BY <1>1, <1>2 DEF check_rate_limit, AfterRefusal, Room
<1> HIDE DEF b, t, sound
<1>5. CASE ok
  <2> DEFINE s == Appended(passed)
  <2>1. /\ bucket'.tokens = t - Window /\ bucket'.idle = 0 /\ bucket'.requests = s /\ bucket'.there = TRUE
        /\ bucket' = [tokens |-> t - Window, idle |-> 0, requests |-> s, there |-> TRUE, sound |-> sound]
        /\ passed' = s /\ verdict'.path = p /\ ~verdict'.shut /\ custom' = custom
    BY <1>4, <1>5
  <2>2. /\ s \subseteq Stamp /\ IsFiniteSet(s) /\ Younger(s) = s
        /\ Cardinality(s) = Cardinality(passed) + 1 /\ Cardinality(OfNow(s)) = n + 1
        /\ \A x \in OfNow(s) : x[2] < Cardinality(OfNow(s))
        /\ \E x \in s : x[1] = 0
    BY <1>0, AppendedFine
  <2> HIDE DEF s
  <2>3. t - Window \in Nat /\ t - Window <= MaxBurst * Window
    BY <1>1, <1>3, <1>5
  <2>4. RateTypes'
    BY <1>0, <1>1, <2>1, <2>2, <2>3 DEF RateRows, RateTypes, BucketRow
  <2>5. PassedCounted' /\ Numbered'
    BY <2>1, <2>2 DEF PassedCounted, Numbered, Younger, OfNow
  <2>6. Recovering'
    <3> SUFFICES ASSUME NEW k \in 0 .. Window, \A x \in passed' : x[1] >= k
                 PROVE  bucket'.tokens + bucket'.idle >= k
      BY DEF Recovering
    <3>1. k = 0
      BY <1>3, <2>1, <2>2
    <3> QED
      BY <2>1, <2>3, <3>1
  <2>7. t - Window + Window * (n + 1) <= MaxBurst * Window
    <3>1. Window * (n + 1) = Window * n + Window /\ Window * n \in Nat
      BY <1>2, <1>3, Products
    <3>2. CASE n = 0
      <4>1. Window * n = 0
        BY <1>3, <3>2
      <4> QED
        BY <1>1, <1>3, <3>1, <4>1
    <3>3. CASE n # 0
      <4>1. OfNow(passed) # {}
        BY <3>3, FS_EmptySet
      <4>2. t <= bucket.tokens /\ bucket.tokens + Window * n <= MaxBurst * Window /\ bucket.tokens \in Int
        BY <1>0, <1>1, <4>1 DEF RateRows, BurstSpent
      <4> QED
        BY <1>1, <1>3, <3>1, <4>2
    <3> QED
      BY <3>2, <3>3
  <2>8. BurstSpent'
    BY <2>1, <2>2, <2>7 DEF BurstSpent, OfNow
  <2>9. Cardinality(s) <= get_limit(p).rpm
    BY <1>2, <1>3, <1>5, <2>2
  <2>10. n + 1 <= MaxBurst
    <3>1. Window * (n + 1) <= MaxBurst * Window
      <4>1. Window * (n + 1) \in Nat /\ t - Window \in Nat
        BY <1>2, <1>3, <2>3, Products
      <4> QED
        BY <1>3, <2>7, <4>1
    <3>2. SUFFICES ASSUME MaxBurst + 1 <= n + 1 PROVE FALSE
      BY <1>2, <1>3
    <3>3. (MaxBurst + 1) * Window <= (n + 1) * Window
      BY <1>2, <1>3, <3>2, Products
    <3>4. (MaxBurst + 1) * Window = MaxBurst * Window + Window /\ (n + 1) * Window = Window * (n + 1)
      BY <1>2, <1>3
    <3> QED
      BY <1>2, <1>3, <3>1, <3>3, <3>4
  <2>11. WindowBounded'
    BY <2>1, <2>2, <2>9, <2>10 DEF WindowBounded, OfNow, get_limit
  <2> QED
    BY <2>1, <2>4, <2>5, <2>6, <2>8, <2>11 DEF RateInv, RateRows, NeverShutOut
<1>6. CASE ~ok
  <2>1. /\ bucket'.tokens = t /\ bucket'.idle = 0 /\ bucket'.requests = passed /\ bucket'.there = TRUE
        /\ bucket'.sound = sound
        /\ bucket' = [tokens |-> t, idle |-> 0, requests |-> passed, there |-> TRUE, sound |-> sound]
        /\ passed' = passed /\ ~verdict'.allowed /\ custom' = custom
        /\ verdict'.shut <=> passed = {} /\ sound
    BY <1>4, <1>6
  <2>2. t \in Int /\ t <= MaxBurst * Window
    BY <1>1, <1>3
  <2>3. RateTypes'
    BY <1>0, <1>1, <1>2, <2>1, <2>2 DEF RateRows, RateTypes, BucketRow
  <2>4. PassedCounted' /\ Numbered'
    BY <1>0, <1>2, <2>1 DEF RateRows, PassedCounted, Numbered, Younger, OfNow
  <2>5. Recovering'
    BY <1>1, <2>1 DEF Recovering
  <2>6. BurstSpent'
    <3> SUFFICES ASSUME OfNow(passed) # {} PROVE t + Window * n <= MaxBurst * Window
      BY <2>1 DEF BurstSpent, OfNow
    <3>1. t <= bucket.tokens /\ bucket.tokens + Window * n <= MaxBurst * Window /\ bucket.tokens \in Int
      BY <1>0, <1>1 DEF RateRows, BurstSpent
    <3>2. Window * n \in Nat
      BY <1>2, <1>3, Products
    <3> QED
      BY <1>1, <1>3, <3>1, <3>2
  <2>7. ~(passed = {} /\ sound)
    <3> SUFFICES ASSUME passed = {}, sound PROVE FALSE
      OBVIOUS
    <3>1. t >= Window
      BY <1>1, <1>3
    <3>2. Cardinality(passed) = 0
      BY FS_EmptySet
    <3> QED
      BY <1>3, <1>6, <3>1, <3>2
  <2> QED
    BY <2>1, <2>3, <2>4, <2>5, <2>6, <2>7 DEF RateInv, RateRows, NeverShutOut, WindowBounded
<1> QED
  BY <1>5, <1>6


\* A second later the same requests are in the window, one second older.
LEMMA OlderFine ==
  ASSUME RateRows
  PROVE  /\ Older(bucket.requests) \subseteq Stamp /\ IsFiniteSet(Older(bucket.requests))
         /\ Younger(Older(passed)) = Younger(Older(bucket.requests))
         /\ OfNow(Younger(Older(passed))) = {}
         /\ \A x \in passed : x[1] + 1 < Window => <<x[1] + 1, x[2]>> \in Younger(Older(passed))
<1> DEFINE F(x) == <<Least(x[1] + 1, Window), x[2]>>
           R == bucket.requests
<1>1. /\ R \subseteq Stamp /\ IsFiniteSet(R) /\ passed \subseteq R /\ Window \in Nat /\ Window >= 1
      /\ \A x \in R : x \in passed <=> x[1] < Window
  BY LimitsAssumption DEF RateRows, RateTypes, BucketRow, PassedCounted, Younger
<1>2. \A x \in R : /\ x[1] \in 0 .. Window /\ x[2] \in Nat
                   /\ F(x) \in Stamp /\ F(x)[1] = Least(x[1] + 1, Window) /\ F(x)[2] = x[2]
                   /\ F(x)[1] # 0 /\ (F(x)[1] < Window => x[1] < Window)
                   /\ x[1] + 1 < Window => F(x) = <<x[1] + 1, x[2]>>
  <2> SUFFICES ASSUME NEW x \in R
               PROVE  /\ x[1] \in 0 .. Window /\ x[2] \in Nat
                      /\ F(x) \in Stamp /\ F(x)[1] = Least(x[1] + 1, Window) /\ F(x)[2] = x[2]
                      /\ F(x)[1] # 0 /\ (F(x)[1] < Window => x[1] < Window)
                      /\ x[1] + 1 < Window => F(x) = <<x[1] + 1, x[2]>>
    OBVIOUS
  <2>1. x[1] \in 0 .. Window /\ x[2] \in Nat
    BY <1>1, PassedFine
  <2>2. F(x)[1] = Least(x[1] + 1, Window) /\ F(x)[2] = x[2]
    OBVIOUS
  <2>3. Least(x[1] + 1, Window) \in 0 .. Window /\ Least(x[1] + 1, Window) # 0
    BY <1>1, <2>1 DEF Least
  <2>4. Least(x[1] + 1, Window) < Window => x[1] < Window /\ Least(x[1] + 1, Window) = x[1] + 1
    BY <1>1, <2>1 DEF Least
  <2>5. x[1] + 1 < Window => Least(x[1] + 1, Window) = x[1] + 1
    BY <1>1, <2>1 DEF Least
  <2> QED
    BY <2>1, <2>2, <2>3, <2>4, <2>5 DEF Stamp
<1>3. Older(R) = {F(x) : x \in R} /\ Older(passed) = {F(x) : x \in passed}
  BY DEF Older
<1>4. IsFiniteSet({F(x) : x \in R})
  <2> DEFINE f == [x \in R |-> F(x)]
             T == {F(x) : x \in R}
  <2>1. f \in Surjection(R, T)
    BY DEF Surjection
  <2> HIDE DEF f, T
  <2>2. IsFiniteSet(T)
    BY <1>1, <2>1, FS_Surjection
  <2> QED
    BY <2>2 DEF T
<1> HIDE DEF F
<1>5. Older(R) \subseteq Stamp
  BY <1>2, <1>3
<1>6. Younger(Older(passed)) = Younger(Older(R))
  <2>1. ASSUME NEW y \in Older(R), y[1] < Window PROVE y \in Older(passed)
    <3>1. PICK x \in R : y = F(x)
      BY <1>3
    <3>2. x \in passed
      BY <1>1, <1>2, <2>1, <3>1
    <3> QED
      BY <1>3, <3>1, <3>2
  <2>2. Older(passed) \subseteq Older(R)
    BY <1>1, <1>3
  <2> QED
    BY <2>1, <2>2 DEF Younger
<1>7. OfNow(Younger(Older(passed))) = {}
  <2> SUFFICES ASSUME NEW y \in Older(passed), y[1] = 0 PROVE FALSE
    BY DEF OfNow, Younger
  <2> QED
    BY <1>1, <1>2, <1>3
<1>8. ASSUME NEW x \in passed, x[1] + 1 < Window PROVE <<x[1] + 1, x[2]>> \in Younger(Older(passed))
  <2>1. x \in R /\ F(x) = <<x[1] + 1, x[2]>>
    BY <1>1, <1>2, <1>8
  <2>2. F(x) \in Older(passed) /\ F(x)[1] = x[1] + 1
    BY <1>3, <2>1
  <2>3. F(x) \in Younger(Older(passed))
    BY <1>8, <2>2 DEF Younger
  <2> QED
    BY <2>1, <2>3
<1> QED
  BY <1>3, <1>4, <1>5, <1>6, <1>7, <1>8

\* The passing of a second.
LEMMA SecondInv == ASSUME RateInv, Second PROVE RateInv'
<1> DEFINE i == IF bucket.there THEN bucket.idle + 1 ELSE bucket.idle
           R == Older(bucket.requests)
<1>0. RateRows
  BY DEF RateInv
<1>1. /\ bucket \in BucketRow /\ bucket.tokens \in Int /\ bucket.idle \in Nat
      /\ (bucket.there => bucket.tokens <= MaxBurst * Window) /\ MaxBurst * Window \in Int /\ Window \in Nat
  BY <1>0, Bursts, LimitsAssumption DEF RateRows, RateTypes, BucketRow
<1>2. bucket' = [bucket EXCEPT !.idle = i, !.requests = R] /\ passed' = Younger(Older(passed))
      /\ verdict' = None /\ custom' = custom
  BY DEF Second
<1>3. i \in Nat /\ (bucket.there => i = bucket.idle + 1)
  BY <1>1
<1>4. /\ R \subseteq Stamp /\ IsFiniteSet(R) /\ passed' = Younger(R) /\ OfNow(passed') = {}
      /\ \A x \in passed : x[1] + 1 < Window => <<x[1] + 1, x[2]>> \in passed'
  BY <1>0, <1>2, OlderFine
<1>5. ~bucket.there => R = {}
  BY <1>0 DEF RateRows, PassedCounted, Older
<1> HIDE DEF i, R
<1>6. /\ bucket'.tokens = bucket.tokens /\ bucket'.idle = i /\ bucket'.requests = R
      /\ bucket'.there = bucket.there /\ bucket'.sound = bucket.sound /\ bucket' \in BucketRow
  BY <1>1, <1>2, <1>3, <1>4 DEF BucketRow
<1>7. RateTypes' /\ PassedCounted'
  BY <1>0, <1>2, <1>4, <1>5, <1>6 DEF RateRows, RateTypes, PassedCounted, Younger
<1>8. Numbered' /\ BurstSpent'
  BY <1>4 DEF Numbered, BurstSpent, OfNow
<1>9. Recovering'
  <2> SUFFICES ASSUME NEW k \in 0 .. Window, bucket.there, bucket.sound, \A x \in passed' : x[1] >= k
               PROVE  bucket.tokens + i >= k
    BY <1>6 DEF Recovering
  <2>1. CASE k = 0
    <3>1. bucket.tokens + bucket.idle >= 0
      BY <1>0, <1>1 DEF RateRows, Recovering, PassedCounted, Younger, RateTypes, BucketRow, Stamp
    <3> QED
      BY <1>1, <1>3, <2>1, <3>1
  <2>2. CASE k # 0
    <3>1. k - 1 \in 0 .. Window
      BY <1>1, <2>2
    <3>2. \A x \in passed : x[1] >= k - 1
      <4> SUFFICES ASSUME NEW x \in passed, x[1] < k - 1 PROVE FALSE
        BY <1>0, <1>1, PassedFine
      <4>1. x[1] \in Nat /\ x[1] + 1 < k /\ x[1] + 1 < Window
        BY <1>0, <1>1, PassedFine
      <4>2. <<x[1] + 1, x[2]>> \in passed'
        BY <1>4, <4>1
      <4>3. <<x[1] + 1, x[2]>>[1] >= k
        BY <4>2
      <4> QED
        BY <4>1, <4>3
    <3>3. bucket.tokens + bucket.idle >= k - 1
      BY <1>0, <3>1, <3>2 DEF RateRows, Recovering
    <3> QED
      BY <1>1, <1>3, <2>2, <3>3
  <2> QED
    BY <1>3, <2>1, <2>2
<1>10. ~verdict'.shut
  BY <1>2 DEF None
<1> QED
  BY <1>2, <1>7, <1>8, <1>9, <1>10 DEF RateInv, RateRows, WindowBounded, NeverShutOut

\* No bucket, and nothing that passed.
LEMMA ClearedRows ==
  ASSUME bucket = NoBucket, passed = {}, custom \in [Path -> Limits \cup {DefaultLimit}], verdict = None
  PROVE  RateInv
<1>1. bucket.tokens = 0 /\ bucket.idle = 0 /\ bucket.requests = {} /\ bucket.there = FALSE
  BY DEF NoBucket
<1>2. RateTypes
  BY <1>1, FS_EmptySet DEF RateTypes, BucketRow, NoBucket
<1>3. PassedCounted /\ Numbered /\ Recovering /\ BurstSpent
  BY <1>1 DEF PassedCounted, Numbered, Recovering, BurstSpent, Younger, OfNow
<1>4. WindowBounded /\ NeverShutOut
  BY DEF WindowBounded, NeverShutOut, None
<1> QED
  BY <1>2, <1>3, <1>4 DEF RateInv, RateRows

\* Every step of the limiter keeps its invariant.
LEMMA RateStepInv == RateInv /\ [RateNext]_rateVars => RateInv'
<1> SUFFICES ASSUME RateInv, [RateNext]_rateVars PROVE RateInv'
  OBVIOUS
<1>1. CASE \E p \in Path : check_rate_limit(p)
  BY <1>1, CheckInv
<1>2. CASE \E p \in Path, l \in Limits \cup {DefaultLimit} : set_custom_limit(p, l)
  <2>1. /\ UNCHANGED <<bucket, passed>> /\ verdict' = None /\ ~None.shut
        /\ custom' \in [Path -> Limits \cup {DefaultLimit}]
    BY <1>2 DEF set_custom_limit, RateInv, RateRows, RateTypes, None
  <2>2. RateRows'
    BY <2>1 DEF RateInv, RateRows, RateTypes, PassedCounted, Numbered, Recovering, BurstSpent, Younger, OfNow
  <2> QED
    BY <2>1, <2>2 DEF RateInv, WindowBounded, NeverShutOut
<1>3. CASE clear_bucket
  <2>1. bucket' = NoBucket /\ passed' = {} /\ verdict' = None /\ custom' \in [Path -> Limits \cup {DefaultLimit}]
    BY <1>3 DEF clear_bucket, RateInv, RateRows, RateTypes
  <2>2. (bucket = NoBucket /\ passed = {} /\ verdict = None /\ custom \in [Path -> Limits \cup {DefaultLimit}])'
    BY <2>1
  <2> QED
    BY <2>2, ClearedRows, PTL
<1>4. CASE Second
  BY <1>4, SecondInv
<1>5. CASE UNCHANGED rateVars
  BY <1>5 DEF rateVars, RateInv, RateRows, RateTypes, PassedCounted, Numbered, Recovering, BurstSpent, Younger, OfNow,
              WindowBounded, NeverShutOut, get_limit
<1> QED
  BY <1>1, <1>2, <1>3, <1>4, <1>5 DEF RateNext

\* The invariant of the limiter.
THEOREM RateInvariance == RateSpec => []RateInv
<1>1. RateInit => RateInv
  <2> SUFFICES ASSUME RateInit PROVE RateInv
    OBVIOUS
  <2>1. custom \in [Path -> Limits \cup {DefaultLimit}]
    BY DEF RateInit
  <2> QED
    BY <2>1, ClearedRows DEF RateInit
<1> QED
  BY <1>1, RateStepInv, PTL DEF RateSpec

\* For any limits, of zero and below too, any paths and window, and whatever limits
\* are set meanwhile: no path gets more through in a window than its limit, or more
\* at one moment than the largest burst; and as long as the limits a bucket meets
\* are one or more, a request is refused only when another was let through less
\* than a window ago (check_rate_limit, set_custom_limit).
THEOREM LimitIsKept == RateSpec => []RateLimitKept
<1>1. RateInv => RateLimitKept
  <2> SUFFICES ASSUME RateInv PROVE RateTypeOK
    BY DEF RateLimitKept, RateInv
  <2>1. bucket.requests \subseteq Stamp /\ \A x \in Stamp : x[1] \in 0 .. Window
    BY PassedFine DEF RateInv, RateRows, RateTypes, BucketRow
  <2> QED
    BY <2>1 DEF RateTypeOK, RateInv, RateRows, RateTypes, BucketRow
<1> QED
  BY <1>1, RateInvariance, PTL


----------------------------------------------------------------------------
(* The parts together: a behaviour of AccessSpec is one of every part,     *)
(* since the parts share only the clock.                                   *)

\* A behaviour of the composition is one of each of its parts.
LEMMA AccessParts == AccessSpec => LoginSpec /\ SsoSpec /\ UsersSpec /\ CertSpec /\ RateSpec
<1>1. AccessInit => clock = 1 /\ LoginInit /\ SsoInit /\ UsersInit /\ CertInit /\ RateInit
  BY DEF AccessInit
<1>2. [AccessNext]_accessVars => [LoginNext]_<<clock, loginVars>>
  <2> SUFFICES ASSUME [AccessNext]_accessVars PROVE LoginNext \/ UNCHANGED <<clock, loginVars>>
    OBVIOUS
  <2>1. CASE UNCHANGED accessVars
    BY <2>1 DEF accessVars
  <2>2. CASE AccessNext
    <3>1. CASE SsoNext /\ UNCHANGED loginVars
      <4>1. clock' = clock \/ Tick
        BY <3>1 DEF SsoNext
      <4> QED
        BY <3>1, <4>1 DEF LoginNext
    <3>2. LoginNext \/ (SsoNext /\ UNCHANGED loginVars) \/ UNCHANGED <<clock, loginVars>>
      BY <2>2 DEF AccessNext
    <3> QED
      BY <3>1, <3>2
  <2> QED
    BY <2>1, <2>2
<1>3. [AccessNext]_accessVars => [SsoNext]_<<clock, ssoVars>>
  <2> SUFFICES ASSUME [AccessNext]_accessVars PROVE SsoNext \/ UNCHANGED <<clock, ssoVars>>
    OBVIOUS
  <2>1. CASE UNCHANGED accessVars
    BY <2>1 DEF accessVars
  <2>2. CASE AccessNext
    <3>1. CASE LoginNext /\ UNCHANGED ssoVars
      <4>1. clock' = clock \/ Tick
        BY <3>1 DEF LoginNext
      <4> QED
        BY <3>1, <4>1 DEF SsoNext
    <3>2. SsoNext \/ (LoginNext /\ UNCHANGED ssoVars) \/ UNCHANGED <<clock, ssoVars>>
      BY <2>2 DEF AccessNext
    <3> QED
      BY <3>1, <3>2
  <2> QED
    BY <2>1, <2>2
<1>4. [AccessNext]_accessVars => [UsersNext]_userVars
  BY DEF AccessNext, accessVars
<1>5. [AccessNext]_accessVars => [RateNext]_rateVars
  BY DEF AccessNext, accessVars
<1>6. [AccessNext]_accessVars => [CertNext]_certVars
  BY DEF AccessNext, accessVars
<1> QED
  BY <1>1, <1>2, <1>3, <1>4, <1>5, <1>6, PTL
     DEF AccessSpec, LoginSpec, SsoSpec, UsersSpec, CertSpec, RateSpec

\* The rows of accounts, providers, users and certificates have their types.
THEOREM AccessTyped == AccessSpec => []AccessTypeOK
<1>1. LoginInv /\ SsoInv /\ UsersInv /\ CertInv => AccessTypeOK
  BY LoginTypes, SsoTypes, UsersTypes, CertTypes DEF AccessTypeOK
<1> QED
  BY <1>1, AccessParts, LoginInvariance, SsoInvariance, UsersInvariance, CertInvariance, PTL

\* However passwords, codes, keys and directory logins overlap, the lock of
\* _record_failed_attempt, _record_2fa_failure and _record_ldap_failed_attempt comes
\* after the attempts it allows, for any number of workers.
THEOREM GuessesAreBounded == AccessSpec => []GuessesBounded
<1>1. LoginInv /\ SsoInv => GuessesBounded
  BY GuessesOfPasswords, GuessesOfDirectory DEF GuessesBounded
<1> QED
  BY <1>1, AccessParts, LoginInvariance, SsoInvariance, PTL

\* Administration leaves references that resolve, one provider of a kind, one default
\* at most, and keys within their limit.
THEOREM TablesStayConsistent == AccessSpec => []TablesConsistent
<1>1. SsoInv /\ UsersInv => TablesConsistent
  BY SsoTypes, UsersTypes DEF TablesConsistent
<1> QED
  BY <1>1, AccessParts, SsoInvariance, UsersInvariance, PTL

\* A certificate with one row is found in either notation, and a revocation that came
\* to its end leaves no enabled enrolment (mtls_auth_service.py, user_certificates.py).
THEOREM EnrolmentsStaySound == AccessSpec => []EnrolmentsSound
BY AccessParts, CertificatesAreFound, RevocationDisables, PTL DEF EnrolmentsSound

\* Sessions end, an API key that was revoked stays revoked, an administrator is left,
\* and a certificate logs in the user of an enabled enrolment.
THEOREM AccessIsKept == AccessSpec => AccessKept
BY AccessParts, SessionsEnd, UsersKept, CertificatesEnter DEF AccessKept
=============================================================================
