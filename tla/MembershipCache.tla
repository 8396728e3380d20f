-------------------------- MODULE MembershipCache --------------------------
(***************************************************************************)
(* MembershipVerifier.checkMembership (grpc/membership-verifier.ts) over   *)
(* the read-through cache (cache/cached-lookup.ts) with its two families   *)
(* of entries (cache/cache-keys.ts): user -> membership and role ->        *)
(* permission set, in one organisation.  Several checks run at once, in    *)
(* any number of service instances: they share the store.  The service     *)
(* behind the RPC, the store and whoever deletes entries after a write     *)
(* live elsewhere and are modelled from their use.  Every read of the      *)
(* store may miss and every write may be dropped, as the port allows.      *)
(***************************************************************************)
EXTENDS Naturals

CONSTANTS
    Users, Roles, Checks,
    TtlMs,       (* cache.ttlMs, in clock ticks; 0 disables the cache *)
    MaxDelay,    (* ticks from the moment a check reads a membership, in the
                    store or by RPC, to its answer; calls have a deadline *)
    MaxChanges   (* bound: changes of membership, edits of permissions *)

ASSUME CacheAssumption ==
    /\ TtlMs \in Nat
    /\ MaxDelay \in Nat
    /\ MaxChanges \in Nat
    /\ "none" \notin Roles
    /\ Users # {}

(* A non-member has the empty role, and the empty permission set. *)
AnyRole == Roles \cup {"none"}

(* A permission set is known by the role that grants it and the number of  *)
(* edits the role has seen.                                                *)
Sets == [of : AnyRole, edition : 0..MaxChanges]
EmptySet == [of |-> "none", edition |-> 0]

VARIABLES
    roleOf,       (* the membership table behind the RPC *)
    edition,      (* the role -> permissions table beside it *)
    membership,   (* the cache's entries by user *)
    permissions,  (* the cache's entries by role *)
    check,        (* the calls of checkMembership in progress *)
    ago,          (* history: ticks since a user last had a role *)
    lapsed,       (* history: ticks since a role last granted a set *)
    changes

tables == <<roleOf, edition, ago, lapsed, changes>>
vars == <<tables, membership, permissions, check>>

(* An entry is present while it has time left.  History: it is late if its *)
(* value was no longer true when it was stored.                            *)
Entries(values) == [value : values, left : 0..TtlMs, late : BOOLEAN]
NoMembership == [value |-> "none", left |-> 0, late |-> FALSE]
NoPermissions == [value |-> EmptySet, left |-> 0, late |-> FALSE]
Present(entry) == entry.left > 0

(* Mutated form: the tick of the write is not counted. *)
FreshOneTickLonger(v, late) == [value |-> v, left |-> TtlMs + 1, late |-> late]

Fresh(v, late) == [value |-> v, left |-> TtlMs, late |-> late]

StepNames == {"idle", "fetch", "seed", "store", "readPermissions", "refetch",
              "storePermissions", "answered"}

(* The oldest membership an answer may rest on: the RPC's answer takes a   *)
(* check's time to reach the store, lives TtlMs there, and is used in      *)
(* another check's time.                                                   *)
StaleBound == TtlMs + 2 * MaxDelay

Calls == [pc : StepNames, user : Users, role : AnyRole, granted : Sets,
          wait : 0..MaxDelay]

(* The variables hold values of their types. *)
TypeOK ==
    /\ roleOf \in [Users -> AnyRole]
    /\ edition \in [Roles -> 0..MaxChanges]
    /\ membership \in [Users -> Entries(AnyRole)]
    /\ permissions \in [Roles -> Entries(Sets)]
    /\ check \in [Checks -> Calls]
    /\ ago \in [Users -> [AnyRole -> 0..(StaleBound + 1)]]
    /\ lapsed \in [Roles -> [0..MaxChanges -> 0..(StaleBound + 1)]]
    /\ changes \in 0..MaxChanges

NoCall == [pc |-> "idle", user |-> CHOOSE u \in Users : TRUE, role |-> "none",
           granted |-> EmptySet, wait |-> 0]

Init ==
    /\ roleOf \in [Users -> AnyRole]
    /\ edition = [r \in Roles |-> 0]
    /\ membership = [u \in Users |-> NoMembership]
    /\ permissions = [r \in Roles |-> NoPermissions]
    /\ check = [q \in Checks |-> NoCall]
    /\ ago = [u \in Users |-> [r \in AnyRole |->
                 IF r = roleOf[u] THEN 0 ELSE StaleBound + 1]]
    /\ lapsed = [r \in Roles |-> [e \in 0..MaxChanges |->
                    IF e = 0 THEN 0 ELSE StaleBound + 1]]
    /\ changes = 0

-----------------------------------------------------------------------------
(* checkMembership(orgId, userId) *)

At(q, step) == check[q].pc = step

Goto(q, step) == check' = [check EXCEPT ![q].pc = step]

Return(q) == check' = [check EXCEPT ![q] = NoCall]

(* What the role grants now. *)
SetOf(r) == IF r = "none" THEN EmptySet ELSE [of |-> r, edition |-> edition[r]]

(* Mutated form: a hit renews the entry. *)
AfterHitRenewed(u) == [membership EXCEPT ![u].left = TtlMs]

AfterHit(u) == membership

(* The first cachedLookup finds the user's entry. *)
LookupHit(q, u) ==
    /\ At(q, "idle")
    /\ Present(membership[u])
    /\ LET r == membership[u].value IN
       check' = [check EXCEPT ![q] =
           [pc |-> IF r = "none" THEN "answered" ELSE "readPermissions",
            user |-> u, role |-> r, granted |-> EmptySet, wait |-> 0]]
    /\ membership' = AfterHit(u)
    /\ UNCHANGED <<tables, permissions>>

(* It finds none, the store fails, or parse refuses the entry. *)
LookupMiss(q, u) ==
    /\ At(q, "idle")
    /\ check' = [check EXCEPT ![q] =
           [pc |-> "fetch", user |-> u, role |-> "none", granted |-> EmptySet,
            wait |-> 0]]
    /\ UNCHANGED <<tables, membership, permissions>>

(* The RPC reads role and permissions in one go. *)
Fetch(q) ==
    /\ At(q, "fetch")
    /\ LET r == roleOf[check[q].user] IN
       check' = [check EXCEPT ![q].pc = "seed", ![q].role = r,
                              ![q].granted = SetOf(r), ![q].wait = 0]
    /\ UNCHANGED <<tables, membership, permissions>>

(* It fails: checkMembership rejects and nothing is cached. *)
FetchFails(q) ==
    /\ At(q, "fetch") \/ At(q, "refetch")
    /\ Return(q)
    /\ UNCHANGED <<tables, membership, permissions>>

SetPermissions(r, granted) ==
    permissions' \in {permissions,
        [permissions EXCEPT ![r] = Fresh(granted, granted # SetOf(granted.of))]}

(* seedPermissions, which skips the empty role *)
Seed(q) ==
    /\ At(q, "seed")
    /\ IF check[q].role = "none" THEN UNCHANGED permissions
       ELSE SetPermissions(check[q].role, check[q].granted)
    /\ Goto(q, "store")
    /\ UNCHANGED <<tables, membership>>

Store(q) ==
    /\ At(q, "store")
    /\ LET u == check[q].user
           r == check[q].role
       IN  membership' \in {membership,
               [membership EXCEPT ![u] = Fresh(r, r # roleOf[u])]}
    /\ Goto(q, "answered")
    /\ UNCHANGED <<tables, permissions>>

(* The second cachedLookup, under the role of the cached membership *)
ReadPermissions(q) ==
    /\ At(q, "readPermissions")
    /\ LET entry == permissions[check[q].role] IN
       \/ Goto(q, "refetch")
       \/ /\ Present(entry)
          /\ check' = [check EXCEPT ![q].pc = "answered",
                                    ![q].granted = entry.value]
    /\ UNCHANGED <<tables, membership, permissions>>

(* Its fetch asks for the user again, and takes the permissions only. *)
Refetch(q) ==
    /\ At(q, "refetch")
    /\ check' = [check EXCEPT ![q].pc = "storePermissions",
                              ![q].granted = SetOf(roleOf[check[q].user])]
    /\ UNCHANGED <<tables, membership, permissions>>

StorePermissions(q) ==
    /\ At(q, "storePermissions")
    /\ SetPermissions(check[q].role, check[q].granted)
    /\ Goto(q, "answered")
    /\ UNCHANGED <<tables, membership>>

(* The caller has used the answer. *)
Use(q) ==
    /\ At(q, "answered")
    /\ Return(q)
    /\ UNCHANGED <<tables, membership, permissions>>

-----------------------------------------------------------------------------
(* The environment *)

Change ==
    /\ changes < MaxChanges
    /\ changes' = changes + 1
    /\ UNCHANGED <<membership, permissions, check>>

ChangeRole(u, r) ==
    /\ roleOf[u] # r
    /\ Change
    /\ roleOf' = [roleOf EXCEPT ![u] = r]
    /\ ago' = [ago EXCEPT ![u][r] = 0]
    /\ UNCHANGED <<edition, lapsed>>

(* The owner edits the permissions of a role. *)
EditRole(r) ==
    /\ Change
    /\ edition' = [edition EXCEPT ![r] = @ + 1]
    /\ lapsed' = [lapsed EXCEPT ![r][edition[r] + 1] = 0]
    /\ UNCHANGED <<roleOf, ago>>

(* del of an entry, after a write of the membership or of a role's set *)
Invalidate ==
    /\ \/ \E u \in Users : /\ membership' = [membership EXCEPT ![u] = NoMembership]
                           /\ UNCHANGED permissions
       \/ \E r \in Roles : /\ permissions' = [permissions EXCEPT ![r] = NoPermissions]
                           /\ UNCHANGED membership
    /\ UNCHANGED <<tables, check>>

Older(entry, absent) ==
    IF entry.left > 1 THEN [entry EXCEPT !.left = @ - 1] ELSE absent

Longer(n) == IF n <= StaleBound THEN n + 1 ELSE n

(* The clock: entries expire, and no check outlasts its deadline. *)
Tick ==
    /\ \A q \in Checks : check[q].wait < MaxDelay \/ At(q, "idle")
    /\ membership' = [u \in Users |-> Older(membership[u], NoMembership)]
    /\ permissions' = [r \in Roles |-> Older(permissions[r], NoPermissions)]
    /\ check' = [q \in Checks |->
           IF At(q, "idle") THEN check[q] ELSE [check[q] EXCEPT !.wait = @ + 1]]
    /\ ago' = [u \in Users |-> [r \in AnyRole |->
                  IF r = roleOf[u] THEN 0 ELSE Longer(ago[u][r])]]
    /\ lapsed' = [r \in Roles |-> [e \in 0..MaxChanges |->
                     IF e = edition[r] THEN 0 ELSE Longer(lapsed[r][e])]]
    /\ UNCHANGED <<roleOf, edition, changes>>

Next ==
    \/ \E q \in Checks :
          \/ \E u \in Users : LookupHit(q, u) \/ LookupMiss(q, u)
          \/ Fetch(q) \/ FetchFails(q) \/ Seed(q) \/ Store(q)
          \/ ReadPermissions(q) \/ Refetch(q) \/ StorePermissions(q) \/ Use(q)
    \/ \E u \in Users, r \in AnyRole : ChangeRole(u, r)
    \/ \E r \in Roles : EditRole(r)
    \/ Invalidate
    \/ Tick

Spec == Init /\ [][Next]_vars

-----------------------------------------------------------------------------
(* Ticks since a set was granted to anyone *)
LapsedFor(set) == IF set.of = "none" THEN 0 ELSE lapsed[set.of][set.edition]

(* What membership-verifier.ts:41-42 promises: a revoked membership or a   *)
(* removed permission keeps working for up to ttlMs.  An entry is gone     *)
(* that long after its value ceased to be true, whichever checks used it   *)
(* and whoever stored it; but for a late one, which was read before the    *)
(* change and stored after it, and has ttlMs from then.                    *)
RevokedWithinTtl ==
    /\ \A u \in Users :
          Present(membership[u]) /\ ~membership[u].late =>
              ago[u][membership[u].value] + membership[u].left <= TtlMs
    /\ \A r \in Roles :
          Present(permissions[r]) /\ ~permissions[r].late =>
              LapsedFor(permissions[r].value) + permissions[r].left <= TtlMs

(* Late entries included, and the time that a check takes to answer: the   *)
(* role an answer rests on was the user's within StaleBound, and the set   *)
(* it grants was some role's.                                              *)
AnswerWasRecentlyTrue ==
    \A q \in Checks :
        At(q, "answered") =>
            /\ ago[check[q].user][check[q].role] <= StaleBound
            /\ LapsedFor(check[q].granted) <= StaleBound

(* As its comment says it, for every entry. *)
RevokedWithinTtlAlways ==
    \A u \in Users :
        Present(membership[u]) => ago[u][membership[u].value] + membership[u].left <= TtlMs

(* What cache-keys.ts:56 says of the entry: it is the permission set of    *)
(* that role.  The second lookup stores the set of the user's role of now  *)
(* under the role the cached membership remembers.                         *)
RoleEntryIsTheRoles ==
    \A r \in Roles : Present(permissions[r]) => permissions[r].value.of = r
=============================================================================
