----------------------- MODULE MembershipCache_proofs -----------------------
(***************************************************************************)
(* How stale an answer of checkMembership can be, for any number of users, *)
(* roles and concurrent checks, any life of an entry and any deadline.     *)
(***************************************************************************)
EXTENDS MembershipCache, TLAPS

(* The types, with what the arithmetic below needs of them. *)
LEMMA Bounds ==
    /\ TtlMs \in Nat /\ MaxDelay \in Nat /\ StaleBound \in Nat
    /\ StaleBound = TtlMs + 2 * MaxDelay
BY CacheAssumption DEF StaleBound

(* The role a user has now was hers just now, and so are the permissions   *)
(* of a role; every edit is one of the changes.                            *)
NowIsRecent ==
    /\ \A u \in Users : ago[u][roleOf[u]] = 0
    /\ \A r \in Roles : lapsed[r][edition[r]] = 0 /\ edition[r] <= changes

(* How long before an entry was stored its value had ceased to be true *)
Lateness(entry) == IF entry.late THEN MaxDelay ELSE 0

(* An entry holds a role that was the user's when its life began, or a     *)
(* check's time earlier if it is late.                                     *)
MembershipInv ==
    \A u \in Users :
        Present(membership[u]) =>
            ago[u][membership[u].value]
                <= Lateness(membership[u]) + (TtlMs - membership[u].left)

(* And a set that was granted then, to whatever role. *)
PermissionsInv ==
    \A r \in Roles :
        Present(permissions[r]) =>
            LapsedFor(permissions[r].value)
                <= Lateness(permissions[r]) + (TtlMs - permissions[r].left)

(* A check that has read role or permissions by RPC is as late as it has   *)
(* waited; one that took them from an entry, by the age of the entry more. *)
(* Permissions are looked up for members only.                             *)
CallInv(c) ==
    /\ c.pc \in {"seed", "store"} => ago[c.user][c.role] <= c.wait
    /\ c.pc \in {"readPermissions", "refetch", "storePermissions", "answered"} =>
          ago[c.user][c.role] <= MaxDelay + TtlMs + c.wait
    /\ c.pc \in {"readPermissions", "refetch", "storePermissions"} =>
          c.role \in Roles
    /\ c.pc \in {"seed", "store", "storePermissions"} =>
          LapsedFor(c.granted) <= c.wait
    /\ c.pc = "answered" => LapsedFor(c.granted) <= MaxDelay + TtlMs + c.wait

CheckInv == \A q \in Checks : CallInv(check[q])

CacheInv == TypeOK /\ NowIsRecent /\ MembershipInv /\ PermissionsInv /\ CheckInv

-----------------------------------------------------------------------------
(* What is stored, and what is absent, are entries. *)
LEMMA EntryTypes ==
    /\ EmptySet \in Sets
    /\ NoMembership \in Entries(AnyRole) /\ NoPermissions \in Entries(Sets)
    /\ ~Present(NoMembership) /\ ~Present(NoPermissions)
    /\ \A r \in AnyRole, l \in BOOLEAN : Fresh(r, l) \in Entries(AnyRole)
    /\ \A s \in Sets, l \in BOOLEAN : Fresh(s, l) \in Entries(Sets)
<1>1. EmptySet \in Sets
  BY CacheAssumption DEF EmptySet, Sets, AnyRole
<1>2. 0 \in 0..TtlMs /\ TtlMs \in 0..TtlMs /\ "none" \in AnyRole
  BY Bounds DEF AnyRole
<1> QED
  BY <1>1, <1>2 DEF Entries, NoMembership, NoPermissions, Present, Fresh

LEMMA LatenessType ==
    /\ \A V : \A entry \in Entries(V) :
          Lateness(entry) \in Nat /\ Lateness(entry) <= MaxDelay
    /\ \A entry, other : entry.late = other.late => Lateness(entry) = Lateness(other)
BY Bounds DEF Lateness, Entries

LEMMA FreshEntry ==
    ASSUME NEW v, NEW l \in BOOLEAN
    PROVE  /\ Fresh(v, l).value = v /\ Fresh(v, l).left = TtlMs
           /\ l = TRUE => Lateness(Fresh(v, l)) = MaxDelay
           /\ l = FALSE => Lateness(Fresh(v, l)) = 0
BY DEF Fresh, Lateness

(* A call that has not begun. *)
LEMMA NoCallType == NoCall \in Calls /\ NoCall.pc = "idle" /\ CallInv(NoCall)
<1>1. (CHOOSE u \in Users : TRUE) \in Users
  BY CacheAssumption
<1> QED
  BY <1>1, EntryTypes, Bounds DEF NoCall, Calls, StepNames, AnyRole, CallInv

(* The history of a set is a number of ticks, and no ticks for the set a   *)
(* role grants now.                                                        *)
LEMMA SetHistory ==
    ASSUME TypeOK
    PROVE  /\ \A s \in Sets : LapsedFor(s) \in 0..(StaleBound + 1)
           /\ \A r \in AnyRole : SetOf(r) \in Sets
           /\ NowIsRecent => \A r \in AnyRole : LapsedFor(SetOf(r)) = 0
<1>1. ASSUME NEW s \in Sets
      PROVE  LapsedFor(s) \in 0..(StaleBound + 1)
  <2>1. s.of \in AnyRole /\ s.edition \in 0..MaxChanges
    BY DEF Sets
  <2>2. CASE s.of = "none"
    <3>1. LapsedFor(s) = 0
      BY <2>2 DEF LapsedFor
    <3> QED
      BY <3>1, Bounds
  <2>3. CASE s.of # "none"
    <3>1. s.of \in Roles /\ LapsedFor(s) = lapsed[s.of][s.edition]
      BY <2>1, <2>3 DEF AnyRole, LapsedFor
    <3>2. lapsed[s.of] \in [0..MaxChanges -> 0..(StaleBound + 1)]
      BY <3>1 DEF TypeOK
    <3> QED
      BY <2>1, <3>1, <3>2
  <2> QED
    BY <2>2, <2>3
<1>2. ASSUME NEW r \in AnyRole
      PROVE  /\ SetOf(r) \in Sets
             /\ NowIsRecent => LapsedFor(SetOf(r)) = 0
  <2>1. CASE r = "none"
    BY <2>1, EntryTypes DEF SetOf, EmptySet, LapsedFor
  <2>2. CASE r # "none"
    <3>1. r \in Roles /\ edition[r] \in 0..MaxChanges
      BY <2>2 DEF AnyRole, TypeOK
    <3>2. /\ SetOf(r) \in Sets /\ SetOf(r).of = r
          /\ SetOf(r).edition = edition[r]
      BY <2>2, <3>1 DEF SetOf, Sets
    <3> QED
      BY <2>2, <3>1, <3>2 DEF LapsedFor, NowIsRecent
  <2> QED
    BY <2>1, <2>2
<1> QED
  BY <1>1, <1>2

(* The first of these as a formula, to be primed. *)
SetTypes ==
    TypeOK => \A s \in Sets : LapsedFor(s) \in 0..(StaleBound + 1)

(* After a step a history is a number of ticks as before it. *)
LEMMA SetHistoryNext ==
    TypeOK' => \A s \in Sets : LapsedFor(s)' \in Nat
<1>1. SetTypes
  BY SetHistory DEF SetTypes
<1>2. SetTypes'
  BY <1>1, PTL
<1>3. TypeOK' => \A s \in Sets : LapsedFor(s)' \in 0..(StaleBound + 1)
  BY <1>2 DEF SetTypes
<1> QED
  BY <1>3, Bounds

(* At first there is no entry and no call. *)
LEMMA InitEstablishesInv == Init => CacheInv
<1> SUFFICES ASSUME Init
             PROVE  CacheInv
  OBVIOUS
<1>1. TypeOK
  <2>1. /\ roleOf \in [Users -> AnyRole] /\ changes \in 0..MaxChanges
        /\ edition \in [Roles -> 0..MaxChanges]
    BY CacheAssumption DEF Init
  <2>2. /\ membership \in [Users -> Entries(AnyRole)]
        /\ permissions \in [Roles -> Entries(Sets)]
    BY EntryTypes DEF Init
  <2>3. check \in [Checks -> Calls]
    BY NoCallType DEF Init
  <2>4. /\ ago \in [Users -> [AnyRole -> 0..(StaleBound + 1)]]
        /\ lapsed \in [Roles -> [0..MaxChanges -> 0..(StaleBound + 1)]]
    BY Bounds DEF Init
  <2> QED
    BY <2>1, <2>2, <2>3, <2>4 DEF TypeOK
<1>2. NowIsRecent
  BY <1>1, CacheAssumption DEF Init, TypeOK, NowIsRecent
<1>3. MembershipInv /\ PermissionsInv
  BY EntryTypes DEF Init, MembershipInv, PermissionsInv
<1>4. CheckInv
  BY NoCallType DEF Init, CheckInv
<1> QED
  BY <1>1, <1>2, <1>3, <1>4 DEF CacheInv

-----------------------------------------------------------------------------
(* A step of one check: the tables stay as they are, the others go on      *)
(* where they were.                                                        *)
LEMMA OneCheckMoves ==
    ASSUME CacheInv, NEW q \in Checks, NEW c \in Calls, CallInv(c),
           check' = [check EXCEPT ![q] = c],
           UNCHANGED tables,
           membership' \in [Users -> Entries(AnyRole)], MembershipInv',
           permissions' \in [Roles -> Entries(Sets)], PermissionsInv'
    PROVE  CacheInv'
<1>1. check \in [Checks -> Calls] /\ TypeOK /\ NowIsRecent /\ CheckInv
  BY DEF CacheInv, TypeOK
<1>2. TypeOK' /\ NowIsRecent'
  BY <1>1 DEF TypeOK, NowIsRecent, tables
<1>3. ASSUME NEW d \in Calls, CallInv(d)
      PROVE  /\ d.pc \in {"seed", "store"} => ago'[d.user][d.role] <= d.wait
             /\ d.pc \in {"readPermissions", "refetch", "storePermissions", "answered"} =>
                   ago'[d.user][d.role] <= MaxDelay + TtlMs + d.wait
             /\ d.pc \in {"readPermissions", "refetch", "storePermissions"} =>
                   d.role \in Roles
             /\ d.pc \in {"seed", "store", "storePermissions"} =>
                   LapsedFor(d.granted)' <= d.wait
             /\ d.pc = "answered" =>
                   LapsedFor(d.granted)' <= MaxDelay + TtlMs + d.wait
  BY <1>3 DEF CallInv, LapsedFor, tables
<1>4. CheckInv'
  <2> SUFFICES ASSUME NEW p \in Checks
               PROVE  CallInv(check[p])'
    BY DEF CheckInv
  <2>1. check'[p] \in Calls /\ CallInv(check'[p])
    BY <1>1 DEF CheckInv
  <2> QED
    BY <1>3, <2>1 DEF CallInv, LapsedFor
<1> QED
  BY <1>2, <1>4 DEF CacheInv

(* A set on its way into an entry is as late as its check has waited. *)
LEMMA PermissionsWritten ==
    ASSUME CacheInv, NEW r \in AnyRole, r # "none", NEW s \in Sets,
           LapsedFor(s) <= MaxDelay, SetPermissions(r, s), UNCHANGED tables
    PROVE  permissions' \in [Roles -> Entries(Sets)] /\ PermissionsInv'
<1>1. permissions \in [Roles -> Entries(Sets)] /\ TypeOK /\ PermissionsInv
  BY DEF CacheInv, TypeOK
<1>2. permissions' \in [Roles -> Entries(Sets)]
  BY <1>1, EntryTypes DEF SetPermissions
<1>3. PermissionsInv'
  <2> SUFFICES ASSUME NEW t \in Roles, Present(permissions'[t])
               PROVE  LapsedFor(permissions'[t].value)
                          <= Lateness(permissions'[t]) + (TtlMs - permissions'[t].left)
    BY DEF PermissionsInv, Present, LapsedFor, Lateness, tables
  <2>1. CASE permissions'[t] = permissions[t]
    BY <1>1, <2>1 DEF PermissionsInv
  <2>2. CASE permissions'[t] # permissions[t]
    <3>1. PICK l \in BOOLEAN :
             permissions'[t] = Fresh(s, l) /\ (l = FALSE => s = SetOf(s.of))
      BY <1>1, <2>2 DEF SetPermissions
    <3>2. /\ Fresh(s, l).value = s /\ Fresh(s, l).left = TtlMs
          /\ l = TRUE => Lateness(Fresh(s, l)) = MaxDelay
          /\ l = FALSE => Lateness(Fresh(s, l)) = 0
      BY FreshEntry
    <3>3. LapsedFor(s) \in Nat
      BY <1>1, SetHistory, Bounds
    <3>4. l = FALSE => LapsedFor(s) = 0
      <4>1. s.of \in AnyRole
        BY DEF Sets
      <4> QED
        BY <1>1, <3>1, <4>1, SetHistory DEF CacheInv
    <3>5. CASE l = TRUE
      BY <3>1, <3>2, <3>3, <3>5, Bounds
    <3>6. CASE l = FALSE
      BY <3>1, <3>2, <3>4, <3>6, Bounds
    <3> QED
      BY <3>5, <3>6
  <2> QED
    BY <2>1, <2>2
<1> QED
  BY <1>2, <1>3

(* A step of the first lookup. *)
LEMMA MembershipSteps ==
    ASSUME CacheInv, NEW q \in Checks,
           \/ \E u \in Users : LookupHit(q, u) \/ LookupMiss(q, u)
           \/ Fetch(q) \/ FetchFails(q) \/ Seed(q) \/ Store(q) \/ Use(q)
    PROVE  CacheInv'
<1>0. /\ TypeOK /\ NowIsRecent /\ MembershipInv /\ PermissionsInv
      /\ check \in [Checks -> Calls] /\ CallInv(check[q])
      /\ membership \in [Users -> Entries(AnyRole)]
      /\ permissions \in [Roles -> Entries(Sets)]
      /\ ago \in [Users -> [AnyRole -> 0..(StaleBound + 1)]]
      /\ check[q] \in Calls
  BY DEF CacheInv, TypeOK, CheckInv
<1>00. /\ check[q].user \in Users /\ check[q].role \in AnyRole
       /\ check[q].granted \in Sets /\ check[q].wait \in 0..MaxDelay
       /\ check[q].pc \in StepNames
  BY <1>0 DEF Calls
<1>1. /\ UNCHANGED <<tables, membership>> => MembershipInv'
      /\ UNCHANGED <<tables, permissions>> => PermissionsInv'
  BY <1>0 DEF MembershipInv, PermissionsInv, tables, Present, LapsedFor
<1>2. ASSUME NEW u \in Users, LookupHit(q, u)
      PROVE  CacheInv'
  <2> DEFINE r == membership[u].value
             c == [pc |-> IF r = "none" THEN "answered" ELSE "readPermissions",
                   user |-> u, role |-> r, granted |-> EmptySet, wait |-> 0]
  <2>1. /\ membership[u] \in Entries(AnyRole) /\ Present(membership[u])
        /\ r \in AnyRole /\ membership[u].left \in 0..TtlMs
    BY <1>0, <1>2 DEF LookupHit, Entries
  <2>2. ago[u][r] \in Nat
    BY <1>0, <2>1, Bounds
  <2>3. ago[u][r] <= MaxDelay + TtlMs
    <3>1. ago[u][r] <= Lateness(membership[u]) + (TtlMs - membership[u].left)
      BY <1>0, <2>1 DEF MembershipInv
    <3>2. Lateness(membership[u]) \in Nat /\ Lateness(membership[u]) <= MaxDelay
      BY <2>1, LatenessType
    <3> QED
      BY <2>1, <2>2, <3>1, <3>2, Bounds
  <2>4. LapsedFor(EmptySet) = 0
    BY DEF LapsedFor, EmptySet
  <2>5. c \in Calls
    BY <2>1, EntryTypes, Bounds DEF Calls, StepNames
  <2>6. check' = [check EXCEPT ![q] = c]
    BY <1>2 DEF LookupHit
  <2>7. CallInv(c)
    BY <2>1, <2>2, <2>3, <2>4, Bounds DEF CallInv, AnyRole
  <2> HIDE DEF c, r
  <2> QED
    BY <1>0, <1>1, <1>2, <2>5, <2>6, <2>7, OneCheckMoves
    DEF LookupHit, AfterHit
<1>3. ASSUME NEW u \in Users, LookupMiss(q, u)
      PROVE  CacheInv'
  <2> DEFINE c == [pc |-> "fetch", user |-> u, role |-> "none",
                   granted |-> EmptySet, wait |-> 0]
  <2>1. c \in Calls /\ check' = [check EXCEPT ![q] = c] /\ CallInv(c)
    BY <1>3, EntryTypes, Bounds DEF LookupMiss, Calls, StepNames, AnyRole, CallInv
  <2> HIDE DEF c
  <2> QED
    BY <1>0, <1>1, <1>3, <2>1, OneCheckMoves DEF LookupMiss
<1>4. CASE Fetch(q)
  <2> DEFINE r == roleOf[check[q].user]
             s == SetOf(r)
             d == [check[q] EXCEPT !.pc = "seed", !.role = r]
             e == [d EXCEPT !.granted = s]
             c == [e EXCEPT !.wait = 0]
  <2>1. r \in AnyRole /\ ago[check[q].user][r] = 0
    BY <1>0, <1>00 DEF NowIsRecent, TypeOK
  <2>2. s \in Sets /\ LapsedFor(s) = 0
    BY <1>0, <2>1, SetHistory
  <2>3. check' = [check EXCEPT ![q] = c]
    BY <1>0, <1>4 DEF Fetch
  <2> HIDE DEF r, s
  <2>4. /\ c \in Calls /\ c.pc = "seed" /\ c.user = check[q].user
        /\ c.role = r /\ c.granted = s /\ c.wait = 0
    <3>1. /\ d \in Calls /\ d.pc = "seed" /\ d.user = check[q].user
          /\ d.role = r
      BY <1>0, <2>1 DEF Calls, StepNames
    <3> HIDE DEF d
    <3>2. /\ e \in Calls /\ e.pc = "seed" /\ e.user = check[q].user
          /\ e.role = r /\ e.granted = s
      BY <2>2, <3>1 DEF Calls
    <3>3. 0 \in 0..MaxDelay
      BY Bounds
    <3> HIDE DEF e
    <3> QED
      BY <3>2, <3>3 DEF Calls
  <2> HIDE DEF c
  <2>5. CallInv(c)
    BY <2>1, <2>2, <2>4 DEF CallInv
  <2> QED
    BY <1>0, <1>1, <1>4, <2>3, <2>4, <2>5, OneCheckMoves DEF Fetch
<1>5. CASE FetchFails(q) \/ Use(q)
  BY <1>0, <1>1, <1>5, NoCallType, OneCheckMoves DEF FetchFails, Use, Return
<1>6. CASE Seed(q)
  <2> DEFINE c == [check[q] EXCEPT !.pc = "store"]
  <2>1. /\ check[q].pc = "seed"
        /\ ago[check[q].user][check[q].role] <= check[q].wait
        /\ LapsedFor(check[q].granted) <= check[q].wait
    BY <1>0, <1>6 DEF Seed, At, CallInv
  <2>2. /\ c \in Calls /\ c.pc = "store" /\ c.user = check[q].user
        /\ c.role = check[q].role /\ c.granted = check[q].granted
        /\ c.wait = check[q].wait
    BY <1>0 DEF Calls, StepNames
  <2>3. check' = [check EXCEPT ![q] = c] /\ UNCHANGED <<tables, membership>>
    BY <1>6 DEF Seed, Goto
  <2> HIDE DEF c
  <2>4. CallInv(c)
    BY <2>1, <2>2 DEF CallInv
  <2>5. permissions' \in [Roles -> Entries(Sets)] /\ PermissionsInv'
    <3>1. CASE check[q].role = "none"
      BY <1>0, <1>1, <1>6, <2>3, <3>1 DEF Seed
    <3>2. CASE check[q].role # "none"
      <4>1. LapsedFor(check[q].granted) <= MaxDelay
        BY <1>0, <1>00, <2>1, SetHistory, Bounds
      <4> QED
        BY <1>00, <1>6, <2>3, <3>2, <4>1, PermissionsWritten DEF Seed
    <3> QED
      BY <3>1, <3>2
  <2> QED
    BY <1>0, <1>1, <2>2, <2>3, <2>4, <2>5, OneCheckMoves
<1>7. CASE Store(q)
  <2> DEFINE u == check[q].user
             r == check[q].role
             c == [check[q] EXCEPT !.pc = "answered"]
  <2>1. /\ u \in Users /\ r \in AnyRole /\ check[q].wait \in 0..MaxDelay
        /\ ago[u][r] <= check[q].wait
        /\ LapsedFor(check[q].granted) <= check[q].wait
    BY <1>0, <1>00, <1>7 DEF Store, At, CallInv
  <2>2. ago[u][r] \in Nat /\ LapsedFor(check[q].granted) \in Nat
    BY <1>0, <1>00, SetHistory, Bounds
  <2>3. /\ c \in Calls /\ c.pc = "answered" /\ c.user = u /\ c.role = r
        /\ c.granted = check[q].granted /\ c.wait = check[q].wait
    BY <1>0 DEF Calls, StepNames
  <2>4. /\ check' = [check EXCEPT ![q] = c] /\ UNCHANGED <<tables, permissions>>
        /\ membership' \in {membership,
              [membership EXCEPT ![u] = Fresh(r, r # roleOf[u])]}
    BY <1>7 DEF Store, Goto
  <2> HIDE DEF c, u, r
  <2>5. CallInv(c)
    BY <2>1, <2>2, <2>3, Bounds DEF CallInv
  <2>6. membership' \in [Users -> Entries(AnyRole)]
    BY <1>0, <2>1, <2>4, EntryTypes
  <2>7. MembershipInv'
    <3> SUFFICES ASSUME NEW v \in Users, Present(membership'[v])
                 PROVE  ago[v][membership'[v].value]
                            <= Lateness(membership'[v]) + (TtlMs - membership'[v].left)
      BY <2>4 DEF MembershipInv, Present, Lateness, tables
    <3>1. CASE membership'[v] = membership[v]
      BY <1>0, <3>1 DEF MembershipInv
    <3>2. CASE membership'[v] # membership[v]
      <4>1. PICK l \in BOOLEAN :
               v = u /\ membership'[v] = Fresh(r, l) /\ (l = FALSE => r = roleOf[u])
        BY <1>0, <2>4, <3>2
      <4>2. /\ Fresh(r, l).value = r /\ Fresh(r, l).left = TtlMs
            /\ l = TRUE => Lateness(Fresh(r, l)) = MaxDelay
            /\ l = FALSE => Lateness(Fresh(r, l)) = 0
        BY FreshEntry
      <4>3. l = FALSE => ago[u][r] = 0
        BY <1>0, <2>1, <4>1 DEF NowIsRecent
      <4>4. ago[u][r] <= MaxDelay
        BY <2>1, <2>2, Bounds
      <4>5. CASE l = TRUE
        BY <2>2, <4>1, <4>2, <4>4, <4>5, Bounds
      <4>6. CASE l = FALSE
        BY <4>1, <4>2, <4>3, <4>6, Bounds
      <4> QED
        BY <4>5, <4>6
    <3> QED
      BY <3>1, <3>2
  <2> QED
    BY <1>0, <1>1, <2>3, <2>4, <2>5, <2>6, <2>7, OneCheckMoves
<1> QED
  BY <1>2, <1>3, <1>4, <1>5, <1>6, <1>7

(* A step of the second lookup. *)
LEMMA PermissionsSteps ==
    ASSUME CacheInv, NEW q \in Checks,
           ReadPermissions(q) \/ Refetch(q) \/ StorePermissions(q)
    PROVE  CacheInv'
<1>0. /\ TypeOK /\ NowIsRecent /\ MembershipInv /\ PermissionsInv
      /\ check \in [Checks -> Calls] /\ CallInv(check[q])
      /\ membership \in [Users -> Entries(AnyRole)]
      /\ permissions \in [Roles -> Entries(Sets)]
      /\ ago \in [Users -> [AnyRole -> 0..(StaleBound + 1)]]
      /\ check[q] \in Calls
  BY DEF CacheInv, TypeOK, CheckInv
<1>1. /\ check[q].user \in Users /\ check[q].role \in Roles
      /\ check[q].granted \in Sets /\ check[q].wait \in 0..MaxDelay
      /\ ago[check[q].user][check[q].role] <= MaxDelay + TtlMs + check[q].wait
  BY <1>0 DEF Calls, CallInv, ReadPermissions, Refetch, StorePermissions, At
<1>2. /\ UNCHANGED <<tables, membership>> => MembershipInv'
      /\ UNCHANGED <<tables, permissions>> => PermissionsInv'
  BY <1>0 DEF MembershipInv, PermissionsInv, tables, Present, LapsedFor
<1>3. CASE ReadPermissions(q)
  <2>1. CASE Goto(q, "refetch")
    <3> DEFINE c == [check[q] EXCEPT !.pc = "refetch"]
    <3>1. /\ c \in Calls /\ c.pc = "refetch" /\ c.user = check[q].user
          /\ c.role = check[q].role /\ c.wait = check[q].wait
      BY <1>0 DEF Calls, StepNames
    <3>2. check' = [check EXCEPT ![q] = c]
      BY <2>1 DEF Goto
    <3> HIDE DEF c
    <3>3. CallInv(c)
      BY <1>1, <3>1 DEF CallInv
    <3> QED
      BY <1>0, <1>2, <1>3, <3>1, <3>2, <3>3, OneCheckMoves DEF ReadPermissions
  <2>2. CASE ~Goto(q, "refetch")
    <3> DEFINE e == permissions[check[q].role]
               c == [check[q] EXCEPT !.pc = "answered", !.granted = e.value]
    <3>1. Present(e) /\ check' = [check EXCEPT ![q] = c]
      BY <1>3, <2>2 DEF ReadPermissions
    <3>2. e \in Entries(Sets) /\ e.value \in Sets /\ e.left \in 0..TtlMs
      BY <1>0, <1>1 DEF Entries
    <3>3. LapsedFor(e.value) <= MaxDelay + (TtlMs - e.left)
      <4>1. LapsedFor(e.value) <= Lateness(e) + (TtlMs - e.left)
        BY <1>0, <1>1, <3>1 DEF PermissionsInv
      <4>2. Lateness(e) \in Nat /\ Lateness(e) <= MaxDelay
        BY <3>2, LatenessType
      <4>3. LapsedFor(e.value) \in Nat
        BY <1>0, <3>2, SetHistory, Bounds
      <4> QED
        BY <3>2, <4>1, <4>2, <4>3, Bounds
    <3>4. LapsedFor(e.value) \in Nat
      BY <1>0, <3>2, SetHistory, Bounds
    <3> HIDE DEF e
    <3>5. /\ c \in Calls /\ c.pc = "answered" /\ c.user = check[q].user
          /\ c.role = check[q].role /\ c.wait = check[q].wait
          /\ c.granted = e.value
      BY <1>0, <3>2 DEF Calls, StepNames
    <3> HIDE DEF c
    <3>6. LapsedFor(c.granted) <= MaxDelay + TtlMs + c.wait
      BY <1>1, <3>2, <3>3, <3>4, <3>5, Bounds
    <3>7. CallInv(c)
      BY <1>1, <3>5, <3>6 DEF CallInv
    <3> QED
      BY <1>0, <1>2, <1>3, <3>1, <3>5, <3>7, OneCheckMoves DEF ReadPermissions
  <2> QED
    BY <2>1, <2>2
<1>4. CASE Refetch(q)
  <2> DEFINE s == SetOf(roleOf[check[q].user])
             c == [check[q] EXCEPT !.pc = "storePermissions", !.granted = s]
  <2>1. s \in Sets /\ LapsedFor(s) = 0
    <3>1. roleOf[check[q].user] \in AnyRole
      BY <1>0, <1>1 DEF TypeOK
    <3> QED
      BY <1>0, <3>1, SetHistory
  <2>2. check' = [check EXCEPT ![q] = c]
    BY <1>4 DEF Refetch
  <2> HIDE DEF s
  <2>3. /\ c \in Calls /\ c.pc = "storePermissions" /\ c.user = check[q].user
        /\ c.role = check[q].role /\ c.wait = check[q].wait /\ c.granted = s
    BY <1>0, <2>1 DEF Calls, StepNames
  <2> HIDE DEF c
  <2>4. CallInv(c)
    BY <1>1, <2>1, <2>3, Bounds DEF CallInv
  <2> QED
    BY <1>0, <1>2, <1>4, <2>2, <2>3, <2>4, OneCheckMoves DEF Refetch
<1>5. CASE StorePermissions(q)
  <2> DEFINE c == [check[q] EXCEPT !.pc = "answered"]
  <2>1. LapsedFor(check[q].granted) <= check[q].wait
    BY <1>0, <1>5 DEF StorePermissions, At, CallInv
  <2>2. LapsedFor(check[q].granted) \in Nat
    BY <1>0, <1>1, SetHistory, Bounds
  <2>3. /\ c \in Calls /\ c.pc = "answered" /\ c.user = check[q].user
        /\ c.role = check[q].role /\ c.granted = check[q].granted
        /\ c.wait = check[q].wait
    BY <1>0 DEF Calls, StepNames
  <2>4. /\ check' = [check EXCEPT ![q] = c] /\ UNCHANGED <<tables, membership>>
        /\ SetPermissions(check[q].role, check[q].granted)
    BY <1>5 DEF StorePermissions, Goto
  <2> HIDE DEF c
  <2>5. CallInv(c)
    BY <1>1, <2>1, <2>2, <2>3, Bounds DEF CallInv
  <2>6. permissions' \in [Roles -> Entries(Sets)] /\ PermissionsInv'
    <3>1. check[q].role \in AnyRole /\ check[q].role # "none"
      BY <1>1, CacheAssumption DEF AnyRole
    <3>2. LapsedFor(check[q].granted) <= MaxDelay
      BY <1>1, <2>1, <2>2, Bounds
    <3> QED
      BY <1>1, <2>4, <3>1, <3>2, PermissionsWritten
  <2> QED
    BY <1>0, <1>2, <2>3, <2>4, <2>5, <2>6, OneCheckMoves
<1> QED
  BY <1>3, <1>4, <1>5

-----------------------------------------------------------------------------
(* The environment.  What is recorded ages as fast as the roles and the    *)
(* sets of the past, or slower.                                            *)
LEMMA Ageing ==
    ASSUME CacheInv, Tick
    PROVE  /\ TypeOK' /\ NowIsRecent'
           /\ \A u \in Users, r \in AnyRole :
                 ago[u][r] <= StaleBound => ago'[u][r] <= ago[u][r] + 1
           /\ \A s \in Sets :
                 LapsedFor(s) <= StaleBound => LapsedFor(s)' <= LapsedFor(s) + 1
           /\ \A q \in Checks :
                 \/ check[q].pc = "idle" /\ check'[q] = check[q]
                 \/ /\ check'[q] = [check[q] EXCEPT !.wait = @ + 1]
                    /\ check[q].wait < MaxDelay
<1>0. /\ TypeOK /\ NowIsRecent
      /\ check \in [Checks -> Calls]
      /\ membership \in [Users -> Entries(AnyRole)]
      /\ permissions \in [Roles -> Entries(Sets)]
      /\ roleOf \in [Users -> AnyRole] /\ edition \in [Roles -> 0..MaxChanges]
      /\ ago \in [Users -> [AnyRole -> 0..(StaleBound + 1)]]
      /\ lapsed \in [Roles -> [0..MaxChanges -> 0..(StaleBound + 1)]]
      /\ UNCHANGED <<roleOf, edition, changes>>
  BY DEF CacheInv, TypeOK, Tick
<1>1. ASSUME NEW n \in 0..(StaleBound + 1)
      PROVE  /\ Longer(n) \in 0..(StaleBound + 1)
             /\ n <= StaleBound => Longer(n) = n + 1
  BY Bounds DEF Longer
<1>2. /\ ago' \in [Users -> [AnyRole -> 0..(StaleBound + 1)]]
      /\ \A u \in Users : ago'[u][roleOf[u]] = 0
      /\ \A u \in Users, r \in AnyRole :
            ago[u][r] <= StaleBound => ago'[u][r] <= ago[u][r] + 1
  <2>1. ago' = [u \in Users |-> [r \in AnyRole |->
                  IF r = roleOf[u] THEN 0 ELSE Longer(ago[u][r])]]
    BY DEF Tick
  <2>2. ASSUME NEW u \in Users
        PROVE  /\ ago'[u] \in [AnyRole -> 0..(StaleBound + 1)]
               /\ ago'[u][roleOf[u]] = 0
               /\ \A r \in AnyRole :
                     ago[u][r] <= StaleBound => ago'[u][r] <= ago[u][r] + 1
    <3>1. ago'[u] = [r \in AnyRole |->
                        IF r = roleOf[u] THEN 0 ELSE Longer(ago[u][r])]
      BY <2>1
    <3>2. ago[u] \in [AnyRole -> 0..(StaleBound + 1)] /\ roleOf[u] \in AnyRole
      BY <1>0
    <3>3. \A r \in AnyRole : ago[u][r] \in 0..(StaleBound + 1)
      BY <3>2
    <3> QED
      BY <1>1, <3>1, <3>2, <3>3, Bounds
  <2> QED
    BY <2>1, <2>2
<1>3. /\ lapsed' \in [Roles -> [0..MaxChanges -> 0..(StaleBound + 1)]]
      /\ \A r \in Roles : lapsed'[r][edition[r]] = 0
      /\ \A r \in Roles, e \in 0..MaxChanges :
            lapsed[r][e] <= StaleBound => lapsed'[r][e] <= lapsed[r][e] + 1
  <2>1. lapsed' = [r \in Roles |-> [e \in 0..MaxChanges |->
                     IF e = edition[r] THEN 0 ELSE Longer(lapsed[r][e])]]
    BY DEF Tick
  <2>2. ASSUME NEW r \in Roles
        PROVE  /\ lapsed'[r] \in [0..MaxChanges -> 0..(StaleBound + 1)]
               /\ lapsed'[r][edition[r]] = 0
               /\ \A e \in 0..MaxChanges :
                     lapsed[r][e] <= StaleBound => lapsed'[r][e] <= lapsed[r][e] + 1
    <3>1. lapsed'[r] = [e \in 0..MaxChanges |->
                           IF e = edition[r] THEN 0 ELSE Longer(lapsed[r][e])]
      BY <2>1
    <3>2. /\ lapsed[r] \in [0..MaxChanges -> 0..(StaleBound + 1)]
          /\ edition[r] \in 0..MaxChanges
      BY <1>0
    <3>3. ASSUME NEW e \in 0..MaxChanges
          PROVE  /\ lapsed'[r][e] \in 0..(StaleBound + 1)
                 /\ lapsed[r][e] <= StaleBound => lapsed'[r][e] <= lapsed[r][e] + 1
      <4>1. /\ lapsed[r][e] \in 0..(StaleBound + 1)
            /\ lapsed'[r][e] =
                  IF e = edition[r] THEN 0 ELSE Longer(lapsed[r][e])
        BY <3>1, <3>2
      <4> QED
        BY <1>1, <4>1, Bounds
    <3>4. lapsed'[r][edition[r]] = 0
      BY <3>1, <3>2
    <3> QED
      BY <3>1, <3>3, <3>4
  <2> QED
    BY <2>1, <2>2
<1>4. ASSUME NEW s \in Sets
      PROVE  LapsedFor(s) <= StaleBound => LapsedFor(s)' <= LapsedFor(s) + 1
  <2>1. s.of \in AnyRole /\ s.edition \in 0..MaxChanges
    BY DEF Sets
  <2> QED
    BY <1>3, <2>1 DEF LapsedFor, AnyRole
<1>5. ASSUME NEW V, NEW entry \in Entries(V), NEW absent \in Entries(V)
      PROVE  Older(entry, absent) \in Entries(V)
  BY Bounds DEF Older, Entries
<1>6. /\ membership' \in [Users -> Entries(AnyRole)]
      /\ permissions' \in [Roles -> Entries(Sets)]
  BY <1>0, <1>5, EntryTypes DEF Tick
<1>7. ASSUME NEW q \in Checks
      PROVE  /\ check'[q] \in Calls
             /\ \/ check[q].pc = "idle" /\ check'[q] = check[q]
                \/ /\ check'[q] = [check[q] EXCEPT !.wait = @ + 1]
                   /\ check[q].wait < MaxDelay
  <2>1. check[q] \in Calls /\ check[q].wait \in 0..MaxDelay
    BY <1>0 DEF Calls
  <2>2. CASE check[q].pc = "idle"
    BY <2>1, <2>2 DEF Tick, At
  <2>3. CASE check[q].pc # "idle"
    <3>1. /\ check'[q] = [check[q] EXCEPT !.wait = @ + 1]
          /\ check[q].wait < MaxDelay
      BY <2>3 DEF Tick, At
    <3>2. check[q].wait + 1 \in 0..MaxDelay
      BY <2>1, <3>1, Bounds
    <3> QED
      BY <2>1, <3>1, <3>2 DEF Calls
  <2> QED
    BY <2>2, <2>3
<1>8. check' \in [Checks -> Calls]
  <2>1. check' = [q \in Checks |-> check'[q]]
    BY DEF Tick
  <2> QED
    BY <1>7, <2>1
<1>9. TypeOK' /\ NowIsRecent'
  BY <1>0, <1>2, <1>3, <1>6, <1>8 DEF TypeOK, NowIsRecent
<1> QED
  BY <1>2, <1>4, <1>7, <1>9

(* The clock keeps the invariant: an entry has one tick less to live. *)
LEMMA TickPreservesInv == CacheInv /\ Tick => CacheInv'
<1> SUFFICES ASSUME CacheInv, Tick
             PROVE  CacheInv'
  OBVIOUS
<1>0. /\ TypeOK /\ MembershipInv /\ PermissionsInv
      /\ check \in [Checks -> Calls] /\ TypeOK'
      /\ membership \in [Users -> Entries(AnyRole)]
      /\ permissions \in [Roles -> Entries(Sets)]
  BY Ageing DEF CacheInv, TypeOK
<1>1. ASSUME NEW V, NEW entry \in Entries(V), NEW absent, ~Present(absent),
             Present(Older(entry, absent))
      PROVE  /\ Older(entry, absent).value = entry.value
             /\ Lateness(Older(entry, absent)) = Lateness(entry)
             /\ Lateness(entry) \in Nat /\ Lateness(entry) <= MaxDelay
             /\ Older(entry, absent).left = entry.left - 1
             /\ Present(entry) /\ entry.left \in 0..TtlMs /\ entry.value \in V
  BY <1>1, Bounds DEF Older, Entries, Present, Lateness
<1>2. ASSUME NEW n \in Nat, NEW m \in Nat, NEW left \in 0..TtlMs,
             NEW k \in Nat, k <= MaxDelay,
             n <= k + (TtlMs - left), n <= StaleBound => m <= n + 1
      PROVE  m <= k + (TtlMs - (left - 1))
  BY <1>2, Bounds
<1>3. MembershipInv'
  <2> SUFFICES ASSUME NEW u \in Users, Present(membership'[u])
               PROVE  ago'[u][membership'[u].value]
                          <= Lateness(membership'[u]) + (TtlMs - membership'[u].left)
    BY DEF MembershipInv, Present, Lateness
  <2> DEFINE r == membership[u].value
             left == membership[u].left
             k == Lateness(membership[u])
  <2>1. membership'[u] = Older(membership[u], NoMembership)
    BY DEF Tick
  <2>2. /\ r \in AnyRole /\ left \in 0..TtlMs /\ Present(membership[u])
        /\ membership'[u].value = r /\ membership'[u].left = left - 1
        /\ Lateness(membership'[u]) = k /\ k \in Nat /\ k <= MaxDelay
    BY <1>0, <1>1, <2>1, EntryTypes
  <2>3. ago[u][r] <= k + (TtlMs - left)
    BY <1>0, <2>2 DEF MembershipInv
  <2>4. ago[u][r] \in Nat /\ ago'[u][r] \in Nat
    BY <1>0, <2>2, Bounds DEF TypeOK
  <2>5. ago[u][r] <= StaleBound => ago'[u][r] <= ago[u][r] + 1
    BY <2>2, Ageing
  <2> HIDE DEF r, left, k
  <2> QED
    BY <1>2, <2>2, <2>3, <2>4, <2>5
<1>4. PermissionsInv'
  <2> SUFFICES ASSUME NEW t \in Roles, Present(permissions'[t])
               PROVE  LapsedFor(permissions[t].value)'
                          <= Lateness(permissions'[t]) + (TtlMs - permissions'[t].left)
    BY DEF PermissionsInv, Present, Lateness
  <2> DEFINE s == permissions[t].value
             left == permissions[t].left
             k == Lateness(permissions[t])
  <2>1. permissions'[t] = Older(permissions[t], NoPermissions)
    BY DEF Tick
  <2>2. /\ s \in Sets /\ left \in 0..TtlMs /\ Present(permissions[t])
        /\ permissions'[t].value = s /\ permissions'[t].left = left - 1
        /\ Lateness(permissions'[t]) = k /\ k \in Nat /\ k <= MaxDelay
    BY <1>0, <1>1, <2>1, EntryTypes
  <2>3. LapsedFor(s) <= k + (TtlMs - left)
    BY <1>0, <2>2 DEF PermissionsInv
  <2> HIDE DEF left, k
  <2>4. PICK z \in Sets : z = s
    BY <2>2
  <2>5. LapsedFor(permissions[t].value)' = LapsedFor(z)'
    BY <2>2, <2>4 DEF LapsedFor
  <2> HIDE DEF s
  <2>6. LapsedFor(z) \in Nat /\ LapsedFor(z)' \in Nat
    BY <1>0, SetHistory, SetHistoryNext, Bounds
  <2>7. LapsedFor(z) <= StaleBound => LapsedFor(z)' <= LapsedFor(z) + 1
    BY Ageing
  <2> QED
    BY <1>2, <2>2, <2>3, <2>4, <2>5, <2>6, <2>7
<1>5. CheckInv'
  <2> SUFFICES ASSUME NEW q \in Checks
               PROVE  CallInv(check[q])'
    BY DEF CheckInv
  <2> DEFINE c == check[q]
  <2>1. /\ c \in Calls /\ c.user \in Users /\ c.role \in AnyRole
        /\ c.granted \in Sets /\ c.wait \in Nat /\ CallInv(c)
    BY <1>0, Bounds DEF Calls, CacheInv, CheckInv
  <2>2. PICK z \in Sets : z = c.granted
    BY <2>1
  <2>3. CASE c.pc = "idle"
    <3>1. check'[q].pc = "idle"
      BY <2>1, <2>3, Ageing DEF Calls
    <3> QED
      BY <3>1 DEF CallInv
  <2>4. CASE c.pc # "idle"
    <3>1. /\ check'[q].pc = c.pc /\ check'[q].user = c.user
          /\ check'[q].role = c.role /\ check'[q].granted = z
          /\ check'[q].wait = c.wait + 1 /\ c.wait < MaxDelay
      BY <2>1, <2>2, <2>4, Ageing DEF Calls
    <3>2. /\ ago[c.user][c.role] \in Nat /\ ago'[c.user][c.role] \in Nat
          /\ ago[c.user][c.role] <= StaleBound =>
                ago'[c.user][c.role] <= ago[c.user][c.role] + 1
      <4>1. /\ ago[c.user] \in [AnyRole -> 0..(StaleBound + 1)]
            /\ ago'[c.user] \in [AnyRole -> 0..(StaleBound + 1)]
        BY <1>0, <2>1 DEF TypeOK
      <4>2. /\ ago[c.user][c.role] \in 0..(StaleBound + 1)
            /\ ago'[c.user][c.role] \in 0..(StaleBound + 1)
        BY <2>1, <4>1
      <4> QED
        BY <2>1, <4>2, Ageing, Bounds
    <3>3. /\ LapsedFor(z) \in Nat /\ LapsedFor(z)' \in Nat
      BY <1>0, SetHistory, SetHistoryNext, Bounds
    <3>4. LapsedFor(z) <= StaleBound => LapsedFor(z)' <= LapsedFor(z) + 1
      BY Ageing
    <3>5. LapsedFor(check[q].granted)' = LapsedFor(z)'
      BY <3>1 DEF LapsedFor
    <3>6. ASSUME NEW n \in Nat, NEW m \in Nat, NEW w \in Nat, w < MaxDelay,
                 n <= StaleBound => m <= n + 1
          PROVE  /\ n <= w => m <= w + 1
                 /\ n <= MaxDelay + TtlMs + w => m <= MaxDelay + TtlMs + (w + 1)
      BY <3>6, Bounds
    <3>7. /\ ago[c.user][c.role] <= c.wait => ago'[c.user][c.role] <= c.wait + 1
          /\ ago[c.user][c.role] <= MaxDelay + TtlMs + c.wait =>
                ago'[c.user][c.role] <= MaxDelay + TtlMs + (c.wait + 1)
          /\ LapsedFor(z) <= c.wait => LapsedFor(z)' <= c.wait + 1
          /\ LapsedFor(z) <= MaxDelay + TtlMs + c.wait =>
                LapsedFor(z)' <= MaxDelay + TtlMs + (c.wait + 1)
      BY <2>1, <3>1, <3>2, <3>3, <3>4, <3>6
    <3>8. CallInv(c) /\ z = c.granted
      BY <2>1, <2>2
    <3> HIDE DEF c
    <3> QED
      BY <3>1, <3>5, <3>7, <3>8 DEF CallInv
  <2> QED
    BY <2>3, <2>4
<1> QED
  BY <1>3, <1>4, <1>5, Ageing DEF CacheInv

(* What holds of the tables after a change of them. *)
NothingOlder ==
    /\ TypeOK' /\ NowIsRecent'
    /\ \A u \in Users, r \in AnyRole : ago'[u][r] <= ago[u][r]
    /\ \A r \in Roles, e \in 0..MaxChanges : lapsed'[r][e] <= lapsed[r][e]

(* A change of the tables makes something recent, and nothing older. *)
LEMMA ChangePreservesInv ==
    ASSUME CacheInv,
           \/ \E u \in Users, r \in AnyRole : ChangeRole(u, r)
           \/ \E r \in Roles : EditRole(r)
    PROVE  CacheInv'
<1>0. /\ TypeOK /\ NowIsRecent /\ MembershipInv /\ PermissionsInv /\ CheckInv
      /\ check \in [Checks -> Calls]
      /\ membership \in [Users -> Entries(AnyRole)]
      /\ permissions \in [Roles -> Entries(Sets)]
      /\ roleOf \in [Users -> AnyRole] /\ edition \in [Roles -> 0..MaxChanges]
      /\ ago \in [Users -> [AnyRole -> 0..(StaleBound + 1)]]
      /\ lapsed \in [Roles -> [0..MaxChanges -> 0..(StaleBound + 1)]]
      /\ changes \in 0..MaxChanges /\ changes < MaxChanges
      /\ changes' = changes + 1
      /\ UNCHANGED <<membership, permissions, check>>
  BY DEF CacheInv, TypeOK, ChangeRole, EditRole, Change
<1>00. /\ \A v \in Users, s \in AnyRole : ago[v][s] \in Nat
       /\ \A s \in Roles, e \in 0..MaxChanges : lapsed[s][e] \in Nat
       /\ \A s \in Roles : edition[s] \in Nat /\ edition[s] <= changes
       /\ changes \in Nat /\ changes' \in 0..MaxChanges /\ MaxChanges \in Nat
  <2>1. \A v \in Users : ago[v] \in [AnyRole -> 0..(StaleBound + 1)]
    BY <1>0
  <2>2. \A s \in Roles : lapsed[s] \in [0..MaxChanges -> 0..(StaleBound + 1)]
    BY <1>0
  <2>3. \A s \in Roles : edition[s] \in 0..MaxChanges /\ edition[s] <= changes
    BY <1>0 DEF NowIsRecent
  <2> QED
    BY <1>0, <2>1, <2>2, <2>3, Bounds, CacheAssumption
<1>1. NothingOlder
  <2>1. ASSUME NEW u \in Users, NEW r \in AnyRole, ChangeRole(u, r)
        PROVE  NothingOlder
    <3>1. /\ roleOf' = [roleOf EXCEPT ![u] = r] /\ ago' = [ago EXCEPT ![u][r] = 0]
          /\ UNCHANGED <<edition, lapsed>>
      BY <2>1 DEF ChangeRole
    <3>2. /\ roleOf' \in [Users -> AnyRole]
          /\ ago' \in [Users -> [AnyRole -> 0..(StaleBound + 1)]]
          /\ \A v \in Users : ago'[v][roleOf'[v]] = 0
          /\ \A v \in Users, s \in AnyRole : ago'[v][s] <= ago[v][s]
      BY <1>0, <3>1, Bounds DEF NowIsRecent
    <3>3. changes' \in 0..MaxChanges /\ \A s \in Roles : edition[s] <= changes'
      BY <1>0, <1>00
    <3>4. \A s \in Roles, e \in 0..MaxChanges : lapsed'[s][e] <= lapsed[s][e]
      BY <1>00, <3>1
    <3> QED
      BY <1>0, <3>1, <3>2, <3>3, <3>4 DEF NothingOlder, TypeOK, NowIsRecent
  <2>2. ASSUME NEW r \in Roles, EditRole(r)
        PROVE  NothingOlder
    <3>1. /\ edition' = [edition EXCEPT ![r] = @ + 1]
          /\ lapsed' = [lapsed EXCEPT ![r][edition[r] + 1] = 0]
          /\ UNCHANGED <<roleOf, ago>>
      BY <2>2 DEF EditRole
    <3>2. edition[r] + 1 \in 0..MaxChanges /\ edition[r] + 1 <= changes'
          /\ changes' \in 0..MaxChanges
      <4>1. /\ edition[r] \in Nat /\ edition[r] <= changes /\ changes \in Nat
            /\ changes < MaxChanges /\ changes' = changes + 1 /\ MaxChanges \in Nat
        BY <1>0, <1>00
      <4> QED
        BY <4>1
    <3>3. /\ edition' \in [Roles -> 0..MaxChanges]
          /\ \A s \in Roles : edition'[s] <= changes'
      <4>1. ASSUME NEW s \in Roles
            PROVE  edition'[s] \in 0..MaxChanges /\ edition'[s] <= changes'
        <5>1. edition'[s] = IF s = r THEN edition[r] + 1 ELSE edition[s]
          BY <1>0, <3>1
        <5> QED
          <6>1. /\ edition[s] \in 0..MaxChanges /\ edition[s] <= changes
                /\ changes \in Nat /\ changes' = changes + 1
            BY <1>0, <1>00
          <6> QED
            BY <3>2, <5>1, <6>1
      <4> QED
        BY <1>0, <3>1, <4>1
    <3>4. /\ lapsed' \in [Roles -> [0..MaxChanges -> 0..(StaleBound + 1)]]
          /\ \A s \in Roles : lapsed'[s][edition'[s]] = 0
          /\ \A s \in Roles, e \in 0..MaxChanges : lapsed'[s][e] <= lapsed[s][e]
      <4>1. \A s \in Roles : edition'[s] = IF s = r THEN edition[r] + 1 ELSE edition[s]
        BY <1>0, <3>1
      <4>2. ASSUME NEW s \in Roles
            PROVE  /\ lapsed[s] \in [0..MaxChanges -> 0..(StaleBound + 1)]
                   /\ lapsed'[s] = IF s = r
                                   THEN [lapsed[r] EXCEPT ![edition[r] + 1] = 0]
                                   ELSE lapsed[s]
        BY <1>0, <3>1
      <4>3. ASSUME NEW s \in Roles
            PROVE  /\ lapsed'[s] \in [0..MaxChanges -> 0..(StaleBound + 1)]
                   /\ lapsed'[s][edition'[s]] = 0
                   /\ \A e \in 0..MaxChanges : lapsed'[s][e] <= lapsed[s][e]
        <5>1. CASE s = r
          <6>1. lapsed'[s] = [lapsed[s] EXCEPT ![edition[s] + 1] = 0]
            BY <4>2, <5>1
          <6>2. edition'[s] = edition[s] + 1
            BY <4>1, <5>1
          <6>3. lapsed'[s] \in [0..MaxChanges -> 0..(StaleBound + 1)]
            <7>1. 0 \in 0..(StaleBound + 1)
              BY Bounds
            <7>2. lapsed[s] \in [0..MaxChanges -> 0..(StaleBound + 1)]
              BY <4>2
            <7> QED
              BY <6>1, <7>1, <7>2
          <6>4. lapsed'[s][edition'[s]] = 0
            BY <3>2, <4>2, <5>1, <6>1, <6>2
          <6>5. \A e \in 0..MaxChanges : lapsed'[s][e] <= lapsed[s][e]
            <7>1. ASSUME NEW e \in 0..MaxChanges
                  PROVE  lapsed'[s][e] = 0 \/ lapsed'[s][e] = lapsed[s][e]
              BY <4>2, <6>1
            <7>2. \A e \in 0..MaxChanges : lapsed[s][e] \in Nat
              BY <1>00
            <7> QED
              BY <7>1, <7>2
          <6> QED
            BY <6>3, <6>4, <6>5
        <5>2. CASE s # r
          <6>1. lapsed'[s] = lapsed[s] /\ edition'[s] = edition[s]
            BY <4>1, <4>2, <5>2
          <6>2. \A e \in 0..MaxChanges : lapsed[s][e] \in Nat
            BY <1>00
          <6>3. lapsed[s][edition[s]] = 0
            BY <1>0 DEF NowIsRecent
          <6>4. \A e \in 0..MaxChanges : lapsed'[s][e] <= lapsed[s][e]
            BY <6>1, <6>2
          <6> QED
            BY <4>2, <6>1, <6>3, <6>4
        <5> QED
          BY <5>1, <5>2
      <4>4. lapsed' = [s \in Roles |-> lapsed'[s]]
        BY <1>0, <3>1
      <4> QED
        BY <4>3, <4>4
    <3>5. \A u \in Users, s \in AnyRole : ago'[u][s] <= ago[u][s]
      BY <1>00, <3>1
    <3> QED
      BY <1>0, <3>1, <3>2, <3>3, <3>4, <3>5 DEF NothingOlder, TypeOK, NowIsRecent
  <2> QED
    BY <2>1, <2>2
<1>2. ASSUME NEW s \in Sets
      PROVE  LapsedFor(s)' <= LapsedFor(s)
  <2>1. s.of \in AnyRole /\ s.edition \in 0..MaxChanges
    BY DEF Sets
  <2> QED
    BY <1>1, <2>1 DEF LapsedFor, AnyRole, NothingOlder
<1>3. /\ \A u \in Users, r \in AnyRole : ago[u][r] \in Nat /\ ago'[u][r] \in Nat
      /\ \A s \in Sets : LapsedFor(s) \in Nat
      /\ \A s \in Sets : LapsedFor(s)' \in Nat
  <2>1. \A s \in Sets : LapsedFor(s) \in Nat
    BY <1>0, SetHistory, Bounds
  <2>2. \A s \in Sets : LapsedFor(s)' \in Nat
    BY <1>1, SetHistoryNext DEF NothingOlder
  <2>3. \A u \in Users, r \in AnyRole : ago[u][r] \in Nat /\ ago'[u][r] \in Nat
    BY <1>0, <1>1, Bounds DEF TypeOK, NothingOlder
  <2> QED
    BY <2>1, <2>2, <2>3
<1>4. MembershipInv'
  <2> SUFFICES ASSUME NEW v \in Users, Present(membership[v])
               PROVE  ago'[v][membership[v].value]
                          <= Lateness(membership[v]) + (TtlMs - membership[v].left)
    BY <1>0 DEF MembershipInv, Present, Lateness
  <2>1. /\ membership[v].value \in AnyRole /\ membership[v].left \in 0..TtlMs
        /\ ago[v][membership[v].value]
              <= Lateness(membership[v]) + (TtlMs - membership[v].left)
        /\ Lateness(membership[v]) \in Nat
    BY <1>0, LatenessType DEF MembershipInv, Entries
  <2> QED
    BY <1>1, <1>3, <2>1, Bounds DEF NothingOlder
<1>5. PermissionsInv'
  <2> SUFFICES ASSUME NEW t \in Roles, Present(permissions[t])
               PROVE  LapsedFor(permissions[t].value)'
                          <= Lateness(permissions[t]) + (TtlMs - permissions[t].left)
    BY <1>0 DEF PermissionsInv, Present, Lateness
  <2>1. PICK z \in Sets : z = permissions[t].value
    BY <1>0 DEF Entries
  <2>2. LapsedFor(permissions[t].value)' = LapsedFor(z)'
    BY <1>0, <2>1 DEF LapsedFor
  <2>3. /\ permissions[t].left \in 0..TtlMs
        /\ LapsedFor(z) <= Lateness(permissions[t]) + (TtlMs - permissions[t].left)
        /\ Lateness(permissions[t]) \in Nat
    BY <1>0, <2>1, LatenessType DEF PermissionsInv, Entries
  <2> QED
    BY <1>2, <1>3, <2>2, <2>3, Bounds
<1>6. CheckInv'
  <2> SUFFICES ASSUME NEW q \in Checks
               PROVE  CallInv(check[q])'
    BY DEF CheckInv
  <2>1. /\ check'[q] = check[q] /\ check[q].user \in Users
        /\ check[q].role \in AnyRole /\ check[q].granted \in Sets
        /\ check[q].wait \in Nat /\ CallInv(check[q])
    BY <1>0, Bounds DEF Calls, CheckInv
  <2>2. PICK z \in Sets : z = check[q].granted
    BY <2>1
  <2>3. LapsedFor(check[q].granted)' = LapsedFor(z)'
    BY <2>1, <2>2 DEF LapsedFor
  <2>4. /\ LapsedFor(z)' <= LapsedFor(z) /\ LapsedFor(z) \in Nat
        /\ LapsedFor(z)' \in Nat
    BY <1>2, <1>3
  <2>5. /\ ago'[check[q].user][check[q].role] <= ago[check[q].user][check[q].role]
        /\ ago[check[q].user][check[q].role] \in Nat
        /\ ago'[check[q].user][check[q].role] \in Nat
    BY <1>1, <1>3, <2>1 DEF NothingOlder
  <2> QED
    BY <2>1, <2>2, <2>3, <2>4, <2>5, Bounds DEF CallInv
<1> QED
  BY <1>1, <1>4, <1>5, <1>6 DEF CacheInv, NothingOlder

(* An entry that is deleted says nothing. *)
LEMMA InvalidatePreservesInv == CacheInv /\ Invalidate => CacheInv'
<1> SUFFICES ASSUME CacheInv, Invalidate
             PROVE  CacheInv'
  OBVIOUS
<1>0. /\ TypeOK /\ NowIsRecent /\ MembershipInv /\ PermissionsInv /\ CheckInv
      /\ membership \in [Users -> Entries(AnyRole)]
      /\ permissions \in [Roles -> Entries(Sets)]
      /\ UNCHANGED tables /\ check' = check
  BY DEF CacheInv, TypeOK, Invalidate
<1>1. /\ membership' \in [Users -> Entries(AnyRole)]
      /\ permissions' \in [Roles -> Entries(Sets)]
      /\ \A u \in Users : membership'[u] \in {membership[u], NoMembership}
      /\ \A r \in Roles : permissions'[r] \in {permissions[r], NoPermissions}
  BY <1>0, EntryTypes DEF Invalidate
<1>2. TypeOK' /\ NowIsRecent'
  BY <1>0, <1>1 DEF TypeOK, NowIsRecent, tables
<1>3. MembershipInv'
  <2> SUFFICES ASSUME NEW u \in Users, Present(membership'[u])
               PROVE  ago[u][membership'[u].value]
                          <= Lateness(membership'[u]) + (TtlMs - membership'[u].left)
    BY <1>0 DEF MembershipInv, Present, Lateness, tables
  <2>1. membership'[u] = membership[u]
    BY <1>1, EntryTypes
  <2> QED
    BY <1>0, <2>1 DEF MembershipInv
<1>4. PermissionsInv'
  <2> SUFFICES ASSUME NEW r \in Roles, Present(permissions'[r])
               PROVE  LapsedFor(permissions'[r].value)
                          <= Lateness(permissions'[r]) + (TtlMs - permissions'[r].left)
    BY <1>0 DEF PermissionsInv, Present, Lateness, LapsedFor, tables
  <2>1. permissions'[r] = permissions[r]
    BY <1>1, EntryTypes
  <2> QED
    BY <1>0, <2>1 DEF PermissionsInv
<1>5. CheckInv'
  BY <1>0 DEF CheckInv, CallInv, LapsedFor, tables
<1> QED
  BY <1>2, <1>3, <1>4, <1>5 DEF CacheInv

(* Every step. *)
LEMMA StepPreservesInv == CacheInv /\ [Next]_vars => CacheInv'
<1>1. CacheInv /\ UNCHANGED vars => CacheInv'
  BY DEF vars, tables, CacheInv, TypeOK, NowIsRecent, MembershipInv,
         PermissionsInv, CheckInv, CallInv, LapsedFor, Present
<1> QED
  BY <1>1, MembershipSteps, PermissionsSteps, ChangePreservesInv,
     InvalidatePreservesInv, TickPreservesInv DEF Next

-----------------------------------------------------------------------------
(* The inductive invariant holds in every behaviour. *)
LEMMA InvHolds == Spec => []CacheInv
BY InitEstablishesInv, StepPreservesInv, PTL DEF Spec

(* The variables hold values of their types. *)
THEOREM TypeCorrect == Spec => []TypeOK
<1>1. CacheInv => TypeOK
  BY DEF CacheInv
<1> QED
  BY <1>1, InvHolds, PTL

(* An entry that was true when it was stored is gone TtlMs after it ceased *)
(* to be true, at the latest.                                              *)
THEOREM TrueEntriesKeepTheTtl == Spec => []RevokedWithinTtl
<1>1. CacheInv => RevokedWithinTtl
  <2> SUFFICES ASSUME CacheInv
               PROVE  RevokedWithinTtl
    OBVIOUS
  <2>0. /\ TypeOK /\ MembershipInv /\ PermissionsInv
        /\ membership \in [Users -> Entries(AnyRole)]
        /\ permissions \in [Roles -> Entries(Sets)]
    BY DEF CacheInv, TypeOK
  <2>1. ASSUME NEW u \in Users, Present(membership[u]), ~membership[u].late
        PROVE  ago[u][membership[u].value] + membership[u].left <= TtlMs
    <3>1. /\ membership[u].left \in Nat
          /\ ago[u][membership[u].value] <= 0 + (TtlMs - membership[u].left)
      BY <2>0, <2>1, Bounds DEF MembershipInv, Lateness, Entries
    <3>2. ago[u][membership[u].value] \in Nat
      BY <2>0, Bounds DEF TypeOK, Entries
    <3> QED
      BY <3>1, <3>2, Bounds
  <2>2. ASSUME NEW r \in Roles, Present(permissions[r]), ~permissions[r].late
        PROVE  LapsedFor(permissions[r].value) + permissions[r].left <= TtlMs
    <3>1. /\ permissions[r].left \in Nat /\ permissions[r].value \in Sets
          /\ LapsedFor(permissions[r].value) <= 0 + (TtlMs - permissions[r].left)
      BY <2>0, <2>2, Bounds DEF PermissionsInv, Lateness, Entries
    <3>2. LapsedFor(permissions[r].value) \in Nat
      BY <2>0, <3>1, SetHistory, Bounds
    <3> QED
      BY <3>1, <3>2, Bounds
  <2> QED
    BY <2>1, <2>2 DEF RevokedWithinTtl
<1> QED
  BY <1>1, InvHolds, PTL

(* The role an answer rests on was the user's, and the permissions it      *)
(* gives were some role's, at most the life of an entry and two checks'    *)
(* time ago.                                                               *)
THEOREM AnswersAreRecent == Spec => []AnswerWasRecentlyTrue
<1>1. CacheInv => AnswerWasRecentlyTrue
  <2> SUFFICES ASSUME CacheInv, NEW q \in Checks, At(q, "answered")
               PROVE  /\ ago[check[q].user][check[q].role] <= StaleBound
                      /\ LapsedFor(check[q].granted) <= StaleBound
    BY DEF AnswerWasRecentlyTrue
  <2>1. /\ check[q] \in Calls /\ check[q].wait \in 0..MaxDelay
        /\ ago[check[q].user][check[q].role] \in Nat
    BY Bounds DEF CacheInv, TypeOK, Calls
  <2>2. LapsedFor(check[q].granted) \in Nat
    <3>1. TypeOK /\ check[q].granted \in Sets
      BY <2>1 DEF CacheInv, Calls
    <3> QED
      BY <3>1, SetHistory, Bounds
  <2>3. /\ ago[check[q].user][check[q].role] <= MaxDelay + TtlMs + check[q].wait
        /\ LapsedFor(check[q].granted) <= MaxDelay + TtlMs + check[q].wait
    BY DEF CacheInv, CheckInv, CallInv, At
  <2> QED
    BY <2>1, <2>2, <2>3, Bounds
<1> QED
  BY <1>1, InvHolds, PTL

-----------------------------------------------------------------------------
(* When a role's entry is the role's *)

(* What the entries by user, and a check on its way to an entry by role,   *)
(* know as long as no role changes.                                        *)
EntriesAreNow ==
    \A u \in Users : Present(membership[u]) => membership[u].value = roleOf[u]

CallIsNow(c) ==
    /\ c.pc \in {"seed", "store", "readPermissions", "refetch", "storePermissions"} =>
          c.role = roleOf[c.user]
    /\ c.pc \in {"seed", "storePermissions"} => c.granted.of = c.role

RoleInv ==
    /\ EntriesAreNow
    /\ \A q \in Checks : CallIsNow(check[q])
    /\ RoleEntryIsTheRoles

(* A step of one check that leaves the tables alone *)
LEMMA OneCheckIsNow ==
    ASSUME CacheInv, RoleInv, UNCHANGED roleOf, NEW q \in Checks, NEW c,
           CallIsNow(c), check' = [check EXCEPT ![q] = c]
    PROVE  \A p \in Checks : CallIsNow(check[p])'
<1>1. check \in [Checks -> Calls]
  BY DEF CacheInv, TypeOK
<1>2. ASSUME NEW p \in Checks
      PROVE  check'[p] = c \/ check'[p] = check[p]
  BY <1>1
<1>3. ASSUME NEW p \in Checks
      PROVE  CallIsNow(check[p])'
  <2>1. CallIsNow(check[p])
    BY DEF RoleInv
  <2> QED
    BY <1>2, <2>1 DEF CallIsNow
<1> QED
  BY <1>3

(* A set written under the role that grants it *)
LEMMA RolesSetWritten ==
    ASSUME CacheInv, RoleEntryIsTheRoles, NEW r \in AnyRole, NEW s \in Sets, s.of = r,
           SetPermissions(r, s)
    PROVE  RoleEntryIsTheRoles'
<1>1. permissions \in [Roles -> Entries(Sets)]
  BY DEF CacheInv, TypeOK
<1>2. ASSUME NEW t \in Roles
      PROVE  permissions'[t] = permissions[t] \/ (t = r /\ permissions'[t].value = s)
  <2> DEFINE late == s # SetOf(s.of)
  <2>1. Fresh(s, late).value = s
    BY DEF Fresh
  <2>2. \/ permissions'[t] = permissions[t]
        \/ t = r /\ permissions'[t] = Fresh(s, late)
    BY <1>1 DEF SetPermissions
  <2> QED
    BY <2>1, <2>2
<1> QED
  BY <1>2 DEF RoleEntryIsTheRoles, Present

(* The steps of a check *)
LEMMA CheckKeepsRoles ==
    ASSUME CacheInv, RoleInv, UNCHANGED roleOf, NEW q \in Checks,
           \/ \E u \in Users : LookupHit(q, u) \/ LookupMiss(q, u)
           \/ Fetch(q) \/ FetchFails(q) \/ Seed(q) \/ Store(q)
           \/ ReadPermissions(q) \/ Refetch(q) \/ StorePermissions(q) \/ Use(q)
    PROVE  RoleInv'
<1>0. /\ check[q] \in Calls /\ CallInv(check[q]) /\ CallIsNow(check[q])
      /\ EntriesAreNow /\ RoleEntryIsTheRoles
      /\ membership \in [Users -> Entries(AnyRole)]
      /\ roleOf \in [Users -> AnyRole]
  BY DEF CacheInv, CheckInv, TypeOK, RoleInv
<1>00. /\ check[q].user \in Users /\ check[q].role \in AnyRole
       /\ check[q].granted \in Sets /\ roleOf[check[q].user] \in AnyRole
  BY <1>0 DEF Calls
<1>1. /\ UNCHANGED membership => EntriesAreNow'
      /\ UNCHANGED permissions => RoleEntryIsTheRoles'
  BY <1>0 DEF EntriesAreNow, RoleEntryIsTheRoles, Present
<1>2. ASSUME NEW u \in Users, LookupHit(q, u)
      PROVE  RoleInv'
  <2> DEFINE r == membership[u].value
             c == [pc |-> IF r = "none" THEN "answered" ELSE "readPermissions",
                   user |-> u, role |-> r, granted |-> EmptySet, wait |-> 0]
  <2>1. r = roleOf[u] /\ check' = [check EXCEPT ![q] = c]
    BY <1>0, <1>2 DEF LookupHit, EntriesAreNow
  <2>2. CallIsNow(c)
    BY <2>1 DEF CallIsNow
  <2> HIDE DEF c
  <2> QED
    BY <1>1, <1>2, <2>1, <2>2, OneCheckIsNow DEF LookupHit, AfterHit, RoleInv
<1>3. ASSUME NEW u \in Users, LookupMiss(q, u)
      PROVE  RoleInv'
  <2> DEFINE c == [pc |-> "fetch", user |-> u, role |-> "none",
                   granted |-> EmptySet, wait |-> 0]
  <2>1. check' = [check EXCEPT ![q] = c] /\ CallIsNow(c)
    BY <1>3 DEF LookupMiss, CallIsNow
  <2> HIDE DEF c
  <2> QED
    BY <1>1, <1>3, <2>1, OneCheckIsNow DEF LookupMiss, RoleInv
<1>4. CASE Fetch(q)
  <2> DEFINE r == roleOf[check[q].user]
             d == [check[q] EXCEPT !.pc = "seed", !.role = r]
             e == [d EXCEPT !.granted = SetOf(r)]
             c == [e EXCEPT !.wait = 0]
  <2>1. check' = [check EXCEPT ![q] = c] /\ UNCHANGED <<membership, permissions>>
    BY <1>4 DEF Fetch
  <2>2. SetOf(r).of = r
    BY DEF SetOf, EmptySet
  <2>3. c.user = check[q].user /\ c.role = r /\ c.granted = SetOf(r)
    <3>1. d.user = check[q].user /\ d.role = r /\ d \in Calls
      BY <1>0, <1>00 DEF Calls, StepNames
    <3> HIDE DEF d
    <3>2. SetOf(r) \in Sets
      BY <1>00, SetHistory DEF CacheInv
    <3>3. e.user = check[q].user /\ e.role = r /\ e.granted = SetOf(r) /\ e \in Calls
      BY <3>1, <3>2 DEF Calls
    <3> HIDE DEF e
    <3> QED
      BY <3>3 DEF Calls
  <2> HIDE DEF c
  <2>4. CallIsNow(c)
    BY <2>2, <2>3 DEF CallIsNow
  <2> QED
    BY <1>1, <2>1, <2>4, OneCheckIsNow DEF RoleInv
<1>5. CASE FetchFails(q) \/ Use(q)
  <2>1. check' = [check EXCEPT ![q] = NoCall] /\ UNCHANGED <<membership, permissions>>
    BY <1>5 DEF FetchFails, Use, Return
  <2>2. CallIsNow(NoCall)
    BY DEF CallIsNow, NoCall
  <2> QED
    BY <1>1, <2>1, <2>2, OneCheckIsNow DEF RoleInv
<1>6. CASE Seed(q)
  <2> DEFINE c == [check[q] EXCEPT !.pc = "store"]
  <2>1. check' = [check EXCEPT ![q] = c] /\ UNCHANGED membership /\ check[q].pc = "seed"
    BY <1>6 DEF Seed, Goto, At
  <2>2. c.pc = "store" /\ c.user = check[q].user /\ c.role = check[q].role
    BY <1>0 DEF Calls
  <2> HIDE DEF c
  <2>3. CallIsNow(c) /\ check[q].granted.of = check[q].role
    BY <1>0, <2>1, <2>2 DEF CallIsNow
  <2>4. RoleEntryIsTheRoles'
    BY <1>0, <1>00, <1>1, <1>6, <2>3, RolesSetWritten DEF Seed
  <2> QED
    BY <1>1, <2>1, <2>3, <2>4, OneCheckIsNow DEF RoleInv
<1>7. CASE Store(q)
  <2> DEFINE c == [check[q] EXCEPT !.pc = "answered"]
  <2>1. /\ check' = [check EXCEPT ![q] = c] /\ UNCHANGED permissions
        /\ check[q].role = roleOf[check[q].user]
        /\ membership' \in {membership,
              [membership EXCEPT ![check[q].user] =
                  Fresh(check[q].role, check[q].role # roleOf[check[q].user])]}
    BY <1>0, <1>7 DEF Store, Goto, At, CallIsNow
  <2>2. c.pc = "answered"
    BY <1>0 DEF Calls
  <2> HIDE DEF c
  <2>3. CallIsNow(c)
    BY <2>2 DEF CallIsNow
  <2>4. ASSUME NEW u \in Users
        PROVE  \/ membership'[u] = membership[u]
               \/ membership'[u].value = roleOf[u]
    BY <1>0, <1>00, <2>1 DEF Fresh
  <2>5. EntriesAreNow'
    BY <1>0, <2>4 DEF EntriesAreNow, Present
  <2> QED
    BY <1>1, <2>1, <2>3, <2>5, OneCheckIsNow DEF RoleInv
<1>8. CASE ReadPermissions(q)
  <2>1. PICK s :
           \/ check' = [check EXCEPT ![q] = [check[q] EXCEPT !.pc = "refetch"]]
           \/ check' = [check EXCEPT ![q] =
                           [check[q] EXCEPT !.pc = "answered", !.granted = s]]
    BY <1>8 DEF ReadPermissions, Goto
  <2> DEFINE c == [check[q] EXCEPT !.pc = "refetch"]
             d == [check[q] EXCEPT !.pc = "answered", !.granted = s]
  <2>2. /\ c.pc = "refetch" /\ c.user = check[q].user /\ c.role = check[q].role
        /\ d.pc = "answered"
    BY <1>0 DEF Calls
  <2>3. check[q].role = roleOf[check[q].user]
    BY <1>0, <1>8 DEF ReadPermissions, At, CallIsNow
  <2> HIDE DEF c, d
  <2>4. CallIsNow(c) /\ CallIsNow(d)
    BY <2>2, <2>3 DEF CallIsNow
  <2>5. \A p \in Checks : CallIsNow(check[p])'
    BY <2>1, <2>4, OneCheckIsNow DEF c, d
  <2> QED
    BY <1>1, <1>8, <2>5 DEF ReadPermissions, RoleInv
<1>9. CASE Refetch(q)
  <2> DEFINE s == SetOf(roleOf[check[q].user])
             c == [check[q] EXCEPT !.pc = "storePermissions", !.granted = s]
  <2>1. /\ check' = [check EXCEPT ![q] = c] /\ UNCHANGED <<membership, permissions>>
        /\ check[q].role = roleOf[check[q].user]
    BY <1>0, <1>9 DEF Refetch, At, CallIsNow
  <2>2. s.of = roleOf[check[q].user]
    BY DEF SetOf, EmptySet
  <2> HIDE DEF s
  <2>3. c.user = check[q].user /\ c.role = check[q].role /\ c.granted = s
    BY <1>0 DEF Calls
  <2> HIDE DEF c
  <2>4. CallIsNow(c)
    BY <2>1, <2>2, <2>3 DEF CallIsNow
  <2> QED
    BY <1>1, <2>1, <2>4, OneCheckIsNow DEF RoleInv
<1>10. CASE StorePermissions(q)
  <2> DEFINE c == [check[q] EXCEPT !.pc = "answered"]
  <2>1. /\ check' = [check EXCEPT ![q] = c] /\ UNCHANGED membership
        /\ check[q].granted.of = check[q].role
        /\ SetPermissions(check[q].role, check[q].granted)
    BY <1>0, <1>10 DEF StorePermissions, Goto, At, CallIsNow
  <2>2. c.pc = "answered"
    BY <1>0 DEF Calls
  <2> HIDE DEF c
  <2>3. CallIsNow(c)
    BY <2>2 DEF CallIsNow
  <2>4. RoleEntryIsTheRoles'
    BY <1>0, <1>00, <2>1, RolesSetWritten
  <2> QED
    BY <1>1, <2>1, <2>3, <2>4, OneCheckIsNow DEF RoleInv
<1> QED
  BY <1>2, <1>3, <1>4, <1>5, <1>6, <1>7, <1>8, <1>9, <1>10

(* The entries that the clock or a deletion leaves *)
LEMMA FewerEntries ==
    ASSUME CacheInv, RoleInv, UNCHANGED roleOf, Invalidate \/ Tick
    PROVE  EntriesAreNow' /\ RoleEntryIsTheRoles'
<1>0. /\ EntriesAreNow /\ RoleEntryIsTheRoles
      /\ membership \in [Users -> Entries(AnyRole)]
      /\ permissions \in [Roles -> Entries(Sets)]
  BY DEF CacheInv, TypeOK, RoleInv
<1>1. ASSUME NEW u \in Users
      PROVE  /\ Present(membership'[u]) => Present(membership[u])
             /\ Present(membership'[u]) => membership'[u].value = membership[u].value
  <2>1. membership[u].left \in Nat
    BY <1>0, Bounds DEF Entries
  <2>2. CASE Invalidate
    BY <1>0, <2>2, EntryTypes DEF Invalidate
  <2>3. CASE Tick
    <3>1. membership'[u] = Older(membership[u], NoMembership)
      BY <2>3 DEF Tick
    <3>2. membership[u].left > 1 =>
             [membership[u] EXCEPT !.left = @ - 1].value = membership[u].value
      BY <1>0 DEF Entries
    <3> QED
      BY <2>1, <3>1, <3>2, EntryTypes DEF Older, Present
  <2> QED
    BY <2>2, <2>3
<1>2. ASSUME NEW r \in Roles
      PROVE  /\ Present(permissions'[r]) => Present(permissions[r])
             /\ Present(permissions'[r]) => permissions'[r].value = permissions[r].value
  <2>1. permissions[r].left \in Nat
    BY <1>0, Bounds DEF Entries
  <2>2. CASE Invalidate
    BY <1>0, <2>2, EntryTypes DEF Invalidate
  <2>3. CASE Tick
    <3>1. permissions'[r] = Older(permissions[r], NoPermissions)
      BY <2>3 DEF Tick
    <3>2. permissions[r].left > 1 =>
             [permissions[r] EXCEPT !.left = @ - 1].value = permissions[r].value
      BY <1>0 DEF Entries
    <3> QED
      BY <2>1, <3>1, <3>2, EntryTypes DEF Older, Present
  <2> QED
    BY <2>2, <2>3
<1>3. EntriesAreNow'
  BY <1>0, <1>1 DEF EntriesAreNow, Present
<1>4. RoleEntryIsTheRoles'
  BY <1>0, <1>2 DEF RoleEntryIsTheRoles, Present
<1> QED
  BY <1>3, <1>4

LEMMA StepKeepsRoles ==
    CacheInv /\ RoleInv /\ [Next]_vars /\ UNCHANGED roleOf => RoleInv'
<1> SUFFICES ASSUME CacheInv, RoleInv, [Next]_vars, UNCHANGED roleOf
             PROVE  RoleInv'
  OBVIOUS
<1>1. UNCHANGED check => \A q \in Checks : CallIsNow(check[q])'
  BY DEF RoleInv, CallIsNow
<1>2. UNCHANGED <<membership, permissions, check>> => RoleInv'
  BY <1>1 DEF RoleInv, EntriesAreNow, RoleEntryIsTheRoles, Present
<1>3. CASE Invalidate
  BY <1>1, <1>3, FewerEntries DEF Invalidate, RoleInv
<1>4. CASE Tick
  <2>1. ASSUME NEW q \in Checks
        PROVE  CallIsNow(check[q])'
    <3>1. check[q] \in Calls /\ CallIsNow(check[q])
      BY DEF CacheInv, TypeOK, RoleInv
    <3>2. \/ check'[q] = check[q]
          \/ check'[q] = [check[q] EXCEPT !.wait = @ + 1]
      BY <1>4, Ageing
    <3>3. /\ check'[q].pc = check[q].pc /\ check'[q].user = check[q].user
          /\ check'[q].role = check[q].role /\ check'[q].granted = check[q].granted
      BY <3>1, <3>2 DEF Calls
    <3> QED
      BY <3>1, <3>3 DEF CallIsNow
  <2> QED
    BY <1>4, <2>1, FewerEntries DEF RoleInv
<1>5. ASSUME \/ \E u \in Users, r \in AnyRole : ChangeRole(u, r)
             \/ \E r \in Roles : EditRole(r)
      PROVE  RoleInv'
  BY <1>2, <1>5 DEF ChangeRole, EditRole, Change
<1>6. CASE UNCHANGED vars
  BY <1>2, <1>6 DEF vars
<1> QED
  BY <1>3, <1>4, <1>5, <1>6, CheckKeepsRoles DEF Next

(* As long as no user's role changes, a role's entry is the permission set *)
(* of that role, whoever edits the sets meanwhile: the entry goes wrong    *)
(* only by a change of role under a membership that a cache or a check     *)
(* still remembers.                                                        *)
THEOREM EntriesHoldWhileRolesStay ==
    Spec /\ [][UNCHANGED roleOf]_vars => []RoleEntryIsTheRoles
<1>1. Init => RoleInv
  <2> SUFFICES ASSUME Init
               PROVE  RoleInv
    OBVIOUS
  <2>1. EntriesAreNow
    BY EntryTypes DEF Init, EntriesAreNow
  <2>2. RoleEntryIsTheRoles
    BY EntryTypes DEF Init, RoleEntryIsTheRoles
  <2>3. \A q \in Checks : check[q].pc = "idle"
    BY NoCallType DEF Init
  <2> QED
    BY <2>1, <2>2, <2>3 DEF RoleInv, CallIsNow
<1>2. CacheInv /\ RoleInv /\ [Next]_vars /\ [UNCHANGED roleOf]_vars => RoleInv'
  BY StepKeepsRoles DEF vars, tables
<1>3. RoleInv => RoleEntryIsTheRoles
  BY DEF RoleInv
<1> QED
  BY <1>1, <1>2, <1>3, InvHolds, PTL DEF Spec
=============================================================================
