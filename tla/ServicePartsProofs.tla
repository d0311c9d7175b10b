-------------------------- MODULE ServicePartsProofs --------------------------
(***************************************************************************)
(* Theorems about small parts of the service: the vector collection, the   *)
(* administrator account, the login limit, the chat page's replies and the *)
(* counters of answers; and, with those about the requests and the ranking,*)
(* about all parts together as MCServiceParts runs them.                   *)
(***************************************************************************)
EXTENDS MCServiceParts, RequestSessionsProofs, HybridRankingProofs,
        FiniteSetTheorems, TLAPS

-----------------------------------------------------------------------------
(* The vector collection *)

Kept ==
    Settled /\ UNCHANGED dim
        => Settled' /\ collection.points \subseteq collection'.points

LEMMA CollectionTypesInit == CollectionInit => CollectionTypeOK
BY DEF CollectionInit, CollectionTypeOK, Empty, Dims

LEMMA CollectionTypesStep ==
    CollectionTypeOK /\ [CollectionNext]_collectionVars => CollectionTypeOK'
<1> SUFFICES ASSUME CollectionTypeOK, [CollectionNext]_collectionVars
             PROVE  CollectionTypeOK'
    OBVIOUS
<1> USE DEF CollectionTypeOK, Goes, Dims, Empty
<1>1. CASE UNCHANGED collectionVars
    BY <1>1 DEF collectionVars
<1>2. ASSUME NEW p \in Processes,
             Ensure(p) \/ Use(p) \/ RequestFails(p) \/ Redeploy(p)
      PROVE  CollectionTypeOK'
    <2>1. CASE CheckExists(p) BY <2>1 DEF CheckExists
    <2>2. CASE CheckSize(p) BY <2>2 DEF CheckSize
    <2>3. CASE Drop(p) BY <2>3 DEF Drop
    <2>4. CASE Create(p)
        <3>1. dim[p] \in Dims OBVIOUS
        <3> QED BY <2>4, <3>1 DEF Create
    <2>5. CASE Upsert(p)
        <3>1. CASE Fits(p)
            <4>1. PICK v \in Vectors :
                     collection' = [collection EXCEPT !.points = @ \cup {v}]
                BY <2>5, <3>1 DEF Upsert
            <4>2. collection \in [dim : {OldDim, NewDim}, points : SUBSET Vectors]
                BY <3>1 DEF Fits
            <4> QED BY <2>5, <4>1, <4>2 DEF Upsert
        <3>2. CASE ~Fits(p) BY <2>5, <3>2 DEF Upsert
        <3> QED BY <3>1, <3>2
    <2>6. CASE Query(p) BY <2>6 DEF Query
    <2>7. CASE RequestFails(p) BY <2>7 DEF RequestFails
    <2>8. CASE Redeploy(p) BY <2>8 DEF Redeploy
    <2> QED BY <1>2, <2>1, <2>2, <2>3, <2>4, <2>5, <2>6, <2>7, <2>8 DEF Ensure, Use
<1> QED BY <1>1, <1>2 DEF CollectionNext

LEMMA CollectionStepKeeps ==
    CollectionTypeOK /\ [CollectionNext]_collectionVars => [Kept]_collectionVars
<1> SUFFICES ASSUME CollectionTypeOK, CollectionNext, Settled, UNCHANGED dim
             PROVE  Settled' /\ collection.points \subseteq collection'.points
    BY DEF Kept
<1> USE DEF CollectionTypeOK, Settled, Goes, Dims
<1>1. PICK p \in Processes : Ensure(p) \/ Use(p) \/ RequestFails(p) \/ Redeploy(p)
    BY DEF CollectionNext
<1>2. collection \in [dim : {OldDim, NewDim}, points : SUBSET Vectors]
    OBVIOUS
<1>3. CASE CheckExists(p) BY <1>3 DEF CheckExists
<1>4. CASE CheckSize(p) BY <1>4 DEF CheckSize
<1>5. CASE Drop(p) BY <1>5 DEF Drop
<1>6. CASE Create(p) BY <1>6 DEF Create
<1>7. CASE Upsert(p)
    <2>1. PICK v \in Vectors : collection' = [collection EXCEPT !.points = @ \cup {v}]
        BY <1>7 DEF Upsert, Fits
    <2>2. collection' # NoCollection
        BY <1>2, <2>1, CollectionAssumption
    <2> QED BY <1>2, <1>7, <2>1, <2>2 DEF Upsert
<1>8. CASE Query(p) BY <1>8 DEF Query
<1>9. CASE RequestFails(p) BY <1>9 DEF RequestFails
<1>10. CASE Redeploy(p)
    <2>1. dim' = dim /\ dim'[p] = NewDim /\ dim[p] = OldDim
        BY <1>10 DEF Redeploy
    <2> QED BY <1>10, <2>1 DEF Redeploy
<1> QED BY <1>1, <1>3, <1>4, <1>5, <1>6, <1>7, <1>8, <1>9, <1>10 DEF Ensure, Use

\* ensure_collection "is a no-op if it exists": for any number of processes, no
\* request of any of them drops a collection that fits all.
THEOREM CollectionIsKept == CollectionSpec => FittingCollectionIsKept
<1>1. CollectionInit => CollectionTypeOK
    BY CollectionTypesInit
<1>2. CollectionTypeOK /\ [CollectionNext]_collectionVars => CollectionTypeOK'
    BY CollectionTypesStep
<1>3. CollectionTypeOK /\ [CollectionNext]_collectionVars => [Kept]_collectionVars
    BY CollectionStepKeeps
<1> QED BY <1>1, <1>2, <1>3, PTL DEF CollectionSpec, FittingCollectionIsKept, Kept

-----------------------------------------------------------------------------
(* The login limit *)

\* What was let through since the last restart is still counted.
Counted ==
    \A a \in Addresses : attempts[a] <= MaxLogins * forgotten[a] + taken[a]

LimitInv == LimitTypeOK /\ Counted

LEMMA LimitInvInit == LimitInit => LimitInv
<1> SUFFICES ASSUME LimitInit PROVE LimitInv
    OBVIOUS
<1>1. MaxLogins * 0 = 0
    BY LoginLimitAssumption
<1> QED BY <1>1, LoginLimitAssumption
        DEF LimitInit, LimitInv, LimitTypeOK, Counted, Buckets

LEMMA BucketOfKey ==
    ASSUME NEW c \in Clients, NEW key \in Keys, NEW bearer \in BOOLEAN
    PROVE  RateLimitKey(c, key, bearer) \in Buckets
BY LoginLimitAssumption DEF RateLimitKey, Buckets

LEMMA LimitInvStep == LimitInv /\ [LimitNext]_limitVars => LimitInv'
<1> SUFFICES ASSUME LimitInv, [LimitNext]_limitVars PROVE LimitInv'
    OBVIOUS
<1> USE DEF LimitInv, LimitTypeOK, Counted
<1>1. CASE UNCHANGED limitVars
    BY <1>1 DEF limitVars
<1>2. ASSUME NEW c \in Clients, TryLogin(c) PROVE LimitInv'
    <2>1. PICK key \in Keys, bearer \in BOOLEAN, right \in BOOLEAN :
             LET bucket == RateLimitKey(c, key, bearer)
             IN  /\ taken[bucket] < MaxLogins
                 /\ taken' = [taken EXCEPT ![bucket] = @ + 1]
                 /\ attempts' = IF key = ServiceKey \/ bearer THEN attempts
                                ELSE [attempts EXCEPT ![HomeOf[c]] = @ + 1]
                 /\ tokens' = IF right THEN tokens \cup {c} ELSE tokens
                 /\ UNCHANGED forgotten
        BY <1>2 DEF TryLogin
    <2> DEFINE bucket == RateLimitKey(c, key, bearer)
    <2>2. bucket \in Buckets
        BY BucketOfKey
    <2>3. taken' = [taken EXCEPT ![bucket] = @ + 1] /\ taken[bucket] < MaxLogins
        BY <2>1
    <2>4. taken[bucket] \in 0..MaxLogins /\ taken[bucket] + 1 \in 0..MaxLogins
        BY <2>2, <2>3, LoginLimitAssumption
    <2>5. taken' \in [Buckets -> 0..MaxLogins]
        BY <2>2, <2>3, <2>4
    <2>6. HomeOf[c] \in Addresses
        BY LoginLimitAssumption
    <2>7. attempts' \in [Addresses -> Nat] /\ tokens' \subseteq Clients
        BY <2>1, <2>6
    <2>8. ~(key = ServiceKey \/ bearer) => bucket = HomeOf[c]
        BY DEF RateLimitKey
    <2>9. ASSUME NEW a \in Addresses
          PROVE  attempts'[a] <= MaxLogins * forgotten'[a] + taken'[a]
        <3>1. attempts[a] \in Nat /\ taken[a] \in Nat /\ taken'[a] \in Nat
            BY <2>5, LoginLimitAssumption DEF Buckets
        <3>2. MaxLogins * forgotten[a] \in Nat /\ forgotten' = forgotten
            BY <2>1, LoginLimitAssumption
        <3>3. attempts[a] <= MaxLogins * forgotten[a] + taken[a]
            OBVIOUS
        <3> HIDE DEF bucket
        <3>4. taken'[a] = IF a = bucket THEN taken[a] + 1 ELSE taken[a]
            BY <2>2, <2>3 DEF Buckets
        <3>5. \/ attempts'[a] = attempts[a]
              \/ a = bucket /\ attempts'[a] = attempts[a] + 1
            <4>1. CASE key = ServiceKey \/ bearer
                BY <2>1, <4>1
            <4>2. CASE ~(key = ServiceKey \/ bearer)
                <5>1. attempts' = [attempts EXCEPT ![HomeOf[c]] = @ + 1]
                    BY <2>1, <4>2
                <5>2. bucket = HomeOf[c]
                    BY <2>8, <4>2
                <5> QED BY <5>1, <5>2, <2>6
            <4> QED BY <4>1, <4>2
        <3> QED BY <3>1, <3>2, <3>3, <3>4, <3>5
    <2> QED BY <2>1, <2>5, <2>7, <2>9
<1>3. ASSUME NEW c \in Clients, Expire(c) PROVE LimitInv'
    BY <1>3 DEF Expire
<1>4. ASSUME NEW b \in Buckets, NextWindow(b) PROVE LimitInv'
    <2>1. taken' \in [Buckets -> 0..MaxLogins]
        BY <1>4, LoginLimitAssumption DEF NextWindow
    <2>2. attempts' \in [Addresses -> Nat] /\ forgotten' \in [Addresses -> 0..MaxRestarts]
        BY <1>4, LoginLimitAssumption DEF NextWindow
    <2>3. ASSUME NEW a \in Addresses
          PROVE  attempts'[a] <= MaxLogins * forgotten'[a] + taken'[a]
        <3>1. CASE a = b
            <4>1. attempts'[a] = 0 /\ forgotten'[a] = 0
                BY <1>4, <3>1 DEF NextWindow
            <4>2. taken'[a] \in Nat /\ MaxLogins * 0 = 0
                BY <2>1, <3>1, LoginLimitAssumption
            <4> QED BY <4>1, <4>2
        <3>2. CASE a # b
            <4>1. attempts'[a] = attempts[a] /\ forgotten'[a] = forgotten[a]
                BY <1>4, <3>2 DEF NextWindow
            <4>2. taken'[a] = taken[a]
                BY <1>4, <3>2 DEF NextWindow, Buckets
            <4> QED BY <4>1, <4>2
        <3> QED BY <3>1, <3>2
    <2> QED BY <1>4, <2>1, <2>2, <2>3 DEF NextWindow
<1>5. CASE Restart
    <2>1. taken' \in [Buckets -> 0..MaxLogins]
        BY <1>5, LoginLimitAssumption DEF Restart
    <2>2. forgotten' \in [Addresses -> 0..MaxRestarts]
        BY <1>5, LoginLimitAssumption DEF Restart
    <2>3. ASSUME NEW a \in Addresses
          PROVE  attempts'[a] <= MaxLogins * forgotten'[a] + taken'[a]
        <3>1. attempts'[a] = attempts[a] /\ forgotten'[a] = forgotten[a] + 1
            BY <1>5 DEF Restart
        <3>2. taken'[a] = 0
            BY <1>5 DEF Restart, Buckets
        <3>3. taken[a] \in 0..MaxLogins
            BY DEF Buckets
        <3>4. MaxLogins * (forgotten[a] + 1) = MaxLogins * forgotten[a] + MaxLogins
            BY LoginLimitAssumption
        <3>5. MaxLogins * forgotten[a] \in Nat /\ MaxLogins \in Nat /\ attempts[a] \in Nat
            BY LoginLimitAssumption
        <3>6. attempts[a] <= MaxLogins * forgotten[a] + taken[a]
            OBVIOUS
        <3> QED BY <3>1, <3>2, <3>3, <3>4, <3>5, <3>6
    <2> QED BY <1>5, <2>1, <2>2, <2>3 DEF Restart
<1> QED BY <1>1, <1>2, <1>3, <1>4, <1>5 DEF LimitNext

LEMMA LimitInvLimits == LimitInv => UnverifiedAreLimited
<1> SUFFICES ASSUME LimitInv, NEW a \in Addresses
             PROVE  attempts[a] <= MaxLogins * (1 + forgotten[a])
    BY DEF UnverifiedAreLimited
<1>1. taken[a] \in 0..MaxLogins /\ forgotten[a] \in Nat /\ attempts[a] \in Nat
    BY DEF LimitInv, LimitTypeOK, Buckets
<1>2. MaxLogins * (1 + forgotten[a]) = MaxLogins * forgotten[a] + MaxLogins
    BY <1>1, LoginLimitAssumption
<1>3. MaxLogins * forgotten[a] \in Nat /\ MaxLogins \in Nat
    BY <1>1, LoginLimitAssumption
<1>4. attempts[a] <= MaxLogins * forgotten[a] + taken[a]
    BY DEF LimitInv, Counted
<1> QED BY <1>1, <1>2, <1>3, <1>4

\* rate_limit_key: for any callers, headers and tokens, and any limit, no address
\* gets more unverified guesses in a window than the limit, once for each restart.
THEOREM LoginIsLimited == LimitSpec => []UnverifiedAreLimited
<1>1. LimitInit => LimitInv
    BY LimitInvInit
<1>2. LimitInv /\ [LimitNext]_limitVars => LimitInv'
    BY LimitInvStep
<1>3. LimitInv => UnverifiedAreLimited
    BY LimitInvLimits
<1> QED BY <1>1, <1>2, <1>3, PTL DEF LimitSpec

-----------------------------------------------------------------------------
(* The administrator account *)

\* The account belongs to a run that is over; what a run that has met no other has
\* read is what the account still says.
Accounted ==
    /\ \A o \in Operators : admin[o].report # "none" => admin[o].at = "over"
    /\ latest # NoAccount => admin[latest].at = "over"
    /\ account # NoAccount => admin[account.password].at = "over"
    /\ \A o \in Active \ overlapped : Active = {o}
    /\ \A o \in Operators : admin[o].at = "update" => account # NoAccount
    /\ \A o \in Operators \ overlapped :
          admin[o].at = "update" => admin[o].read = account.role

AccountsInv == AccountsTypeOK /\ Accounted /\ AccountIsAsReported

AdminRun ==
    [at : {"new", "find", "check", "update", "insert", "over"}, role : Role,
     read : Role \cup {NoAccount},
     report : {"none", "created", "updated", "exists", "failed"}]

AccountRow == [password : Operators, role : Role]

\* A run that ends changes nothing but its own record and, if it reports success,
\* the one that did so last.
LEMMA OverFields ==
    ASSUME AccountsTypeOK, NEW o \in Operators,
           NEW report \in {"created", "updated", "exists", "failed"}, Over(o, report)
    PROVE  /\ admin' \in [Operators -> AdminRun]
           /\ latest' \in Operators \cup {NoAccount}
           /\ admin'[o].at = "over" /\ admin'[o].report = report
           /\ admin'[o].role = admin[o].role
           /\ \A p \in Operators : p # o => admin'[p] = admin[p]
           /\ latest' = IF report \in {"created", "updated"} THEN o ELSE latest
<1> DEFINE ended == [admin[o] EXCEPT !.at = "over", !.read = NoAccount, !.report = report]
<1>1. admin \in [Operators -> AdminRun] /\ admin[o] \in AdminRun
    BY DEF AccountsTypeOK, AdminRun
<1>2. admin' = [admin EXCEPT ![o] = ended]
    BY DEF Over
<1>3. ended \in AdminRun /\ ended.at = "over" /\ ended.report = report
      /\ ended.role = admin[o].role
    BY <1>1 DEF AdminRun
<1> HIDE DEF ended
<1>4. admin' \in [Operators -> AdminRun] /\ admin'[o] = ended
    BY <1>1, <1>2, <1>3
<1>5. \A p \in Operators : p # o => admin'[p] = admin[p]
    BY <1>1, <1>2
<1>6. latest' = IF report \in {"created", "updated"} THEN o ELSE latest
    BY DEF Over
<1>7. latest' \in Operators \cup {NoAccount}
    BY <1>6 DEF AccountsTypeOK
<1> QED BY <1>3, <1>4, <1>5, <1>6, <1>7

\* So a step that only moves a run on, from one place to another.
LEMMA MoveFields ==
    ASSUME AccountsTypeOK, NEW o \in Operators, NEW next \in AdminRun,
           admin' = [admin EXCEPT ![o] = next]
    PROVE  /\ admin' \in [Operators -> AdminRun]
           /\ admin'[o] = next
           /\ \A p \in Operators : p # o => admin'[p] = admin[p]
BY DEF AccountsTypeOK, AdminRun

\* A run that ends, whether or not it has written the account.
LEMMA EndKeepsAccounted ==
    ASSUME AccountsInv, NEW o \in Active,
           NEW report \in {"created", "updated", "exists", "failed"},
           Over(o, report), UNCHANGED overlapped,
           \/ UNCHANGED account /\ report \notin {"created", "updated"}
           \/ /\ account' \in AccountRow /\ account'.password = o
              /\ o \notin overlapped => account'.role = admin[o].role
              /\ report # "exists"
    PROVE  AccountsInv'
<1>1. o \in Operators /\ admin[o].at # "over" /\ admin[o].report = "none"
    BY DEF Active, AccountsInv, Accounted
<1>2. AccountsTypeOK
    BY DEF AccountsInv
<1>3. /\ admin' \in [Operators -> AdminRun]
      /\ latest' \in Operators \cup {NoAccount}
      /\ admin'[o].at = "over" /\ admin'[o].report = report
      /\ admin'[o].role = admin[o].role
      /\ \A p \in Operators : p # o => admin'[p] = admin[p]
      /\ latest' = IF report \in {"created", "updated"} THEN o ELSE latest
    BY <1>1, <1>2, OverFields
<1>4. /\ \A p \in Operators : admin[p].at = "over" => admin'[p] = admin[p]
      /\ \A p \in Operators : admin[p].at = "over" => admin'[p].at = "over"
      /\ o \in Active /\ \A p \in Active' : p \in Active /\ p # o
    BY <1>1, <1>3 DEF Active
<1>5. AccountsTypeOK'
    BY <1>2, <1>3 DEF AccountsTypeOK, AdminRun, AccountRow
<1>6. account \in AccountRow \cup {NoAccount} /\ NoAccount \notin Operators
    BY <1>2, AccountsAssumption DEF AccountsTypeOK, AccountRow
<1>7. account # NoAccount => account \in AccountRow /\ account.password \in Operators
    BY <1>6 DEF AccountRow
<1>8. account' \in AccountRow => account' # NoAccount
    BY AccountsAssumption DEF AccountRow, Role
<1>9. account # NoAccount => account' # NoAccount
    BY <1>8
<1>10. Accounted'
    <2>1. \A p \in Operators : admin'[p].report # "none" => admin'[p].at = "over"
        BY <1>3 DEF AccountsInv, Accounted
    <2>2. latest' # NoAccount => admin'[latest'].at = "over"
        BY <1>1, <1>2, <1>3, <1>4 DEF AccountsInv, Accounted, AccountsTypeOK
    <2>3. account' # NoAccount => admin'[account'.password].at = "over"
        BY <1>3, <1>4, <1>7 DEF AccountsInv, Accounted
    <2>4. \A p \in (Active \ overlapped)' : FALSE
        BY <1>4 DEF AccountsInv, Accounted
    <2>5. \A p \in Operators : admin'[p].at = "update" => account' # NoAccount
        BY <1>3, <1>9 DEF AccountsInv, Accounted
    <2>6. \A p \in (Operators \ overlapped)' : admin'[p].at # "update"
        BY <2>4 DEF Active
    <2> QED BY <2>1, <2>2, <2>3, <2>4, <2>5, <2>6 DEF Accounted
<1>11. AccountIsAsReported'
    <2>1. CASE UNCHANGED account /\ report \notin {"created", "updated"}
        <3>1. latest' = latest
            BY <1>3, <2>1
        <3>2. account # NoAccount => admin'[account.password] = admin[account.password]
            BY <1>4, <1>7 DEF AccountsInv, Accounted
        <3> QED BY <2>1, <3>1, <3>2 DEF AccountsInv, AccountIsAsReported
    <2>2. CASE /\ account' \in AccountRow /\ account'.password = o
               /\ o \notin overlapped => account'.role = admin[o].role
               /\ report # "exists"
        <3>1. account' # NoAccount
            BY <1>8, <2>2
        <3>2. o = latest' \/ admin'[o].report = "failed"
            BY <1>3, <2>2
        <3> QED BY <1>3, <2>2, <3>1, <3>2 DEF AccountIsAsReported
    <2> QED BY <2>1, <2>2
<1> QED BY <1>5, <1>10, <1>11 DEF AccountsInv

\* A run that moves on without ending.
LEMMA MoveKeepsAccounted ==
    ASSUME AccountsInv, NEW o \in Operators, NEW next \in AdminRun,
           admin[o].at # "over", next.at # "over", next.report = "none",
           admin' = [admin EXCEPT ![o] = next], UNCHANGED <<account, latest>>,
           next.at = "update" => account # NoAccount /\ next.read = account.role,
           overlapped \subseteq overlapped', overlapped' \subseteq Operators,
           \A p \in (Active \ overlapped)' : Active' = {p}
    PROVE  AccountsInv'
<1>1. AccountsTypeOK
    BY DEF AccountsInv
<1>2. /\ admin' \in [Operators -> AdminRun]
      /\ admin'[o] = next
      /\ \A p \in Operators : p # o => admin'[p] = admin[p]
    BY <1>1, MoveFields
<1>3. AccountsTypeOK'
    BY <1>1, <1>2 DEF AccountsTypeOK, AdminRun
<1>4. \A p \in Operators : admin[p].at = "over" => admin'[p] = admin[p]
    BY <1>2
<1>5. account # NoAccount => account.password \in Operators
    BY <1>1 DEF AccountsTypeOK
<1>6. Accounted'
    <2>1. \A p \in Operators : admin'[p].report # "none" => admin'[p].at = "over"
        BY <1>2 DEF AccountsInv, Accounted
    <2>2. latest' # NoAccount => admin'[latest'].at = "over"
        BY <1>1, <1>4 DEF AccountsInv, Accounted, AccountsTypeOK
    <2>3. account' # NoAccount => admin'[account'.password].at = "over"
        BY <1>4, <1>5 DEF AccountsInv, Accounted
    <2>4. \A p \in Operators : admin'[p].at = "update" => account' # NoAccount
        BY <1>2 DEF AccountsInv, Accounted
    <2>5. \A p \in (Operators \ overlapped)' :
              admin'[p].at = "update" => admin'[p].read = account'.role
        BY <1>2 DEF AccountsInv, Accounted
    <2> QED BY <2>1, <2>2, <2>3, <2>4, <2>5 DEF Accounted
<1>7. AccountIsAsReported'
    <2>1. account # NoAccount => admin'[account.password] = admin[account.password]
        BY <1>4, <1>5 DEF AccountsInv, Accounted
    <2> QED BY <2>1 DEF AccountsInv, AccountIsAsReported
<1> QED BY <1>3, <1>6, <1>7 DEF AccountsInv

LEMMA AccountsInvInit == AccountsInit => AccountsInv
BY AccountsAssumption DEF AccountsInit, AccountsInv, AccountsTypeOK, Accounted,
   AccountIsAsReported, Active, Role

LEMMA AccountsInvStep ==
    AccountsInv /\ [AccountsNext]_accountVars => AccountsInv'
<1> SUFFICES ASSUME AccountsInv, [AccountsNext]_accountVars
             PROVE  AccountsInv'
    OBVIOUS
<1>0. /\ AccountsTypeOK
      /\ admin \in [Operators -> AdminRun]
      /\ \A o \in Operators : admin[o] \in AdminRun
      /\ \A o \in Operators : admin[o].at # "over" => admin[o].report = "none"
      /\ overlapped \subseteq Operators
    BY DEF AccountsInv, AccountsTypeOK, Accounted, AdminRun
<1>1. CASE UNCHANGED accountVars
    BY <1>1 DEF accountVars, AccountsInv, AccountsTypeOK, Accounted,
       AccountIsAsReported, Active
<1>2. ASSUME NEW o \in Operators, StartAdmin(o) PROVE AccountsInv'
    <2>1. PICK role \in Role :
              admin' = [admin EXCEPT ![o] = [@ EXCEPT !.at = "find", !.role = role]]
        BY <1>2 DEF StartAdmin
    <2> DEFINE next == [admin[o] EXCEPT !.at = "find", !.role = role]
    <2>2. admin[o].at = "new" /\ admin[o].report = "none" /\ admin' = [admin EXCEPT ![o] = next]
        BY <1>0, <1>2, <2>1 DEF StartAdmin
    <2>3. next \in AdminRun /\ next.at = "find" /\ next.report = "none"
        BY <1>0, <2>2 DEF AdminRun
    <2> HIDE DEF next
    <2>4. admin'[o] = next /\ \A p \in Operators : p # o => admin'[p] = admin[p]
        BY <1>0, <2>2, <2>3, MoveFields
    <2>5. Active' = Active \cup {o}
        BY <2>3, <2>4 DEF Active
    <2>6. overlapped' = IF Active = {} THEN overlapped ELSE overlapped \cup Active \cup {o}
        BY <1>2 DEF StartAdmin
    <2>7. overlapped \subseteq overlapped' /\ overlapped' \subseteq Operators
        BY <1>0, <2>6 DEF Active
    <2>8. \A p \in (Active \ overlapped)' : Active' = {p}
        BY <2>5, <2>6
    <2>9. UNCHANGED <<account, latest>>
        BY <1>2 DEF StartAdmin
    <2> QED BY <2>2, <2>3, <2>7, <2>8, <2>9, MoveKeepsAccounted
<1>3. ASSUME NEW o \in Operators, NEW next \in AdminRun,
             admin[o].at \in {"find", "check"}, next.at \in {"check", "update", "insert"},
             next.report = admin[o].report,
             admin' = [admin EXCEPT ![o] = next], UNCHANGED <<account, latest, overlapped>>,
             next.at = "update" => account # NoAccount /\ next.read = account.role
      PROVE  AccountsInv'
    <2>1. admin'[o] = next /\ \A p \in Operators : p # o => admin'[p] = admin[p]
        BY <1>0, <1>3, MoveFields
    <2>2. Active' = Active
        BY <1>3, <2>1 DEF Active
    <2>3. \A p \in (Active \ overlapped)' : Active' = {p}
        BY <1>3, <2>2 DEF AccountsInv, Accounted
    <2>4. next.report = "none" /\ admin[o].at # "over" /\ next.at # "over"
        BY <1>0, <1>3
    <2> QED BY <1>0, <1>3, <2>3, <2>4, MoveKeepsAccounted
<1>4. ASSUME NEW o \in Operators, FindAccount(o) PROVE AccountsInv'
    <2>1. CASE account = NoAccount
        <3> DEFINE next == [admin[o] EXCEPT !.at = "check"]
        <3>1. admin[o].at = "find" /\ admin' = [admin EXCEPT ![o] = next]
              /\ UNCHANGED <<account, latest, overlapped>>
            BY <1>4, <2>1 DEF FindAccount
        <3>2. next \in AdminRun /\ next.at = "check" /\ next.report = admin[o].report
            BY <1>0 DEF AdminRun
        <3> HIDE DEF next
        <3> QED BY <1>3, <3>1, <3>2
    <2>2. CASE account # NoAccount
        <3> DEFINE next == [admin[o] EXCEPT !.at = "update", !.read = account.role]
        <3>1. admin[o].at = "find" /\ admin' = [admin EXCEPT ![o] = next]
              /\ UNCHANGED <<account, latest, overlapped>>
            BY <1>4, <2>2 DEF FindAccount
        <3>2. account.role \in Role
            BY <1>0, <2>2 DEF AccountsTypeOK
        <3>3. next \in AdminRun /\ next.at = "update" /\ next.report = admin[o].report
              /\ next.read = account.role
            BY <1>0, <3>2 DEF AdminRun
        <3> HIDE DEF next
        <3> QED BY <1>3, <2>2, <3>1, <3>3
    <2> QED BY <2>1, <2>2
<1>5. ASSUME NEW o \in Operators, admin[o].at = "update"
      PROVE  /\ Updated(o) \in AccountRow /\ Updated(o).password = o
             /\ o \notin overlapped => Updated(o).role = admin[o].role
    <2>1. account # NoAccount /\ (o \notin overlapped => admin[o].read = account.role)
        BY <1>5 DEF AccountsInv, Accounted
    <2>2. account.role \in Role /\ admin[o].role \in Role
        BY <1>0, <2>1 DEF AccountsTypeOK, AdminRun
    <2> QED BY <2>1, <2>2 DEF Updated, AccountRow
<1>6. ASSUME NEW o \in Operators
      PROVE  /\ Inserted(o) \in AccountRow /\ Inserted(o).password = o
             /\ Inserted(o).role = admin[o].role
    <2>1. admin[o].role \in Role
        BY <1>0 DEF AdminRun
    <2> QED BY <2>1 DEF Inserted, AccountRow
<1>7. ASSUME NEW o \in Operators, UpdateAccount(o) PROVE AccountsInv'
    <2>1. o \in Active
        BY <1>7 DEF UpdateAccount, Active
    <2>2. admin[o].at = "update" /\ account' = Updated(o) /\ Over(o, "updated")
          /\ UNCHANGED overlapped
        BY <1>7 DEF UpdateAccount
    <2> QED BY <1>5, <2>1, <2>2, EndKeepsAccounted
<1>8. ASSUME NEW o \in Operators, CheckAccount(o) PROVE AccountsInv'
    <2>1. CASE account = NoAccount
        <3> DEFINE next == [admin[o] EXCEPT !.at = "insert"]
        <3>1. admin[o].at = "check" /\ admin' = [admin EXCEPT ![o] = next]
              /\ UNCHANGED <<account, latest, overlapped>>
            BY <1>8, <2>1 DEF CheckAccount
        <3>2. next \in AdminRun /\ next.at = "insert" /\ next.report = admin[o].report
            BY <1>0 DEF AdminRun
        <3> HIDE DEF next
        <3> QED BY <1>3, <3>1, <3>2
    <2>2. CASE account # NoAccount
        <3>1. o \in Active
            BY <1>8 DEF CheckAccount, Active
        <3>2. Over(o, "exists") /\ UNCHANGED <<account, overlapped>>
            BY <1>8, <2>2 DEF CheckAccount
        <3> QED BY <3>1, <3>2, EndKeepsAccounted
    <2> QED BY <2>1, <2>2
<1>9. ASSUME NEW o \in Operators, InsertAccount(o) PROVE AccountsInv'
    <2>1. o \in Active /\ UNCHANGED overlapped
        BY <1>9 DEF InsertAccount, Active
    <2>2. \/ account' = Inserted(o) /\ Over(o, "created")
          \/ UNCHANGED account /\ Over(o, "exists")
        BY <1>9 DEF InsertAccount
    <2> QED BY <1>6, <2>1, <2>2, EndKeepsAccounted
<1>10. ASSUME NEW o \in Operators, AdminFails(o) PROVE AccountsInv'
    <2>1. o \in Active /\ UNCHANGED overlapped /\ Over(o, "failed")
        BY <1>10 DEF AdminFails
    <2>2. \/ UNCHANGED account
          \/ admin[o].at = "update" /\ account' = Updated(o)
          \/ account' = Inserted(o)
        BY <1>10 DEF AdminFails
    <2> QED BY <1>5, <1>6, <2>1, <2>2, EndKeepsAccounted
<1> QED BY <1>1, <1>2, <1>4, <1>7, <1>8, <1>9, <1>10 DEF AccountsNext

\* create_admin: however many runs overlap, the account is the one that the last
\* successful run, or one that failed at its commit, has reported.
THEOREM AccountReported == AccountsSpec => []AccountIsAsReported
<1>1. AccountsInit => AccountsInv
    BY AccountsInvInit
<1>2. AccountsInv /\ [AccountsNext]_accountVars => AccountsInv'
    BY AccountsInvStep
<1>3. AccountsInv => AccountIsAsReported
    BY DEF AccountsInv
<1> QED BY <1>1, <1>2, <1>3, PTL DEF AccountsSpec
-----------------------------------------------------------------------------
(* The chat page's replies *)

LoopState == [at : {"none", "reading", "over"}, aborted : BOOLEAN, gotDone : BOOLEAN]

\* What a reply in phase f, its loop l and its stored phase g say of one another: a
\* loop that reads on has shown no answer but "done", and only what its user has
\* seen stopped is stopped in the browser's storage.
ReplyFits(f, l, g, left) ==
    /\ f \in Unfinished => l.at = "reading" \/ left
    /\ l.at = "reading" /\ l.gotDone => f \in {"none", "stopped", "done"}
    /\ l.at = "reading" /\ l.aborted => f \in {"none", "stopped", "done"} \/ left
    /\ l.at = "reading" => f # "error" /\ (f = "done" => l.gotDone)
    /\ l.at = "none" => l = NoLoop /\ f = "none" /\ g = "none"
    /\ f \in Unfinished \cup {"stopped"} => g \notin {"done", "error"}

ClientInv ==
    /\ phase \in [Replies -> Phases] /\ stored \in [Replies -> Phases]
    /\ loop \in [Replies -> LoopState]
    /\ \A r \in Replies : ReplyFits(phase[r], loop[r], stored[r], r \in stranded)

LEMMA ClientInvInit == ClientInit => ClientInv
<1> SUFFICES ASSUME ClientInit PROVE ClientInv
    OBVIOUS
<1>1. NoLoop \in LoopState /\ NoLoop.at = "none"
    BY DEF NoLoop, LoopState
<1>2. \A r \in Replies : phase[r] = "none" /\ stored[r] = "none" /\ loop[r] = NoLoop
    BY DEF ClientInit
<1>3. /\ phase \in [Replies -> Phases] /\ stored \in [Replies -> Phases]
      /\ loop \in [Replies -> LoopState]
    BY <1>1 DEF ClientInit, Phases
<1> QED BY <1>1, <1>2, <1>3 DEF ClientInv, ReplyFits, Unfinished

LEMMA NoLoopOver ==
    LET over == [NoLoop EXCEPT !.at = "over"]
    IN  over \in LoopState /\ over.at = "over"
BY DEF NoLoop, LoopState

\* A step of one reply.
LEMMA ReplyStep ==
    ASSUME ClientInv, NEW r \in Replies, NEW f \in Phases, NEW l \in LoopState,
           phase' = [phase EXCEPT ![r] = f], loop' = [loop EXCEPT ![r] = l],
           UNCHANGED <<stored, stranded>>,
           ReplyFits(f, l, stored[r], r \in stranded)
    PROVE  ClientInv'
<1>1. /\ phase' \in [Replies -> Phases] /\ stored' \in [Replies -> Phases]
      /\ loop' \in [Replies -> LoopState]
    BY DEF ClientInv
<1>2. ASSUME NEW p \in Replies
      PROVE  ReplyFits(phase'[p], loop'[p], stored'[p], p \in stranded')
    <2>1. CASE p = r
        <3>1. phase'[p] = f /\ loop'[p] = l /\ stored'[p] = stored[r] /\ stranded' = stranded
            BY <2>1 DEF ClientInv
        <3> QED BY <2>1, <3>1
    <2>2. CASE p # r
        <3>1. /\ phase'[p] = phase[p] /\ loop'[p] = loop[p] /\ stored'[p] = stored[p]
              /\ stranded' = stranded
            BY <2>2 DEF ClientInv
        <3>2. ReplyFits(phase[p], loop[p], stored[p], p \in stranded)
            BY DEF ClientInv
        <3> QED BY <3>1, <3>2
    <2> QED BY <2>1, <2>2
<1> QED BY <1>1, <1>2 DEF ClientInv

\* A step of every reply.
LEMMA RepliesStep ==
    ASSUME phase' \in [Replies -> Phases], stored' \in [Replies -> Phases],
           loop' \in [Replies -> LoopState],
           \A r \in Replies : ReplyFits(phase'[r], loop'[r], stored'[r], r \in stranded')
    PROVE  ClientInv'
BY DEF ClientInv

LEMMA AbortAllFields ==
    ASSUME ClientInv, AbortAll
    PROVE  /\ loop' \in [Replies -> LoopState]
           /\ \A r \in Replies :
                  /\ loop'[r].at = loop[r].at /\ loop'[r].gotDone = loop[r].gotDone
                  /\ loop[r].at = "none" => loop'[r] = loop[r]
<1>1. \A r \in Replies : loop[r] \in LoopState
    BY DEF ClientInv
<1>2. ASSUME NEW r \in Replies
      PROVE  LET l == [loop[r] EXCEPT !.aborted = TRUE]
             IN  l \in LoopState /\ l.at = loop[r].at /\ l.gotDone = loop[r].gotDone
    BY <1>1 DEF LoopState
<1>3. ASSUME NEW r \in Replies
      PROVE  loop'[r] = IF loop[r].at = "reading" THEN [loop[r] EXCEPT !.aborted = TRUE]
                        ELSE loop[r]
    BY DEF AbortAll, Aborted
<1>4. \A r \in Replies : loop'[r] \in LoopState
    BY <1>1, <1>2, <1>3
<1>5. loop' \in [Replies -> LoopState]
    BY <1>4 DEF AbortAll
<1> QED BY <1>2, <1>3, <1>5

LEMMA ClientInvStep == ClientInv /\ [ClientNext]_clientVars => ClientInv'
<1> SUFFICES ASSUME ClientInv, [ClientNext]_clientVars PROVE ClientInv'
    OBVIOUS
<1>0. \A r \in Replies :
          /\ phase[r] \in Phases /\ stored[r] \in Phases /\ loop[r] \in LoopState
          /\ ReplyFits(phase[r], loop[r], stored[r], r \in stranded)
    BY DEF ClientInv
<1>1. CASE UNCHANGED clientVars
    BY <1>1 DEF clientVars, ClientInv
<1>2. ASSUME NEW r \in Replies, Delta(r) PROVE ClientInv'
    <2> DEFINE f == IF phase[r] \in {"none", "stopped"} THEN phase[r] ELSE "revealing"
    <2>1. /\ loop[r].at = "reading" /\ ~loop[r].gotDone
          /\ phase' = [phase EXCEPT ![r] = f] /\ UNCHANGED <<loop, stored, stranded>>
        BY <1>2 DEF Delta, Patch
    <2>2. f \in Phases
        BY <1>0 DEF Phases
    <2>3. ReplyFits(f, loop[r], stored[r], r \in stranded)
        BY <1>0, <2>1 DEF ReplyFits, Unfinished, Phases
    <2>4. loop' = [loop EXCEPT ![r] = loop[r]]
        BY <2>1 DEF ClientInv
    <2> HIDE DEF f
    <2> QED BY <1>0, <2>1, <2>2, <2>3, <2>4, ReplyStep
<1>3. ASSUME NEW r \in Replies, Done(r) PROVE ClientInv'
    <2> DEFINE f == IF phase[r] \in {"none", "stopped"} THEN phase[r] ELSE "done"
               l == [loop[r] EXCEPT !.gotDone = TRUE]
    <2>1. /\ loop[r].at = "reading" /\ ~loop[r].gotDone
          /\ phase' = [phase EXCEPT ![r] = f] /\ loop' = [loop EXCEPT ![r] = l]
          /\ UNCHANGED <<stored, stranded>>
        BY <1>3 DEF Done, Patch
    <2>2. f \in Phases
        BY <1>0 DEF Phases
    <2>3. l \in LoopState /\ l.at = loop[r].at /\ l.gotDone /\ l.aborted = loop[r].aborted
        BY <1>0 DEF LoopState
    <2>4. ReplyFits(f, l, stored[r], r \in stranded)
        BY <1>0, <2>1, <2>3 DEF ReplyFits, Unfinished, Phases
    <2> HIDE DEF f, l
    <2> QED BY <2>1, <2>2, <2>3, <2>4, ReplyStep
<1>4. ASSUME NEW r \in Replies, EndLoop(r), loop[r].at = "reading",
             NEW f \in Phases, phase' = [phase EXCEPT ![r] = f],
             UNCHANGED <<stored, stranded>>,
             f \in Unfinished => r \in stranded,
             f # "stopped" \/ phase[r] = "stopped",
             f \in Unfinished => phase[r] = f
      PROVE  ClientInv'
    <2> DEFINE l == [NoLoop EXCEPT !.at = "over"]
    <2>1. loop' = [loop EXCEPT ![r] = l]
        BY <1>4 DEF EndLoop
    <2>2. l \in LoopState /\ l.at = "over"
        BY NoLoopOver
    <2> HIDE DEF l
    <2>3. ReplyFits(f, l, stored[r], r \in stranded)
        BY <1>0, <1>4, <2>2 DEF ReplyFits
    <2> QED BY <1>4, <2>1, <2>2, <2>3, ReplyStep
<1>5. ASSUME NEW r \in Replies, EndLoop(r), loop[r].at = "reading", Patch(r, "error"),
             UNCHANGED <<stored, stranded>>
      PROVE  ClientInv'
    <2> DEFINE f == IF phase[r] \in {"none", "stopped"} THEN phase[r] ELSE "error"
    <2>1. phase' = [phase EXCEPT ![r] = f]
        BY <1>5 DEF Patch
    <2>2. f \in Phases /\ f \notin Unfinished /\ (f = "stopped" => phase[r] = "stopped")
        BY <1>0 DEF Phases, Unfinished
    <2> HIDE DEF f
    <2> QED BY <1>4, <1>5, <2>1, <2>2
<1>6. ASSUME NEW r \in Replies, EndLoop(r), loop[r].at = "reading",
             UNCHANGED <<phase, stored, stranded>>,
             phase[r] \in Unfinished => r \in stranded
      PROVE  ClientInv'
    <2>1. phase' = [phase EXCEPT ![r] = phase[r]]
        BY <1>6 DEF ClientInv
    <2> QED BY <1>0, <1>4, <1>6, <2>1
<1>7. ASSUME NEW r \in Replies, EndOfStream(r) PROVE ClientInv'
    <2>1. CASE loop[r].gotDone
        <3>1. phase[r] \notin Unfinished
            BY <1>0, <1>7, <2>1 DEF EndOfStream, ReplyFits, Unfinished
        <3> QED BY <1>6, <1>7, <2>1, <3>1 DEF EndOfStream
    <2>2. CASE ~loop[r].gotDone
        BY <1>5, <1>7, <2>2 DEF EndOfStream
    <2> QED BY <2>1, <2>2
<1>8. ASSUME NEW r \in Replies, Broken(r) PROVE ClientInv'
    BY <1>5, <1>8 DEF Broken
<1>9. ASSUME NEW r \in Replies, AbortNoticed(r) PROVE ClientInv'
    <2>1. phase[r] \in Unfinished => r \in stranded
        BY <1>0, <1>9 DEF AbortNoticed, ReplyFits, Unfinished
    <2> QED BY <1>6, <1>9, <2>1 DEF AbortNoticed
<1>10. CASE Send
    <2>1. PICK r \in Replies :
              /\ loop[r].at = "none"
              /\ phase' = [phase EXCEPT ![r] = "searching"]
              /\ loop' = [loop EXCEPT ![r].at = "reading"]
              /\ UNCHANGED <<stored, stranded>>
        BY <1>10 DEF Send, Unused
    <2> DEFINE l == [loop[r] EXCEPT !.at = "reading"]
    <2>2. loop' = [loop EXCEPT ![r] = l]
        BY <2>1
    <2>3. loop[r] = NoLoop /\ stored[r] = "none"
        BY <1>0, <2>1 DEF ReplyFits
    <2>4. l \in LoopState /\ l.at = "reading" /\ ~l.gotDone /\ ~l.aborted
        BY <1>0, <2>3 DEF LoopState, NoLoop
    <2> HIDE DEF l
    <2>5. ReplyFits("searching", l, stored[r], r \in stranded)
        BY <2>3, <2>4 DEF ReplyFits, Unfinished
    <2>6. "searching" \in Phases
        BY DEF Phases
    <2> QED BY <2>1, <2>2, <2>4, <2>5, <2>6, ReplyStep
<1>11. CASE Stop
    <2>1. AbortAll /\ phase' = Marked(phase) /\ UNCHANGED stored
        BY <1>11 DEF Stop
    <2>2. \A r \in Replies :
              phase'[r] = IF phase[r] \in Unfinished THEN "stopped" ELSE phase[r]
        BY <2>1 DEF Marked
    <2>3. phase' \in [Replies -> Phases]
        BY <1>0, <2>1 DEF Marked, Phases
    <2>4. ASSUME NEW r \in Replies
          PROVE  ReplyFits(phase'[r], loop'[r], stored'[r], r \in stranded')
        <3>1. /\ loop'[r].at = loop[r].at /\ loop'[r].gotDone = loop[r].gotDone
              /\ loop[r].at = "none" => loop'[r] = loop[r]
            BY <2>1, AbortAllFields
        <3>2. /\ phase'[r] \notin Unfinished
              /\ phase'[r] = "stopped" => phase[r] \in Unfinished \cup {"stopped"}
              /\ phase'[r] # "stopped" => phase'[r] = phase[r]
              /\ phase'[r] \in Phases
            BY <1>0, <2>2 DEF Unfinished, Phases
        <3>3. stored'[r] = stored[r] /\ ReplyFits(phase[r], loop[r], stored[r], r \in stranded)
            BY <1>0, <2>1
        <3> QED BY <3>1, <3>2, <3>3 DEF ReplyFits, Unfinished, Phases
    <2>5. stored' \in [Replies -> Phases] /\ loop' \in [Replies -> LoopState]
        BY <2>1, AbortAllFields DEF ClientInv
    <2> QED BY <2>3, <2>4, <2>5, RepliesStep
<1>12. ASSUME NEW c, Open(c) PROVE ClientInv'
    <2>1. AbortAll /\ UNCHANGED <<phase, stored>>
        BY <1>12 DEF Open
    <2>2. ASSUME NEW r \in Replies
          PROVE  ReplyFits(phase'[r], loop'[r], stored'[r], r \in stranded')
        <3>1. /\ loop'[r].at = loop[r].at /\ loop'[r].gotDone = loop[r].gotDone
              /\ loop[r].at = "none" => loop'[r] = loop[r]
            BY <2>1, AbortAllFields
        <3>2. /\ r \in stranded => r \in stranded'
              /\ loop[r].at = "reading" /\ phase[r] \in Unfinished => r \in stranded'
            <4>1. stranded' = stranded \cup {p \in Aborted : phase[p] \in Unfinished}
                BY <1>12 DEF Open
            <4>2. loop[r].at = "reading" => r \in Aborted
                BY DEF Aborted
            <4> QED BY <4>1, <4>2
        <3>3. phase'[r] = phase[r] /\ stored'[r] = stored[r] /\ phase[r] \in Phases
              /\ ReplyFits(phase[r], loop[r], stored[r], r \in stranded)
            BY <1>0, <2>1
        <3> QED BY <3>1, <3>2, <3>3 DEF ReplyFits, Unfinished, Phases
    <2>3. /\ phase' \in [Replies -> Phases] /\ stored' \in [Replies -> Phases]
          /\ loop' \in [Replies -> LoopState]
        BY <2>1, AbortAllFields DEF ClientInv
    <2> QED BY <2>2, <2>3, RepliesStep
<1>13. ASSUME NEW c, RemoveChat(c) PROVE ClientInv'
    <2>1. /\ phase' = [r \in Replies |-> IF chatOf[r] = c THEN "none" ELSE phase[r]]
          /\ UNCHANGED <<loop, stored, stranded>>
        BY <1>13 DEF RemoveChat
    <2>2. ASSUME NEW r \in Replies
          PROVE  ReplyFits(phase'[r], loop'[r], stored'[r], r \in stranded')
        <3>1. phase'[r] \in {"none", phase[r]}
            BY <2>1
        <3>2. loop'[r] = loop[r] /\ stored'[r] = stored[r] /\ stranded' = stranded
              /\ ReplyFits(phase[r], loop[r], stored[r], r \in stranded)
            BY <1>0, <2>1
        <3> QED BY <3>1, <3>2 DEF ReplyFits, Unfinished
    <2>3. /\ phase' \in [Replies -> Phases] /\ stored' \in [Replies -> Phases]
          /\ loop' \in [Replies -> LoopState]
        BY <1>0, <2>1 DEF ClientInv, Phases
    <2> QED BY <2>2, <2>3, RepliesStep
<1>14. CASE Persist
    <2>1. stored' = phase /\ UNCHANGED <<phase, loop, stranded>>
        BY <1>14 DEF Persist
    <2>2. ASSUME NEW r \in Replies
          PROVE  ReplyFits(phase'[r], loop'[r], stored'[r], r \in stranded')
        BY <1>0, <2>1 DEF ReplyFits, Unfinished
    <2>3. /\ phase' \in [Replies -> Phases] /\ stored' \in [Replies -> Phases]
          /\ loop' \in [Replies -> LoopState]
        BY <2>1 DEF ClientInv
    <2> QED BY <2>2, <2>3, RepliesStep
<1>15. CASE Reload
    <2>1. /\ phase' = Marked(stored) /\ UNCHANGED stored
          /\ loop' = [r \in Replies |->
                 IF loop[r].at = "none" THEN NoLoop ELSE [NoLoop EXCEPT !.at = "over"]]
        BY <1>15 DEF Reload
    <2>2. NoLoop \in LoopState /\ NoLoop.at = "none"
        BY DEF NoLoop, LoopState
    <2>3. ASSUME NEW r \in Replies
          PROVE  /\ ReplyFits(phase'[r], loop'[r], stored'[r], r \in stranded')
                 /\ phase'[r] \in Phases /\ loop'[r] \in LoopState
        <3>1. phase'[r] = IF stored[r] \in Unfinished THEN "stopped" ELSE stored[r]
            BY <2>1 DEF Marked
        <3>2. \/ loop[r].at = "none" /\ loop'[r] = NoLoop
              \/ loop[r].at # "none" /\ loop'[r] \in LoopState /\ loop'[r].at = "over"
            BY <2>1, NoLoopOver
        <3>3. stored'[r] = stored[r] /\ (loop[r].at = "none" => stored[r] = "none")
              /\ stored[r] \in Phases
            BY <1>0, <2>1 DEF ReplyFits
        <3>4. phase'[r] \in Phases
            BY <3>1, <3>3 DEF Phases
        <3> QED BY <2>2, <3>1, <3>2, <3>3, <3>4 DEF ReplyFits, Unfinished
    <2>4. /\ phase' \in [Replies -> Phases] /\ stored' \in [Replies -> Phases]
          /\ loop' \in [Replies -> LoopState]
        <3>1. stored' \in [Replies -> Phases]
            BY <2>1 DEF ClientInv
        <3>2. phase' \in [Replies -> Phases]
            BY <2>1, <2>3 DEF Marked
        <3>3. loop' \in [Replies -> LoopState]
            BY <2>1, <2>3
        <3> QED BY <3>1, <3>2, <3>3
    <2> QED BY <2>3, <2>4, RepliesStep
<1> QED
    BY <1>1, <1>2, <1>3, <1>7, <1>8, <1>9, <1>10, <1>11, <1>12, <1>13, <1>14, <1>15
       DEF ClientNext

\* useChat.send: for any replies and conversations, a reply that shows "searching"
\* or "revealing" has a loop that reads on and that nobody has aborted, unless newChat
\* or openChat has aborted it since the last stop or reload.
THEOREM UnfinishedRepliesAreRead == ClientSpec => []UnfinishedIsRead
<1>1. ClientInv => UnfinishedIsRead
    BY DEF ClientInv, ReplyFits, UnfinishedIsRead, Unfinished
<1> QED BY ClientInvInit, ClientInvStep, <1>1, PTL DEF ClientSpec

\* useChat.patch: no later frame, end, error, stop or reload revives a reply that
\* was stopped.
THEOREM StoppedRepliesStay == ClientSpec => StoppedStays
<1> DEFINE Stays == \A r \in Replies :
                        phase[r] = "stopped" => phase'[r] \in {"stopped", "none"}
<1>1. ASSUME ClientInv, [ClientNext]_clientVars PROVE [Stays]_clientVars
    <2> SUFFICES ASSUME ClientNext, NEW p \in Replies, phase[p] = "stopped"
                 PROVE  phase'[p] \in {"stopped", "none"}
        BY <1>1
    <2>0. /\ phase \in [Replies -> Phases]
          /\ \A r \in Replies : ReplyFits(phase[r], loop[r], stored[r], r \in stranded)
        BY <1>1 DEF ClientInv
    <2>1. ASSUME NEW r \in Replies, NEW next, Patch(r, next) PROVE phase'[p] = "stopped"
        BY <2>0, <2>1 DEF Patch
    <2>2. ASSUME NEW r \in Replies,
                 Delta(r) \/ Done(r) \/ EndOfStream(r) \/ Broken(r) \/ AbortNoticed(r)
          PROVE  phase'[p] = "stopped"
        BY <2>1, <2>2 DEF Delta, Done, EndOfStream, Broken, AbortNoticed
    <2>3. CASE Send
        <3>1. PICK r \in Replies :
                  loop[r].at = "none" /\ phase' = [phase EXCEPT ![r] = "searching"]
            BY <2>3 DEF Send, Unused
        <3>2. r # p
            BY <2>0, <3>1 DEF ReplyFits
        <3> QED BY <2>0, <3>1, <3>2
    <2>4. CASE Stop
        BY <2>4 DEF Stop, Marked, Unfinished
    <2>5. ASSUME NEW c, Open(c) \/ RemoveChat(c) PROVE phase'[p] \in {"stopped", "none"}
        BY <2>5 DEF Open, RemoveChat
    <2>6. CASE Persist
        BY <2>6 DEF Persist
    <2>7. CASE Reload
        <3>1. stored[p] \notin {"done", "error"} /\ stored[p] \in Phases
            BY <1>1, <2>0 DEF ReplyFits, ClientInv
        <3>2. phase'[p] = IF stored[p] \in Unfinished THEN "stopped" ELSE stored[p]
            BY <2>7 DEF Reload, Marked
        <3> QED BY <3>1, <3>2 DEF Phases, Unfinished
    <2> QED BY <2>2, <2>3, <2>4, <2>5, <2>6, <2>7 DEF ClientNext
<1> QED BY ClientInvInit, ClientInvStep, <1>1, PTL DEF ClientSpec, StoppedStays

-----------------------------------------------------------------------------
(* The counters of answers *)

\* Threads that have counted an answer and not yet counted that it is a refusal,
\* or that no keyword was found.
ToRefuse ==
    {t \in Threads : logging[t].at = "refused" /\ logging[t].answer = "refused"}
ToZero ==
    {t \in Threads : logging[t].at \in {"refused", "zero"} /\ ~ logging[t].keyword}

\* An answer that still owes an increment has been counted as an answer.
AnswersFirst ==
    /\ IsFiniteSet(ToRefuse) /\ IsFiniteSet(ToZero)
    /\ counters["refused"] + Cardinality(ToRefuse) <= counters["answers"]
    /\ counters["zero_keyword"] + Cardinality(ToZero) <= counters["answers"]

\* The counts of trace_stats trail the rows by what has landed since the first.
StatsTrail ==
    /\ stats.at \in {"refused", "uncited"} => Total = stats.total + stats.landed
    /\ stats.at = "uncited" => stats.refused <= traces["refused"]
    /\ stats.at = "over" => stats.refused + stats.uncited <= stats.total + stats.landed

CountersInv == CountersTypeOK /\ AnswersFirst /\ StatsTrail

Logging == [at : {"idle", "answers", "refused", "zero", "trace"}, answer : Answer,
            keyword : BOOLEAN]
Stats == [at : {"total", "refused", "uncited", "over"}, total : Nat, refused : Nat,
          uncited : Nat, landed : Nat]

LEMMA CountersInvInit == CountersInit => CountersInv
<1> SUFFICES ASSUME CountersInit PROVE CountersInv
    OBVIOUS
<1>1. \A t \in Threads : logging[t] = NotLogging
    BY DEF CountersInit
<1>2. NotLogging \in Logging /\ NotLogging.at = "idle"
    BY DEF NotLogging, Logging, Answer
<1>3. CountersTypeOK
    <2>1. logging \in [Threads -> Logging]
        BY <1>2 DEF CountersInit
    <2> QED BY <2>1, CountersAssumption
            DEF CountersInit, CountersTypeOK, Logging, Zero, NoTraces, NoStats, Counter, Answer
<1>4. AnswersFirst
    <2>1. ToRefuse = {} /\ ToZero = {}
        BY <1>1, <1>2 DEF ToRefuse, ToZero
    <2>2. counters["refused"] = 0 /\ counters["zero_keyword"] = 0 /\ counters["answers"] = 0
        BY DEF CountersInit, Zero, Counter
    <2> QED BY <2>1, <2>2, FS_EmptySet DEF AnswersFirst
<1>5. StatsTrail
    BY DEF CountersInit, NoStats, StatsTrail
<1> QED BY <1>3, <1>4, <1>5 DEF CountersInv

\* What one thread owes changes with its own steps only.
LEMMA OneLogs ==
    ASSUME CountersTypeOK, NEW t \in Threads, NEW next \in Logging,
           logging' = [logging EXCEPT ![t] = next]
    PROVE  /\ logging' \in [Threads -> Logging]
           /\ ToRefuse' = IF next.at = "refused" /\ next.answer = "refused"
                          THEN ToRefuse \cup {t} ELSE ToRefuse \ {t}
           /\ ToZero' = IF next.at \in {"refused", "zero"} /\ ~ next.keyword
                        THEN ToZero \cup {t} ELSE ToZero \ {t}
<1>1. logging \in [Threads -> Logging]
    BY DEF CountersTypeOK, Logging
<1>2. logging'[t] = next /\ \A u \in Threads \ {t} : logging'[u] = logging[u]
    BY <1>1
<1>3. logging' \in [Threads -> Logging]
    BY <1>1
<1>4. CASE next.at = "refused" /\ next.answer = "refused"
    <2>1. ToRefuse' = ToRefuse \cup {t}
        BY <1>2, <1>4 DEF ToRefuse
    <2> QED BY <1>2, <1>3, <1>4, <2>1 DEF ToZero
<1>5. CASE ~ (next.at = "refused" /\ next.answer = "refused")
    <2>1. ToRefuse' = ToRefuse \ {t}
        BY <1>2, <1>5 DEF ToRefuse
    <2> QED BY <1>2, <1>3, <1>5, <2>1 DEF ToZero
<1> QED BY <1>4, <1>5

\* Once the counters are typed and the owing sets known, what is owed is arithmetic.
LEMMA OneCounts ==
    ASSUME CountersInv, NEW t \in Threads, NEW next \in Logging,
           logging' = [logging EXCEPT ![t] = next], UNCHANGED <<traces, stats>>,
           begun' \in 0..MaxAnswers,
           counters' \in [Counter -> Nat],
           counters["answers"] <= counters'["answers"],
           \/ UNCHANGED counters /\ ToRefuse' \subseteq ToRefuse /\ ToZero' \subseteq ToZero
           \/ /\ counters'["answers"] = counters["answers"] + 1
              /\ counters'["refused"] = counters["refused"]
              /\ counters'["zero_keyword"] = counters["zero_keyword"]
           \/ /\ counters'["answers"] = counters["answers"]
              /\ counters'["refused"] = counters["refused"] + 1
              /\ counters'["zero_keyword"] = counters["zero_keyword"]
              /\ t \in ToRefuse \ ToRefuse' /\ ToZero' \subseteq ToZero
           \/ /\ counters'["answers"] = counters["answers"]
              /\ counters'["refused"] = counters["refused"]
              /\ counters'["zero_keyword"] = counters["zero_keyword"] + 1
              /\ t \in ToZero \ ToZero' /\ ToRefuse' \subseteq ToRefuse
    PROVE  CountersInv'
<1>1. CountersTypeOK /\ AnswersFirst /\ StatsTrail
    BY DEF CountersInv
<1>2. /\ logging' \in [Threads -> Logging]
      /\ ToRefuse' \in {ToRefuse \cup {t}, ToRefuse \ {t}}
      /\ ToZero' \in {ToZero \cup {t}, ToZero \ {t}}
    BY <1>1, OneLogs
<1>3. CountersTypeOK' /\ StatsTrail'
    BY <1>1, <1>2 DEF CountersTypeOK, StatsTrail, Logging, Total
<1>4. IsFiniteSet(ToRefuse) /\ IsFiniteSet(ToZero)
    BY <1>1 DEF AnswersFirst
<1>5. /\ IsFiniteSet(ToRefuse') /\ IsFiniteSet(ToZero')
      /\ Cardinality(ToRefuse') \in Nat /\ Cardinality(ToZero') \in Nat
      /\ Cardinality(ToRefuse) \in Nat /\ Cardinality(ToZero) \in Nat
      /\ Cardinality(ToRefuse') <= Cardinality(ToRefuse) + 1
      /\ Cardinality(ToZero') <= Cardinality(ToZero) + 1
      /\ ToRefuse' \subseteq ToRefuse => Cardinality(ToRefuse') <= Cardinality(ToRefuse)
      /\ ToZero' \subseteq ToZero => Cardinality(ToZero') <= Cardinality(ToZero)
      /\ t \in ToRefuse \ ToRefuse' => Cardinality(ToRefuse') + 1 <= Cardinality(ToRefuse)
      /\ t \in ToZero \ ToZero' => Cardinality(ToZero') + 1 <= Cardinality(ToZero)
    <2>1. ASSUME NEW S, NEW T, IsFiniteSet(S), T \in {S \cup {t}, S \ {t}}
          PROVE  /\ IsFiniteSet(T) /\ Cardinality(T) \in Nat /\ Cardinality(S) \in Nat
                 /\ Cardinality(T) <= Cardinality(S) + 1
                 /\ T \subseteq S => Cardinality(T) <= Cardinality(S)
                 /\ t \in S \ T => Cardinality(T) + 1 <= Cardinality(S)
        <3>1. Cardinality(S) \in Nat
            BY <2>1, FS_CardinalityType
        <3>2. CASE T = S \cup {t}
            <4>1. IsFiniteSet(T) /\ Cardinality(T) =
                     IF t \in S THEN Cardinality(S) ELSE Cardinality(S) + 1
                BY <2>1, <3>2, FS_AddElement
            <4> QED BY <3>1, <3>2, <4>1
        <3>3. CASE T = S \ {t}
            <4>1. IsFiniteSet(T) /\ Cardinality(T) =
                     IF t \in S THEN Cardinality(S) - 1 ELSE Cardinality(S)
                BY <2>1, <3>3, FS_RemoveElement
            <4>2. Cardinality(T) \in Nat
                BY <4>1, FS_CardinalityType
            <4> QED BY <3>1, <3>3, <4>1, <4>2
        <3> QED BY <2>1, <3>2, <3>3
    <2> QED BY <1>2, <1>4, <2>1
<1>6. AnswersFirst'
    <2>1. /\ counters["answers"] \in Nat /\ counters["refused"] \in Nat
          /\ counters["zero_keyword"] \in Nat
          /\ counters'["answers"] \in Nat /\ counters'["refused"] \in Nat
          /\ counters'["zero_keyword"] \in Nat
        BY <1>1 DEF CountersTypeOK, Counter
    <2>2. /\ counters["refused"] + Cardinality(ToRefuse) <= counters["answers"]
          /\ counters["zero_keyword"] + Cardinality(ToZero) <= counters["answers"]
        BY <1>1 DEF AnswersFirst
    <2>3. /\ counters'["refused"] + Cardinality(ToRefuse') <= counters'["answers"]
          /\ counters'["zero_keyword"] + Cardinality(ToZero') <= counters'["answers"]
        BY <1>5, <2>1, <2>2
    <2> QED BY <1>5, <2>3 DEF AnswersFirst
<1> QED BY <1>3, <1>6 DEF CountersInv

\* A record that moves on to another place of _log_answer.
LEMMA LogMoves ==
    ASSUME CountersTypeOK, NEW t \in Threads,
           NEW from \in {"answers", "refused", "zero"},
           NEW to \in {"refused", "zero", "trace"}, Step(t, from, to)
    PROVE  \E next \in Logging :
              /\ logging' = [logging EXCEPT ![t] = next]
              /\ logging[t].at = from /\ next.at = to
              /\ next.answer = logging[t].answer /\ next.keyword = logging[t].keyword
<1>1. logging \in [Threads -> Logging] /\ logging[t] \in Logging
    BY DEF CountersTypeOK, Logging
<1> DEFINE next == [logging[t] EXCEPT !.at = to]
<1>2. /\ next \in Logging /\ next.at = to
      /\ next.answer = logging[t].answer /\ next.keyword = logging[t].keyword
    BY <1>1 DEF Logging
<1>3. logging' = [logging EXCEPT ![t] = next] /\ logging[t].at = from
    BY DEF Step
<1> HIDE DEF next
<1> QED BY <1>2, <1>3

LEMMA IncrFields ==
    ASSUME CountersTypeOK, NEW c \in Counter, Incr(c)
    PROVE  /\ counters' \in [Counter -> Nat]
           /\ counters'[c] = counters[c] + 1
           /\ \A other \in Counter \ {c} : counters'[other] = counters[other]
<1>1. counters \in [Counter -> Nat] /\ counters[c] + 1 \in Nat
    BY DEF CountersTypeOK
<1> QED BY <1>1 DEF Incr

LEMMA CountersInvStep == CountersInv /\ [CountersNext]_countersVars => CountersInv'
<1> SUFFICES ASSUME CountersInv, [CountersNext]_countersVars PROVE CountersInv'
    OBVIOUS
<1>0. /\ CountersTypeOK /\ AnswersFirst /\ StatsTrail
      /\ logging \in [Threads -> Logging] /\ stats \in Stats
      /\ \A c \in Counter : counters[c] \in Nat
      /\ \A a \in Answer : traces[a] \in Nat
      /\ begun \in 0..MaxAnswers
    BY DEF CountersInv, CountersTypeOK, Logging, Stats
<1>a. /\ "answers" \in Counter /\ "refused" \in Counter /\ "zero_keyword" \in Counter
      /\ "refused" \in Answer /\ "uncited" \in Answer /\ "cited" \in Answer
    BY DEF Counter, Answer
<1>b. ASSUME UNCHANGED <<counters, logging>> PROVE AnswersFirst'
    BY <1>0, <1>b DEF AnswersFirst, ToRefuse, ToZero
<1>1. CASE UNCHANGED countersVars
    <2>1. UNCHANGED <<counters, traces, logging, begun, stats>>
        BY <1>1 DEF countersVars
    <2> QED BY <1>0, <1>b, <2>1 DEF CountersInv, CountersTypeOK, StatsTrail, Total
<1>2. ASSUME NEW t \in Threads, LogAnswer(t) PROVE CountersInv'
    <2>1. PICK next \in Logging :
             logging' = [logging EXCEPT ![t] = next] /\ next.at = "answers"
        <3>1. PICK answer \in Answer, found \in BOOLEAN :
                 logging' = [logging EXCEPT ![t] =
                    [at |-> "answers", answer |-> answer, keyword |-> found]]
            BY <1>2 DEF LogAnswer
        <3>2. [at |-> "answers", answer |-> answer, keyword |-> found] \in Logging
            BY DEF Logging
        <3> QED BY <3>1, <3>2
    <2>2. ToRefuse' \subseteq ToRefuse /\ ToZero' \subseteq ToZero
        BY <1>0, <2>1, OneLogs
    <2>3. UNCHANGED <<counters, traces, stats>> /\ begun' = begun + 1 /\ begun < MaxAnswers
        BY <1>2 DEF LogAnswer
    <2>4. begun' \in 0..MaxAnswers
        BY <1>0, <2>3, CountersAssumption
    <2>5. counters["answers"] <= counters'["answers"] /\ counters' \in [Counter -> Nat]
        BY <1>0, <1>a, <2>3 DEF CountersTypeOK
    <2> QED BY <2>1, <2>2, <2>3, <2>4, <2>5, OneCounts
<1>3. ASSUME NEW t \in Threads, CountAnswer(t) PROVE CountersInv'
    <2>1. PICK next \in Logging : logging' = [logging EXCEPT ![t] = next]
        BY <1>0, <1>3, LogMoves DEF CountAnswer
    <2>2. UNCHANGED <<traces, begun, stats>> /\ Incr("answers")
        BY <1>3 DEF CountAnswer
    <2>3. /\ counters' \in [Counter -> Nat]
          /\ counters'["answers"] = counters["answers"] + 1
          /\ counters'["refused"] = counters["refused"]
          /\ counters'["zero_keyword"] = counters["zero_keyword"]
        BY <1>0, <1>a, <2>2, IncrFields
    <2>4. counters["answers"] <= counters'["answers"]
        BY <1>0, <1>a, <2>3
    <2>5. begun' \in 0..MaxAnswers /\ UNCHANGED <<traces, stats>>
        BY <1>0, <2>2
    <2> QED BY <2>1, <2>3, <2>4, <2>5, OneCounts
<1>4. ASSUME NEW t \in Threads, CountRefused(t) PROVE CountersInv'
    <2>1. PICK next \in Logging :
             /\ logging' = [logging EXCEPT ![t] = next]
             /\ logging[t].at = "refused" /\ next.at = "zero"
             /\ next.answer = logging[t].answer /\ next.keyword = logging[t].keyword
        BY <1>0, <1>4, LogMoves DEF CountRefused
    <2>2. UNCHANGED <<traces, begun, stats>>
        BY <1>4 DEF CountRefused
    <2>3. t \notin ToRefuse' /\ ToRefuse' \subseteq ToRefuse
        BY <1>0, <2>1, OneLogs
    <2>4. ToZero' \subseteq ToZero
        <3>1. ~ next.keyword => t \in ToZero
            BY <2>1 DEF ToZero
        <3> QED BY <1>0, <2>1, <3>1, OneLogs
    <2>5. begun' \in 0..MaxAnswers /\ UNCHANGED <<traces, stats>>
        BY <1>0, <2>2
    <2>6. CASE logging[t].answer = "refused"
        <3>1. /\ counters' \in [Counter -> Nat]
              /\ counters'["refused"] = counters["refused"] + 1
              /\ counters'["answers"] = counters["answers"]
              /\ counters'["zero_keyword"] = counters["zero_keyword"]
            BY <1>0, <1>4, <1>a, <2>6, IncrFields DEF CountRefused
        <3>2. t \in ToRefuse
            BY <2>1, <2>6 DEF ToRefuse
        <3>3. counters["answers"] <= counters'["answers"]
            BY <1>0, <1>a, <3>1
        <3> QED BY <2>1, <2>3, <2>4, <2>5, <3>1, <3>2, <3>3, OneCounts
    <2>7. CASE logging[t].answer # "refused"
        <3>1. UNCHANGED counters
            BY <1>4, <2>7 DEF CountRefused
        <3>2. counters["answers"] <= counters'["answers"] /\ counters' \in [Counter -> Nat]
            BY <1>0, <1>a, <3>1 DEF CountersTypeOK
        <3> QED BY <2>1, <2>3, <2>4, <2>5, <3>1, <3>2, OneCounts
    <2> QED BY <2>6, <2>7
<1>5. ASSUME NEW t \in Threads, CountZeroKeyword(t) PROVE CountersInv'
    <2>1. PICK next \in Logging :
             /\ logging' = [logging EXCEPT ![t] = next]
             /\ logging[t].at = "zero" /\ next.at = "trace"
        BY <1>0, <1>5, LogMoves DEF CountZeroKeyword
    <2>2. UNCHANGED <<traces, begun, stats>>
        BY <1>5 DEF CountZeroKeyword
    <2>3. t \notin ToZero' /\ ToZero' \subseteq ToZero /\ ToRefuse' \subseteq ToRefuse
        BY <1>0, <2>1, OneLogs
    <2>4. begun' \in 0..MaxAnswers /\ UNCHANGED <<traces, stats>>
        BY <1>0, <2>2
    <2>5. CASE ~ logging[t].keyword
        <3>1. /\ counters' \in [Counter -> Nat]
              /\ counters'["zero_keyword"] = counters["zero_keyword"] + 1
              /\ counters'["answers"] = counters["answers"]
              /\ counters'["refused"] = counters["refused"]
            BY <1>0, <1>5, <1>a, <2>5, IncrFields DEF CountZeroKeyword
        <3>2. t \in ToZero
            BY <2>1, <2>5 DEF ToZero
        <3>3. counters["answers"] <= counters'["answers"]
            BY <1>0, <1>a, <3>1
        <3> QED BY <2>1, <2>3, <2>4, <3>1, <3>2, <3>3, OneCounts
    <2>6. CASE logging[t].keyword
        <3>1. UNCHANGED counters
            BY <1>5, <2>6 DEF CountZeroKeyword
        <3>2. counters["answers"] <= counters'["answers"] /\ counters' \in [Counter -> Nat]
            BY <1>0, <1>a, <3>1 DEF CountersTypeOK
        <3> QED BY <2>1, <2>3, <2>4, <3>1, <3>2, OneCounts
    <2> QED BY <2>5, <2>6
<1>6. ASSUME NEW t \in Threads, RecordTrace(t) PROVE CountersInv'
    <2>1. PICK next \in Logging : next = NotLogging /\ next.at = "idle"
        <3>1. NotLogging \in Logging /\ NotLogging.at = "idle"
            BY DEF NotLogging, Logging, Answer
        <3> QED BY <3>1
    <2>2. logging' = [logging EXCEPT ![t] = next] /\ UNCHANGED <<counters, begun>>
        BY <1>6, <2>1 DEF RecordTrace
    <2>3. PICK kind \in Answer : kind = logging[t].answer
        BY <1>0 DEF Logging
    <2>4. ToRefuse' \subseteq ToRefuse /\ ToZero' \subseteq ToZero
        BY <1>0, <2>1, <2>2, OneLogs
    <2>5. CASE UNCHANGED <<traces, stats>>
        <3>1. counters["answers"] <= counters'["answers"] /\ counters' \in [Counter -> Nat]
            BY <1>0, <1>a, <2>2 DEF CountersTypeOK
        <3> QED BY <1>0, <2>2, <2>4, <2>5, <3>1, OneCounts
    <2>6. CASE /\ traces' = [traces EXCEPT ![kind] = traces[kind] + 1]
               /\ stats' = IF stats.at \in {"total", "over"} THEN stats
                           ELSE [stats EXCEPT !.landed = stats.landed + 1]
        <3>1. /\ traces'[kind] = traces[kind] + 1
              /\ \A a \in Answer \ {kind} : traces'[a] = traces[a]
              /\ traces' \in [Answer -> Nat]
              /\ traces'["refused"] >= traces["refused"]
            BY <1>0, <1>a, <2>6 DEF CountersTypeOK
        <3>2. Total' = Total + 1
            <4>1. /\ traces["refused"] \in Nat /\ traces["uncited"] \in Nat
                  /\ traces["cited"] \in Nat
                BY <1>0, <1>a
            <4> QED BY <3>1, <4>1 DEF Answer, Total
        <3>3. AnswersFirst'
            <4>1. CASE t \in ToRefuse \/ t \in ToZero
                <5>1. logging[t].at = "trace"
                    BY <1>6 DEF RecordTrace
                <5> QED BY <4>1, <5>1 DEF ToRefuse, ToZero
            <4>2. CASE t \notin ToRefuse /\ t \notin ToZero
                <5>1. ToRefuse' = ToRefuse \ {t} /\ ToZero' = ToZero \ {t}
                    BY <1>0, <2>1, <2>2, OneLogs
                <5>2. ToRefuse' = ToRefuse /\ ToZero' = ToZero
                    BY <4>2, <5>1
                <5> QED BY <1>0, <2>2, <5>2 DEF AnswersFirst
            <4> QED BY <4>1, <4>2
        <3>4. /\ stats' \in Stats /\ stats'.at = stats.at /\ stats'.total = stats.total
              /\ stats'.refused = stats.refused /\ stats'.uncited = stats.uncited
              /\ stats.at \in {"total", "over"} => stats' = stats
              /\ stats.at \in {"refused", "uncited"} => stats'.landed = stats.landed + 1
            BY <1>0, <2>6 DEF Stats
        <3>5. /\ stats.total \in Nat /\ stats.landed \in Nat /\ stats.refused \in Nat
              /\ Total \in Nat /\ traces["refused"] \in Nat /\ traces'["refused"] \in Nat
            BY <1>0, <1>a, <3>1 DEF Stats, Total
        <3>6. StatsTrail'
            <4>1. stats.at \in {"refused", "uncited"} => Total' = stats'.total + stats'.landed
                BY <1>0, <3>2, <3>4, <3>5 DEF StatsTrail
            <4>2. stats.at = "uncited" => stats'.refused <= traces'["refused"]
                BY <1>0, <3>1, <3>4, <3>5 DEF StatsTrail
            <4> QED BY <1>0, <3>4, <4>1, <4>2 DEF StatsTrail
        <3>7. CountersTypeOK'
            BY <1>0, <2>1, <2>2, <3>1, <3>4, OneLogs DEF CountersTypeOK, Logging, Stats
        <3> QED BY <3>3, <3>6, <3>7 DEF CountersInv
    <2> QED BY <1>6, <2>3, <2>5, <2>6 DEF RecordTrace
<1>7. CASE RestartCounters
    <2>1. \A t \in Threads : logging'[t] = NotLogging
        BY <1>7 DEF RestartCounters
    <2>2. NotLogging \in Logging /\ NotLogging.at = "idle"
        BY DEF NotLogging, Logging, Answer
    <2>3. ToRefuse' = {} /\ ToZero' = {}
        BY <2>1, <2>2 DEF ToRefuse, ToZero
    <2>4. /\ counters'["refused"] = 0 /\ counters'["zero_keyword"] = 0
          /\ counters'["answers"] = 0 /\ counters' \in [Counter -> Nat]
        BY <1>7 DEF RestartCounters, Zero, Counter
    <2>5. AnswersFirst'
        BY <2>3, <2>4, FS_EmptySet DEF AnswersFirst
    <2>6. logging' \in [Threads -> Logging]
        BY <1>7, <2>2 DEF RestartCounters
    <2>7. UNCHANGED <<traces, begun, stats>>
        BY <1>7 DEF RestartCounters
    <2> QED BY <1>0, <2>4, <2>5, <2>6, <2>7
            DEF CountersInv, CountersTypeOK, StatsTrail, Logging, Total
<1>8. CASE CountTraces
    <2>1. stats' = [NoStats EXCEPT !.at = "refused", !.total = Total]
          /\ UNCHANGED <<counters, traces, logging, begun>>
        BY <1>8 DEF CountTraces
    <2>2. Total \in Nat
        BY <1>0, <1>a DEF Total
    <2>3. stats' \in Stats /\ stats'.at = "refused" /\ stats'.total = Total /\ stats'.landed = 0
        BY <2>1, <2>2 DEF NoStats, Stats
    <2>4. StatsTrail'
        BY <2>1, <2>2, <2>3 DEF StatsTrail, Total
    <2> QED BY <1>0, <1>b, <2>1, <2>3, <2>4 DEF CountersInv, CountersTypeOK, Stats
<1>9. CASE CountRefusedTraces \/ CountUncitedTraces
    <2>1. /\ UNCHANGED <<counters, traces, logging, begun>>
          /\ \/ /\ stats.at = "refused"
                /\ stats' = [stats EXCEPT !.at = "uncited", !.refused = traces["refused"]]
             \/ /\ stats.at = "uncited"
                /\ stats' = [stats EXCEPT !.at = "over", !.uncited = traces["uncited"]]
        BY <1>9 DEF CountRefusedTraces, CountUncitedTraces
    <2>2. traces["refused"] \in Nat /\ traces["uncited"] \in Nat /\ traces["cited"] \in Nat
        BY <1>0, <1>a
    <2>3. stats' \in Stats
        BY <1>0, <2>1, <2>2 DEF Stats
    <2>4. /\ stats'.total = stats.total /\ stats'.landed = stats.landed
          /\ \/ /\ stats.at = "refused" /\ stats'.at = "uncited"
                /\ stats'.refused = traces["refused"]
             \/ /\ stats.at = "uncited" /\ stats'.at = "over"
                /\ stats'.refused = stats.refused /\ stats'.uncited = traces["uncited"]
        BY <1>0, <2>1 DEF Stats
    <2>5. /\ stats.total \in Nat /\ stats.landed \in Nat /\ stats.refused \in Nat
          /\ Total = stats.total + stats.landed
          /\ stats.at = "uncited" => stats.refused <= traces["refused"]
        BY <1>0, <2>1 DEF Stats, StatsTrail
    <2>6. StatsTrail'
        <3>1. UNCHANGED <<traces, Total>>
            BY <2>1 DEF Total
        <3>2. traces["refused"] + traces["uncited"] <= stats.total + stats.landed
            BY <2>2, <2>5 DEF Total
        <3> QED BY <2>2, <2>4, <2>5, <3>1, <3>2 DEF StatsTrail
    <2> QED BY <1>0, <1>b, <2>1, <2>3, <2>6 DEF CountersInv, CountersTypeOK, Stats
<1> QED BY <1>1, <1>2, <1>3, <1>4, <1>5, <1>6, <1>7, <1>8, <1>9 DEF CountersNext

LEMMA CountersInvShares == CountersInv => RatesAreShares
<1> SUFFICES ASSUME CountersInv PROVE RatesAreShares
    OBVIOUS
<1>1. /\ counters["answers"] \in Nat /\ counters["refused"] \in Nat
      /\ counters["zero_keyword"] \in Nat
    BY DEF CountersInv, CountersTypeOK, Counter
<1>2. Cardinality(ToRefuse) \in Nat /\ Cardinality(ToZero) \in Nat
    BY FS_CardinalityType DEF CountersInv, AnswersFirst
<1>3. /\ counters["refused"] + Cardinality(ToRefuse) <= counters["answers"]
      /\ counters["zero_keyword"] + Cardinality(ToZero) <= counters["answers"]
    BY DEF CountersInv, AnswersFirst
<1>4. /\ counters["refused"] <= counters["answers"]
      /\ counters["zero_keyword"] <= counters["answers"]
    BY <1>1, <1>2, <1>3
<1> QED BY <1>4 DEF CountersInv, StatsTrail, RatesAreShares

\* /metrics and trace_stats: for any number of answering threads, however their
\* increments interleave and whenever they are read, the refusal and zero-keyword
\* rates are shares, and those of trace_stats exceed 1 by no more than the rows
\* that landed while it counted.
THEOREM RatesStayShares == CountersSpec => []RatesAreShares
<1>1. CountersInit => CountersInv
    BY CountersInvInit
<1>2. CountersInv /\ [CountersNext]_countersVars => CountersInv'
    BY CountersInvStep
<1>3. CountersInv => RatesAreShares
    BY CountersInvShares
<1> QED BY <1>1, <1>2, <1>3, PTL DEF CountersSpec

-----------------------------------------------------------------------------
(* All parts *)

LEMMA ClientTypesInit == ClientInit => ClientTypeOK
<1> SUFFICES ASSUME ClientInit PROVE ClientTypeOK
    OBVIOUS
<1>1. ClientInv
    BY ClientInvInit
<1> QED BY <1>1 DEF ClientInit, ClientInv, ClientTypeOK, LoopState

LEMMA ClientTypesStep ==
    ClientTypeOK /\ ClientInv /\ [ClientNext]_clientVars => ClientTypeOK'
<1> SUFFICES ASSUME ClientTypeOK, ClientInv, [ClientNext]_clientVars
             PROVE  ClientTypeOK'
    OBVIOUS
<1>1. /\ phase' \in [Replies -> Phases] /\ stored' \in [Replies -> Phases]
      /\ loop' \in [Replies -> LoopState]
    BY ClientInvStep DEF ClientInv
<1> DEFINE Places == /\ chatOf \in [Replies -> Chats \cup {NoChat}]
                     /\ active \in Chats \cup {NoChat} /\ stranded \subseteq Replies
<1>2. Places'
    <2> USE DEF ClientTypeOK
    <2>1. CASE UNCHANGED <<chatOf, active, stranded>>
        BY <2>1
    <2>2. CASE Send
        BY <2>2 DEF Send, Unused
    <2>3. ASSUME NEW c \in Chats \cup {NoChat}, Open(c) PROVE Places'
        BY <2>3 DEF Open, Aborted
    <2>4. ASSUME NEW c \in Chats, RemoveChat(c) PROVE Places'
        BY <2>4 DEF RemoveChat
    <2>5. CASE Reload
        BY <2>5 DEF Reload
    <2>6. CASE UNCHANGED clientVars
        BY <2>1, <2>6 DEF clientVars
    <2>7. CASE Stop \/ Persist
        BY <2>1, <2>7 DEF Stop, Persist
    <2>8. ASSUME NEW r \in Replies,
                 Delta(r) \/ Done(r) \/ EndOfStream(r) \/ Broken(r) \/ AbortNoticed(r)
          PROVE  Places'
        BY <2>1, <2>8 DEF Delta, Done, EndOfStream, Broken, AbortNoticed
    <2> QED BY <2>2, <2>3, <2>4, <2>5, <2>6, <2>7, <2>8 DEF ClientNext
<1> QED BY <1>1, <1>2 DEF ClientTypeOK, LoopState

\* What is proved of each part, of all of them.
PartsInv ==
    /\ SessionsInv /\ CollectionTypeOK /\ AccountsInv /\ LimitInv
    /\ RankingInv /\ RankedInv /\ CountersInv /\ ClientInv /\ ClientTypeOK

LEMMA PartsInvInit == PartsInit => PartsInv
BY SessionsInvInit, CollectionTypesInit, AccountsInvInit, LimitInvInit, RankingInvInit,
   RankedInvInit, CountersInvInit, ClientInvInit, ClientTypesInit
   DEF PartsInit, PartsInv

LEMMA PartsInvStep == PartsInv /\ [PartsNext]_partsVars => PartsInv'
<1> SUFFICES ASSUME PartsInv, [PartsNext]_partsVars PROVE PartsInv'
    OBVIOUS
<1>1. /\ [SessionsNext]_sessionVars /\ [CollectionNext]_collectionVars
      /\ [AccountsNext]_accountVars /\ [LimitNext]_limitVars
      /\ [RankingNext]_rankingVars /\ [CountersNext]_countersVars
      /\ [ClientNext]_clientVars
    BY DEF PartsNext, partsVars, OnlySessions, OnlyCollection, OnlyAccounts, OnlyLimit,
           OnlyRanking, OnlyCounters, OnlyClient
<1> QED
    BY <1>1, SessionsInvStep, CollectionTypesStep, AccountsInvStep, LimitInvStep,
       RankingInvStep, RankedInvStep, CountersInvStep, ClientInvStep, ClientTypesStep
       DEF PartsInv

LEMMA PartsInvariant == PartsSpec => []PartsInv
<1>1. PartsInit => PartsInv
    BY PartsInvInit
<1>2. PartsInv /\ [PartsNext]_partsVars => PartsInv'
    BY PartsInvStep
<1> QED BY <1>1, <1>2, PTL DEF PartsSpec

\* The state of every part is of its type, whichever part moves.
THEOREM PartsTypeCorrect == PartsSpec => []PartsTypeOK
<1>1. PartsInv => PartsTypeOK
    BY DEF PartsInv, PartsTypeOK, SessionsInv, AccountsInv, LimitInv, RankedInv,
           CountersInv
<1> QED BY <1>1, PartsInvariant, PTL

\* Whichever part moves, what the runs of MCServiceParts check of each part's states
\* is so: what a caller is told is in the audit log, the administrator is as was
\* reported, guesses are limited, fusion and reranking are fair, the rates are shares
\* and an unfinished reply is read.
THEOREM PartsStaySafe ==
    PartsSpec => [](/\ OutcomeIsAccounted /\ AccountIsAsReported
                    /\ UnverifiedAreLimited /\ FusionIsFair /\ RerankAligned
                    /\ RatesAreShares /\ UnfinishedIsRead)
<1> DEFINE Safe == /\ OutcomeIsAccounted /\ AccountIsAsReported
                   /\ UnverifiedAreLimited /\ FusionIsFair /\ RerankAligned
                   /\ RatesAreShares /\ UnfinishedIsRead
<1>1. ASSUME PartsInv PROVE Safe
    <2>1. OutcomeIsAccounted /\ AccountIsAsReported
        BY <1>1, SessionsInvAccounts DEF PartsInv, AccountsInv
    <2>2. UnverifiedAreLimited /\ RatesAreShares
        BY <1>1, LimitInvLimits, CountersInvShares DEF PartsInv
    <2>3. FusionIsFair
        BY <1>1, RankingInvIsFair DEF PartsInv
    <2>4. RerankAligned
        BY <1>1, RankedInvIsAligned DEF PartsInv
    <2>5. UnfinishedIsRead
        BY <1>1 DEF PartsInv, ClientInv, ReplyFits, UnfinishedIsRead, Unfinished
    <2> QED BY <2>1, <2>2, <2>3, <2>4, <2>5
<1> HIDE DEF Safe
<1>2. PartsSpec => []Safe
    BY <1>1, PartsInvariant, PTL
<1> QED BY <1>2 DEF Safe
=============================================================================
