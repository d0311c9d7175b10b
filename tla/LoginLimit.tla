----------------------------- MODULE LoginLimit -----------------------------
(***************************************************************************)
(* The rate limit of POST /auth/login. The limiter counts, per process and *)
(* in memory, under the bucket that rate_limit_key names for a request.    *)
(***************************************************************************)
EXTENDS Naturals

CONSTANTS
    Clients, Addresses,
    HomeOf,      \* the address a client's requests come from
    ServiceKey,  \* SERVICE_API_KEY
    OtherKeys,   \* what else an X-API-Key header may say
    NoKey,
    MaxLogins,   \* 5 in a window of a minute
    MaxRestarts  \* bound on restarts of the backend within a window

ASSUME LoginLimitAssumption ==
    /\ HomeOf \in [Clients -> Addresses]
    /\ ServiceKey \notin OtherKeys \cup {NoKey} /\ NoKey \notin OtherKeys
    /\ MaxLogins \in Nat \ {0} /\ MaxRestarts \in Nat

VARIABLES
    taken,      \* the limiter's counters of the current window
    tokens,    \* clients that hold a token which has not expired
    attempts,  \* history: guesses from an address by callers who proved
               \* nothing, that were let through in this window
    forgotten  \* restarts since the window of an address began

limitVars == <<taken, tokens, attempts, forgotten>>

Keys == {ServiceKey, NoKey} \cup OtherKeys

\* A user's bucket, the service's, an address's; the last are what a header would
\* mint if it were believed.
Buckets == {"user", "service"} \cup Addresses \cup OtherKeys

LimitTypeOK ==
    /\ taken \in [Buckets -> 0..MaxLogins]
    /\ tokens \subseteq Clients
    /\ attempts \in [Addresses -> Nat]
    /\ forgotten \in [Addresses -> 0..MaxRestarts]

LimitInit ==
    /\ taken = [b \in Buckets |-> 0]
    /\ tokens = {}
    /\ attempts = [a \in Addresses |-> 0]
    /\ forgotten = [a \in Addresses |-> 0]

\* Mutant of RateLimitKey: the header is believed without comparing it.
KeyByHeader(c, key, bearer) ==
    IF key # NoKey THEN IF key = ServiceKey THEN "service" ELSE key
    ELSE IF bearer THEN "user" ELSE HomeOf[c]

\* key: the X-API-Key header; bearer: a token that decodes.
RateLimitKey(c, key, bearer) ==
    IF key = ServiceKey THEN "service" ELSE IF bearer THEN "user" ELSE HomeOf[c]

\* Mutant of TryLogin: one hit too many.
TryLoginOnceMore(c) ==
    \E key \in Keys, bearer \in BOOLEAN :
       LET bucket == RateLimitKey(c, key, bearer)
       IN  /\ bearer => c \in tokens
           /\ taken[bucket] <= MaxLogins
           /\ taken' = [taken EXCEPT ![bucket] = @ + 1]
           /\ UNCHANGED <<tokens, attempts, forgotten>>

\* A guess, which may be right. With the bucket full the answer is 429 and nothing
\* changes.
TryLogin(c) ==
    \E key \in Keys, bearer \in BOOLEAN, right \in BOOLEAN :
       LET bucket == RateLimitKey(c, key, bearer)
       IN  /\ bearer => c \in tokens
           /\ taken[bucket] < MaxLogins
           /\ taken' = [taken EXCEPT ![bucket] = @ + 1]
           /\ attempts' =
                 IF key = ServiceKey \/ bearer THEN attempts
                 ELSE [attempts EXCEPT ![HomeOf[c]] = @ + 1]
           /\ tokens' = IF right THEN tokens \cup {c} ELSE tokens
           /\ UNCHANGED forgotten

Expire(c) ==
    /\ c \in tokens
    /\ tokens' = tokens \ {c}
    /\ UNCHANGED <<taken, attempts, forgotten>>

\* The minute since a bucket's first hit is over.
NextWindow(b) ==
    /\ taken' = [taken EXCEPT ![b] = 0]
    /\ attempts' = [a \in Addresses |-> IF a = b THEN 0 ELSE attempts[a]]
    /\ forgotten' = [a \in Addresses |-> IF a = b THEN 0 ELSE forgotten[a]]
    /\ UNCHANGED tokens

\* The counters are lost, the tokens are not.
Restart ==
    /\ \A a \in Addresses : forgotten[a] < MaxRestarts
    /\ taken' = [b \in Buckets |-> 0]
    /\ forgotten' = [a \in Addresses |-> forgotten[a] + 1]
    /\ UNCHANGED <<tokens, attempts>>

LimitNext ==
    \/ \E c \in Clients : TryLogin(c) \/ Expire(c)
    \/ \E b \in Buckets : NextWindow(b)
    \/ Restart

LimitSpec == LimitInit /\ [][LimitNext]_limitVars

\* rate_limit_key: in one window no address gets more guesses than the limit,
\* however the headers and the tokens of its callers vary, but for a restart,
\* which forgets the count.
UnverifiedAreLimited ==
    \A a \in Addresses : attempts[a] <= MaxLogins * (1 + forgotten[a])
=============================================================================
