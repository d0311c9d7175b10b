--------------------------- MODULE MCServiceParts ---------------------------
(***************************************************************************)
(* Parts of the service that share no state, for TLC: a behaviour is one   *)
(* of one part, which is chosen at the start, while the others stand still.*)
(***************************************************************************)
EXTENDS RequestSessions, VectorCollection, AdminAccounts, LoginLimit,
        HybridRanking, AnswerCounters, ChatClient

VARIABLE part

partsVars == <<sessionVars, collectionVars, accountVars, limitVars, rankingVars,
               countersVars, clientVars, part>>

\* Every client has an address of its own.
MCHomeOf ==
    CHOOSE home \in [Clients -> Addresses] :
        \A c, d \in Clients : c # d => home[c] # home[d]

\* The reranker scores a text above the 0 of one that it does not name, or below.
MCScores == {-1, 1}

PartsInit ==
    /\ part \in {"sessions", "collection", "accounts", "limit", "ranking",
                 "counters", "client"}
    /\ SessionsInit /\ CollectionInit /\ AccountsInit /\ LimitInit /\ RankingInit
    /\ CountersInit /\ ClientInit
    /\ part # "collection" => collection = NoCollection

OnlySessions ==
    /\ part = "sessions"
    /\ UNCHANGED <<collectionVars, accountVars, limitVars, rankingVars,
                   countersVars, clientVars, part>>

OnlyCollection ==
    /\ part = "collection"
    /\ UNCHANGED <<sessionVars, accountVars, limitVars, rankingVars, countersVars,
                   clientVars, part>>

OnlyAccounts ==
    /\ part = "accounts"
    /\ UNCHANGED <<sessionVars, collectionVars, limitVars, rankingVars,
                   countersVars, clientVars, part>>

OnlyLimit ==
    /\ part = "limit"
    /\ UNCHANGED <<sessionVars, collectionVars, accountVars, rankingVars,
                   countersVars, clientVars, part>>

OnlyRanking ==
    /\ part = "ranking"
    /\ UNCHANGED <<sessionVars, collectionVars, accountVars, limitVars,
                   countersVars, clientVars, part>>

OnlyCounters ==
    /\ part = "counters"
    /\ UNCHANGED <<sessionVars, collectionVars, accountVars, limitVars,
                   rankingVars, clientVars, part>>

OnlyClient ==
    /\ part = "client"
    /\ UNCHANGED <<sessionVars, collectionVars, accountVars, limitVars,
                   rankingVars, countersVars, part>>

PartsNext ==
    \/ OnlySessions /\ SessionsNext
    \/ OnlyCollection /\ CollectionNext
    \/ OnlyAccounts /\ AccountsNext
    \/ OnlyLimit /\ LimitNext
    \/ OnlyRanking /\ RankingNext
    \/ OnlyCounters /\ CountersNext
    \/ OnlyClient /\ ClientNext

\* The fairness of SessionsSpec and of CollectionSpec, for the part that moves.
PartsSpec ==
    /\ PartsInit /\ [][PartsNext]_partsVars
    /\ \A r \in Requests : WF_partsVars(OnlySessions /\ (Proceed(r) \/ GiveUp(r)))
    /\ \A p \in Processes :
          /\ WF_partsVars(OnlyCollection /\ Redeploy(p))
          /\ WF_partsVars(OnlyCollection /\ (CheckExists(p) \/ Use(p)))
          /\ SF_partsVars(OnlyCollection /\ CheckSize(p))
          /\ SF_partsVars(OnlyCollection /\ Drop(p))
          /\ SF_partsVars(OnlyCollection /\ Create(p))

PartsTypeOK ==
    /\ SessionsTypeOK /\ CollectionTypeOK /\ AccountsTypeOK /\ LimitTypeOK
    /\ RankingTypeOK /\ CountersTypeOK /\ ClientTypeOK

\* CollectionSettles, of the behaviours in which that part moves.
TheCollectionSettles == part = "collection" => CollectionSettles
=============================================================================
