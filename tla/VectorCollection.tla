-------------------------- MODULE VectorCollection --------------------------
(***************************************************************************)
(* The Qdrant collection of one organization. Every search and every      *)
(* upsert calls vector_store.ensure_collection first, which looks, sizes,  *)
(* drops and creates in separate requests and without a lock. The          *)
(* embedding model, and with it the dimension, changes by deploying a      *)
(* process with another configuration, while others still run.             *)
(***************************************************************************)
EXTENDS Naturals

CONSTANTS
    Processes,
    Vectors,          \* what the processes upsert
    OldDim, NewDim,   \* EMBEDDING_DIM before and after the deployment
    NoCollection

ASSUME CollectionAssumption ==
    NoCollection \notin [dim : {OldDim, NewDim}, points : SUBSET Vectors]

VARIABLES
    collection,  \* org_{id}: its size and its points
    dim,         \* the dimension each process is configured for
    ensuring     \* the request each process makes next

collectionVars == <<collection, dim, ensuring>>

Dims == {OldDim, NewDim}
Empty(d) == [dim |-> d, points |-> {}]

CollectionTypeOK ==
    /\ collection \in [dim : Dims, points : SUBSET Vectors] \cup {NoCollection}
    /\ dim \in [Processes -> Dims]
    /\ ensuring \in [Processes -> {"exists", "size", "drop", "create", "use"}]

\* Before the deployment; the organization may have uploaded nothing yet.
CollectionInit ==
    /\ collection \in {NoCollection, Empty(OldDim)}
    /\ dim = [p \in Processes |-> OldDim]
    /\ ensuring = [p \in Processes |-> "exists"]

Goes(p, next) == ensuring' = [ensuring EXCEPT ![p] = next]

CheckExists(p) ==
    /\ ensuring[p] = "exists"
    /\ Goes(p, IF collection = NoCollection THEN "create" ELSE "size")
    /\ UNCHANGED <<collection, dim>>

\* Mutant of CheckSize: a collection that fits is recreated as well.
CheckSizeInverted(p) ==
    /\ ensuring[p] = "size"
    /\ Goes(p, IF collection = NoCollection THEN "exists" ELSE "drop")
    /\ UNCHANGED <<collection, dim>>

\* get_collection fails when somebody has dropped the collection since.
CheckSize(p) ==
    /\ ensuring[p] = "size"
    /\ Goes(p, IF collection = NoCollection THEN "exists"
               ELSE IF collection.dim = dim[p] THEN "use" ELSE "drop")
    /\ UNCHANGED <<collection, dim>>

\* Whatever it is by now; dropping nothing is no error.
Drop(p) ==
    /\ ensuring[p] = "drop"
    /\ collection' = NoCollection
    /\ Goes(p, "create")
    /\ UNCHANGED dim

\* Mutant of Create: the size does not follow the configuration.
CreateFixedSize(p) ==
    /\ ensuring[p] = "create"
    /\ IF collection = NoCollection
       THEN collection' = Empty(OldDim) /\ Goes(p, "use")
       ELSE UNCHANGED collection /\ Goes(p, "exists")
    /\ UNCHANGED dim

\* Qdrant refuses to create what exists: the caller's request or job fails.
Create(p) ==
    /\ ensuring[p] = "create"
    /\ IF collection = NoCollection
       THEN collection' = Empty(dim[p]) /\ Goes(p, "use")
       ELSE UNCHANGED collection /\ Goes(p, "exists")
    /\ UNCHANGED dim

Fits(p) == collection # NoCollection /\ collection.dim = dim[p]

\* Qdrant refuses vectors of another length, as it refuses any without a
\* collection; nothing is done about points that are there already.
Upsert(p) ==
    /\ ensuring[p] = "use"
    /\ IF Fits(p)
       THEN \E v \in Vectors :
               collection' = [collection EXCEPT !.points = @ \cup {v}]
       ELSE UNCHANGED collection
    /\ Goes(p, "exists")
    /\ UNCHANGED dim

Query(p) ==
    /\ ensuring[p] = "use"
    /\ Goes(p, "exists")
    /\ UNCHANGED <<collection, dim>>

\* A request of ensure_collection fails, at the client or on the way.
RequestFails(p) ==
    /\ ensuring[p] # "exists"
    /\ Goes(p, "exists")
    /\ UNCHANGED <<collection, dim>>

\* The process is replaced by one with the new model.
Redeploy(p) ==
    /\ dim[p] = OldDim
    /\ dim' = [dim EXCEPT ![p] = NewDim]
    /\ Goes(p, "exists")
    /\ UNCHANGED collection

Ensure(p) == CheckExists(p) \/ CheckSize(p) \/ Drop(p) \/ Create(p)
Use(p) == Upsert(p) \/ Query(p)

CollectionNext ==
    \E p \in Processes : Ensure(p) \/ Use(p) \/ RequestFails(p) \/ Redeploy(p)

\* Every process is replaced in the end, and its searches and jobs go on: some
\* of them are not cut off at their first request, then at their second.
CollectionSpec ==
    /\ CollectionInit /\ [][CollectionNext]_collectionVars
    /\ \A p \in Processes :
          /\ WF_collectionVars(Redeploy(p))
          /\ WF_collectionVars(CheckExists(p) \/ Use(p))
          /\ SF_collectionVars(CheckSize(p))
          /\ SF_collectionVars(Drop(p))
          /\ SF_collectionVars(Create(p))

\* The collection fits every process, and none is still on its way to drop it.
Settled ==
    /\ collection # NoCollection
    /\ \A p \in Processes : collection.dim = dim[p] /\ ensuring[p] # "drop"

\* ensure_collection: "no-op if it exists". Unless a model is deployed, no search
\* and no upload, whatever the others are doing, loses a point of a collection
\* that fits; of two processes that saw the misfit, one may drop the collection
\* the other has made and filled.
FittingCollectionIsKept ==
    [][Settled /\ UNCHANGED dim
          => Settled' /\ collection.points \subseteq collection'.points]_collectionVars

\* However the requests of several processes meet, once all of them run the new
\* model the collection comes to fit it, and stays.
CollectionSettles == <>[]Settled
=============================================================================
