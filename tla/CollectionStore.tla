-------------------------- MODULE CollectionStore --------------------------
(***************************************************************************)
(* The PostgreSQL repository as the collector of one source uses it        *)
(* (internal/store/postgres/repository.go): the collection_cursors row of  *)
(* the source, its evidence_artifacts, and the collection_batch            *)
(* observations that record each batch identity.                           *)
(*                                                                         *)
(* Every operation is one statement or one serializable transaction that   *)
(* locks the cursor row, hence one action.  Time is abstracted to the one  *)
(* fact the statements test: whether lease_expires_at has passed.          *)
(***************************************************************************)
EXTENDS JsonlAdapter

CONSTANTS
  Fences,   \* lease fences (hash of owner and acquisition instant)
  NoFence   \* cursor_state 'active', lease_expires_at NULL

ASSUME FenceAssumption == NoFence \notin Fences

VARIABLES
  cursor,    \* decoded cursor_value: [seq, gen, digest]
  lease,     \* [fence, expired]: cursor_state and lease_expires_at
  evidence,  \* evidence_artifacts of the source
  batches    \* collection_batch observations

storeVars == <<cursor, lease, evidence, batches>>

BatchIDs == [gen : Generations, digest : Digests, from : Nat, next : Nat]
Batches  == [id : BatchIDs, records : SUBSET Records]
FreeLease == [fence |-> NoFence, expired |-> FALSE]

\* A source without a cursor row reads as cursor '0' that nobody leases.
StoreInit ==
  /\ cursor   = EmptyRequest
  /\ lease    = FreeLease
  /\ evidence = {}
  /\ batches  = {}

-----------------------------------------------------------------------------
(* Leases *)

\* Mutant: an expired lease is not taken over.
LeaseFree_NoTakeover == lease.fence = NoFence

LeaseFree == lease.fence = NoFence \/ lease.expired

AcquireCollectionLease(f) ==
  /\ LeaseFree
  /\ lease' = [fence |-> f, expired |-> FALSE]
  /\ UNCHANGED <<cursor, evidence, batches>>

LeaseHeld == ~LeaseFree

\* Mutant: the expiry is not looked at.
LeaseCurrent_FenceOnly(f) == lease.fence = f

\* Mutant: the fence is not compared.
LeaseCurrent_ExpiryOnly(f) == ~lease.expired

LeaseCurrent(f) == lease.fence = f /\ ~lease.expired

\* Renewal extends a lease that has not expired: expired stays FALSE.
RenewCollectionLease(f) ==
  /\ LeaseCurrent(f)
  /\ UNCHANGED storeVars

\* Release matches the fence only, so its holder may still release it after
\* expiry; the fence of an earlier holder matches no row.
ReleaseCollectionLease(f) ==
  /\ lease' = IF lease.fence = f THEN FreeLease ELSE lease
  /\ UNCHANGED <<cursor, evidence, batches>>

\* The clock passes lease_expires_at.
LeaseExpires ==
  /\ LeaseHeld
  /\ lease' = [lease EXCEPT !.expired = TRUE]
  /\ UNCHANGED <<cursor, evidence, batches>>

-----------------------------------------------------------------------------
(* Commit *)

\* The batch a run commits: its identity holds the cursor that was read, even
\* when the adapter found the source rotated and started over.
BatchOf(data, req) ==
  [ id      |-> [ gen  |-> ResultGeneration(data, req), digest |-> ResultDigest(data, req),
                  from |-> req.seq, next |-> NextCursor(data, req) ],
    records |-> ResultRecords(data, req) ]

\* cursor_value of a batch without generation drops the digest as well.
encodeCollectionCursor(id) ==
  [ seq    |-> id.next,
    gen    |-> id.gen,
    digest |-> IF id.gen = NoGeneration THEN NoDigest ELSE id.digest ]

SameGeneration(b) == cursor.gen = NoGeneration \/ cursor.gen = b.id.gen

SameAlias(r, s) == r.gen = s.gen /\ r.seq = s.seq

\* The stored batch, its digest and every evidence hash agree with b.
IsReplay(b) ==
  /\ cursor.digest = b.id.digest
  /\ b \in batches
  /\ b.records \subseteq evidence

\* ON CONFLICT ... WHERE content_hash = EXCLUDED.content_hash touches no row.
Conflicts(b) ==
  \E r \in b.records, s \in evidence : SameAlias(r, s) /\ r.content # s.content

\* The batch observation is inserted without ON CONFLICT.
DuplicateBatch(b) == \E c \in batches : c.id = b.id

\* Mutant: a batch that ends at the cursor counts as stale.
CommitResult_StaleAtCursor(b, f) ==
  IF ~LeaseCurrent(f) THEN "fenced"
  ELSE IF SameGeneration(b) /\ b.id.next <= cursor.seq THEN "stale"
  ELSE IF Conflicts(b) THEN "conflict"
  ELSE IF DuplicateBatch(b) THEN "duplicate"
  ELSE "committed"

\* What CommitCollection answers, its checks in the order of the code.
CommitResult(b, f) ==
  IF ~LeaseCurrent(f) THEN "fenced"
  ELSE IF SameGeneration(b) /\ b.id.next < cursor.seq THEN "stale"
  ELSE IF SameGeneration(b) /\ b.id.next = cursor.seq
       THEN IF IsReplay(b) THEN "replayed" ELSE "conflict"
  ELSE IF Conflicts(b) THEN "conflict"
  ELSE IF DuplicateBatch(b) THEN "duplicate"
  ELSE "committed"

\* The transaction: evidence, batch identity and cursor together, or nothing.
CommitCollection(b, f) ==
  IF CommitResult(b, f) = "committed"
  THEN /\ evidence' = evidence \cup b.records
       /\ batches'  = batches \cup {b}
       /\ cursor'   = encodeCollectionCursor(b.id)
       /\ UNCHANGED lease
  ELSE UNCHANGED storeVars

-----------------------------------------------------------------------------
(* Properties of the store, whoever its clients are *)

\* The checkpoint never runs ahead of the evidence: every record up to the cursor
\* is stored under the current generation with the contents the digest was taken
\* of, whatever overlaps, expires, crashes or is lost.
EvidenceCoversCursor ==
  /\ Len(cursor.digest.of) = cursor.seq
  /\ \A i \in 1 .. cursor.seq :
       [gen |-> cursor.gen, seq |-> i, content |-> cursor.digest.of[i]] \in evidence

\* The unique index on (source_id, external_alias_id) is never left with two
\* contents for one alias, although revisions revisit their aliases.
UniqueAliases ==
  \A r, s \in evidence : SameAlias(r, s) => r = s

\* Within a generation the cursor only moves forward, and it moves at all only
\* under a lease that is current in that very step.
CursorMovesForward ==
  [][ /\ lease.fence # NoFence /\ ~lease.expired
      /\ cursor'.gen = cursor.gen => cursor'.seq > cursor.seq ]_cursor
=============================================================================
