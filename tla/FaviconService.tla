--------------------------- MODULE FaviconService ---------------------------
(***************************************************************************)
(* FaviconService::get_storage (zoeken-favicons): concurrent lookups of    *)
(* favicons that miss the store share one resolution per authority by      *)
(* means of a lock that a map keeps per authority.  The futures may be     *)
(* dropped at any await.                                                   *)
(*                                                                         *)
(* The map's own mutex is never held across another await, so a step of    *)
(* the map is atomic.  Locks are numbered in the order of their creation;  *)
(* the caller that works under a lock is found by its phase.  favicon_get  *)
(* of SQLite reads the mapping and the blob in two statements; Postgres    *)
(* joins them, which is the two steps in a row.                            *)
(***************************************************************************)
EXTENDS FaviconStore

CONSTANTS
  Lookups,         \* calls of get_favicon
  AuthorityOf,     \* what each asks for
  Answers,         \* what the resolver may return: icons, "missing", "error"
  StorageMayFail,  \* whether storage calls fail
  RowsMayGo        \* whether mappings expire and are pruned meanwhile

ASSUME LookupsAssumption ==
  /\ AuthorityOf \in [Lookups -> Authorities]
  /\ Answers \subseteq Icons \cup {"missing", "error"}
  /\ StorageMayFail \in BOOLEAN
  /\ RowsMayGo \in BOOLEAN

VARIABLES
  pc,              \* where each caller is
  digest,          \* the digest it read, or the answer it got
  lockOf,          \* the lock it waits for or holds, 0 for none
  inFlight,        \* in_flight: the lock of each authority, 0 for none
  created          \* number of locks created

callVars == <<pc, digest, lockOf>>
lookupVars == <<favVars, callVars, inFlight, created>>

Phases == {"idle", "mapping", "blob", "waiting", "mapping_again", "blob_again",
           "resolving", "storing", "removing", "done"}

\* The phases in which a caller holds its lock.
Holding == {"mapping_again", "blob_again", "resolving", "storing", "removing"}

LookupTypeOK ==
  /\ FavTypeOK
  /\ pc \in [Lookups -> Phases]
  /\ digest \in [Lookups -> Icons \cup {"none", "missing", "error"}]
  /\ lockOf \in [Lookups -> 0..created]
  /\ inFlight \in [Authorities -> 0..created]
  /\ created \in 0..Cardinality(Lookups)

LookupInit ==
  /\ FavInit
  /\ pc = [c \in Lookups |-> "idle"]
  /\ digest = [c \in Lookups |-> "none"]
  /\ lockOf = [c \in Lookups |-> 0]
  /\ inFlight = [a \in Authorities |-> 0]
  /\ created = 0

----------------------------------------------------------------------------
Proceed(c, phase) == pc' = [pc EXCEPT ![c] = phase]

\* Return, which drops the guard of the lock.
Done(c) ==
  /\ Proceed(c, "done")
  /\ digest' = [digest EXCEPT ![c] = "none"]
  /\ lockOf' = [lockOf EXCEPT ![c] = 0]

Start(c) ==
  /\ pc[c] = "idle"
  /\ Proceed(c, "mapping")
  /\ UNCHANGED <<favVars, digest, lockOf, inFlight, created>>

\* A hit or a known miss: the caller has its answer; `miss` is for the others.
ReadMapping(c, phase, blobPhase, miss) ==
  LET seen == Visible(AuthorityOf[c]) IN
  /\ pc[c] = phase
  /\ \/ /\ seen = "missing"
        /\ Done(c)
     \/ /\ seen \in Icons
        /\ Proceed(c, blobPhase)
        /\ digest' = [digest EXCEPT ![c] = seen]
        /\ UNCHANGED lockOf
     \/ /\ seen = "absent"
        /\ Proceed(c, miss)
        /\ UNCHANGED <<digest, lockOf>>
  /\ UNCHANGED <<favVars, inFlight, created>>

ReadBlob(c, phase, miss) ==
  /\ pc[c] = phase
  /\ \/ /\ digest[c] \in blobs
        /\ Done(c)
     \/ /\ digest[c] \notin blobs
        /\ Proceed(c, miss)
        /\ digest' = [digest EXCEPT ![c] = "none"]
        /\ UNCHANGED lockOf
  /\ UNCHANGED <<favVars, inFlight, created>>

LookUpMapping(c) == ReadMapping(c, "mapping", "blob", "waiting")
LookUpBlob(c) == ReadBlob(c, "blob", "waiting")

\* Take the lock of the authority from the map, or put a new one there.
GetLock(c) ==
  LET a == AuthorityOf[c] IN
  /\ pc[c] = "waiting"
  /\ lockOf[c] = 0
  /\ IF inFlight[a] = 0
     THEN /\ created' = created + 1
          /\ inFlight' = [inFlight EXCEPT ![a] = created + 1]
          /\ lockOf' = [lockOf EXCEPT ![c] = created + 1]
     ELSE /\ lockOf' = [lockOf EXCEPT ![c] = inFlight[a]]
          /\ UNCHANGED <<inFlight, created>>
  /\ UNCHANGED <<favVars, pc, digest>>

\* Mutant of Free: everybody waits for the other waiters.
FreeSoleOwner(lock) == Cardinality({c \in Lookups : lockOf[c] = lock}) = 1

Free(lock) == \A c \in Lookups : lockOf[c] = lock => pc[c] \notin Holding

Lock(c) ==
  /\ pc[c] = "waiting"
  /\ lockOf[c] # 0
  /\ Free(lockOf[c])
  /\ Proceed(c, "mapping_again")
  /\ UNCHANGED <<favVars, digest, lockOf, inFlight, created>>

\* Whoever held the lock before may have stored the answer.
LookUpMappingAgain(c) ==
  ReadMapping(c, "mapping_again", "blob_again", "resolving")
LookUpBlobAgain(c) == ReadBlob(c, "blob_again", "resolving")

\* The resolver answers; an error is not stored.
Resolve(c) ==
  /\ pc[c] = "resolving"
  /\ \E answer \in Answers :
       /\ digest' = [digest EXCEPT ![c] = answer]
       /\ Proceed(c, IF answer = "error" THEN "removing" ELSE "storing")
  /\ UNCHANGED <<favVars, lockOf, inFlight, created>>

Store(c) ==
  /\ pc[c] = "storing"
  /\ FaviconPut(AuthorityOf[c], digest[c])
  /\ Proceed(c, "removing")
  /\ UNCHANGED <<digest, lockOf, inFlight, created>>

\* Forget the lock of the authority, whichever it is by now, and return.
Remove(c) ==
  /\ pc[c] = "removing"
  /\ inFlight' = [inFlight EXCEPT ![AuthorityOf[c]] = 0]
  /\ Done(c)
  /\ UNCHANGED <<favVars, created>>

\* A storage call fails: the first lookup, the one under the lock, the put.
StorageFails(c) ==
  /\ StorageMayFail
  /\ \/ /\ pc[c] \in {"mapping", "blob"}
        /\ Done(c)
     \/ /\ pc[c] \in {"mapping_again", "blob_again", "storing"}
        /\ Proceed(c, "removing")
        /\ UNCHANGED <<digest, lockOf>>
  /\ UNCHANGED <<favVars, inFlight, created>>

\* The future is dropped; the map keeps what it has.
CancelLookup(c) ==
  /\ pc[c] \notin {"idle", "done"}
  /\ Done(c)
  /\ UNCHANGED <<favVars, inFlight, created>>

\* Time and the storage monitor.
TableStep ==
  /\ RowsMayGo
  /\ MaintenanceFavicons \/ \E a \in Authorities : Expire(a)
  /\ UNCHANGED <<callVars, inFlight, created>>

CallStep(c) ==
  \/ LookUpMapping(c) \/ LookUpBlob(c) \/ GetLock(c) \/ Lock(c)
  \/ LookUpMappingAgain(c) \/ LookUpBlobAgain(c)
  \/ Resolve(c) \/ Store(c) \/ Remove(c) \/ StorageFails(c)

LookupNext ==
  \/ \E c \in Lookups : Start(c) \/ CallStep(c) \/ CancelLookup(c)
  \/ TableStep

LookupSpec == LookupInit /\ [][LookupNext]_lookupVars

\* The runtime polls every caller, and tokio's mutex serves its waiters in turn.
FairLookupSpec ==
  /\ LookupSpec
  /\ \A c \in Lookups : WF_lookupVars(CallStep(c)) /\ SF_lookupVars(Lock(c))

----------------------------------------------------------------------------
(* Properties.                                                             *)

(***************************************************************************)
(* A mapping always has its blob and a blob its mapping, whatever shares   *)
(* icons, replaces them, expires or prunes them.                           *)
(***************************************************************************)
TablesAgree == Referenced(mapping) = blobs

(***************************************************************************)
(* "Persistent cache misses are singleflighted": an authority is resolved  *)
(* by one caller at a time.                                                *)
(***************************************************************************)
SingleFlight ==
  \A c, d \in Lookups :
    /\ pc[c] = "resolving" /\ pc[d] = "resolving"
    /\ AuthorityOf[c] = AuthorityOf[d]
    => c = d

(***************************************************************************)
(* Every lookup returns, whoever is cancelled while it holds the lock and  *)
(* whatever fails: there is always a time again when none is under way.    *)
(***************************************************************************)
LookupsReturn == []<>(\A c \in Lookups : pc[c] \in {"idle", "done"})
=============================================================================
