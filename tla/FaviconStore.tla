---------------------------- MODULE FaviconStore ----------------------------
(***************************************************************************)
(* The favicon tables of zoeken-storage: favicon_mappings, from authority  *)
(* to content digest, and favicon_blobs, the content.  Every operator is   *)
(* one transaction with the triggers it fires.                             *)
(*                                                                         *)
(* Abstractions.  An icon is its digest.  One resolver is configured, so a *)
(* mapping is keyed by authority alone.  Whether expires_at_ms has passed  *)
(* is a flag that an action sets.  Blobs are pruned in the order of        *)
(* created_at_ms, which is left open: any order may be the one.            *)
(***************************************************************************)
EXTENDS Integers, FiniteSets, FiniteSetsExt

CONSTANTS
  Authorities,
  Icons,           \* contents, by digest
  SizeOf,          \* bytes of each icon
  MaxBlob,         \* FaviconPolicy.max_blob_bytes
  MaxTotal         \* cache.favicons.max_total_bytes

ASSUME SizeAssumption ==
  /\ SizeOf \in [Icons -> Nat]
  /\ MaxBlob \in Nat
  /\ MaxTotal \in Nat

VARIABLES
  mapping,         \* digest of each authority, or "absent", or "missing"
  expired,         \* authorities whose mapping has run out
  blobs            \* digests with a row in favicon_blobs

favVars == <<mapping, expired, blobs>>

FavTypeOK ==
  /\ mapping \in [Authorities -> Icons \cup {"absent", "missing"}]
  /\ expired \in SUBSET Authorities
  /\ blobs \in SUBSET Icons

FavInit ==
  /\ mapping = [a \in Authorities |-> "absent"]
  /\ expired = {}
  /\ blobs = {}

\* Digests that mappings refer to.
Referenced(map) == {map[a] : a \in Authorities} \cap Icons

\* SUM_BLOB_BYTES
Total(icons) == MapThenSumSet(LAMBDA i : SizeOf[i], icons)

\* What a lookup of an authority makes of its mapping, before it reads a blob.
Visible(a) == IF a \in expired THEN "absent" ELSE mapping[a]

\* Mutant of Orphans: there is no such trigger.
OrphansLeft(old, map) == {}

\* What the update trigger deletes after a mapping stopped referring to `old`.
Orphans(old, map) == ({old} \cap Icons) \ Referenced(map)

(***************************************************************************)
(* favicon_put: insert the blob unless it is there, then the mapping.  An  *)
(* icon that is too large is refused without an error.                     *)
(***************************************************************************)
FaviconPut(a, value) ==
  LET map == [mapping EXCEPT ![a] = value]
      old == mapping[a]
  IN
  IF value \in Icons /\ SizeOf[value] > MaxBlob
  THEN UNCHANGED favVars
  ELSE /\ mapping' = map
       /\ expired' = expired \ {a}
       /\ blobs' = (blobs \cup ({value} \cap Icons))
                     \ (IF old = value THEN {} ELSE Orphans(old, map))

\* LIST_BLOBS_BY_AGE: delete one blob after the other until the rest fits.
Pruned(held, kept) ==
  /\ kept \subseteq held
  /\ Total(kept) <= MaxTotal
  /\ kept = held \/ \E last \in held \ kept : Total(kept \cup {last}) > MaxTotal

(***************************************************************************)
(* The part of maintenance that concerns favicons: expired mappings,       *)
(* orphans, and the oldest blobs with their mappings when they are too     *)
(* many.                                                                   *)
(***************************************************************************)
MaintenanceFavicons ==
  LET live == [a \in Authorities |-> Visible(a)]
      held == blobs \cap Referenced(live)
  IN
  \E kept \in SUBSET held :
    /\ Pruned(held, kept)
    /\ blobs' = kept
    /\ mapping' = [a \in Authorities |->
                     IF live[a] \in held \ kept THEN "absent" ELSE live[a]]
    /\ expired' = {}

\* Time passes expires_at_ms.
Expire(a) ==
  /\ a \notin expired
  /\ mapping[a] # "absent"
  /\ expired' = expired \cup {a}
  /\ UNCHANGED <<mapping, blobs>>
=============================================================================
