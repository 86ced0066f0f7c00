--------------------------- MODULE PhotoFileCache ---------------------------
(***************************************************************************)
(* The cache of decoded photos (src/src/PhotoFileCache.cc).  Three maps    *)
(* describe what is in it; get keeps them in step and deletes the photos   *)
(* that were not used for longest.  Only the UI thread uses it.  A decoded *)
(* photo (ConvertedPhotoFile) is named by the sequence number at which it  *)
(* was created, so a photo that is read again is another object.           *)
(***************************************************************************)
EXTENDS Naturals, FiniteSets

CONSTANTS
  Paths,       \* the paths of photo files
  CACHESIZE    \* the size that the maps must stay below (6)

ASSUME CacheHasRoom == CACHESIZE \in Nat /\ CACHESIZE >= 2

VARIABLES
  map_path_to_file,              \* path |-> its decoded photo
  map_path_to_sequence_number,   \* path |-> when it was used last
  map_sequence_number_to_path,   \* and the same the other way round
  sequence_number

cacheVars == <<map_path_to_file, map_path_to_sequence_number,
               map_sequence_number_to_path, sequence_number>>

CacheInit ==
  /\ map_path_to_file = [p \in {} |-> 0]
  /\ map_path_to_sequence_number = [p \in {} |-> 0]
  /\ map_sequence_number_to_path = [n \in {} |-> 0]
  /\ sequence_number = 0

\* map[key] = value, and map.erase of some keys.
With(map, key, value) ==
  [k \in DOMAIN map \cup {key} |-> IF k = key THEN value ELSE map[k]]
Without(map, keys) == [k \in DOMAIN map \ keys |-> map[k]]

\* Faulty: the new number is recorded, the old one stays.
HitKeepingOldNumber(photoFilePath) ==
  LET now == sequence_number + 1
  IN  /\ photoFilePath \in DOMAIN map_path_to_file
      /\ sequence_number' = now
      /\ map_path_to_sequence_number' = With(map_path_to_sequence_number, photoFilePath, now)
      /\ map_sequence_number_to_path' =
           With(map_sequence_number_to_path, now, photoFilePath)
      /\ UNCHANGED map_path_to_file

\* Faulty: a photo that is used again keeps its place.
HitWithoutUse(photoFilePath) ==
  /\ photoFilePath \in DOMAIN map_path_to_file
  /\ sequence_number' = sequence_number + 1
  /\ UNCHANGED <<map_path_to_file, map_path_to_sequence_number, map_sequence_number_to_path>>

\* get of a photo that is in the cache: it is given a new sequence number.
Hit(photoFilePath) ==
  LET now == sequence_number + 1
      old == map_path_to_sequence_number[photoFilePath]
  IN  /\ photoFilePath \in DOMAIN map_path_to_file
      /\ sequence_number' = now
      /\ map_path_to_sequence_number' = With(map_path_to_sequence_number, photoFilePath, now)
      /\ map_sequence_number_to_path' =
           With(Without(map_sequence_number_to_path, {old}), now, photoFilePath)
      /\ UNCHANGED map_path_to_file

\* Faulty: the photos used last are deleted.
EvictedNewest(numbers) ==
  {n \in numbers : Cardinality({k \in numbers : k <= n}) >= CACHESIZE}

\* The loop removes the least number until fewer than CACHESIZE are left.
Evicted(numbers) ==
  {n \in numbers : Cardinality({k \in numbers : k >= n}) >= CACHESIZE}

\* get of a photo that is not: the file is read, added, and others make room.
Miss(photoFilePath) ==
  LET now     == sequence_number + 1
      files   == With(map_path_to_file, photoFilePath, now)
      numbers == With(map_path_to_sequence_number, photoFilePath, now)
      paths   == With(map_sequence_number_to_path, now, photoFilePath)
      lru     == Evicted(DOMAIN paths)
      lru_paths == {paths[n] : n \in lru}
  IN  /\ photoFilePath \notin DOMAIN map_path_to_file
      /\ sequence_number' = now
      /\ map_path_to_file' = Without(files, lru_paths)
      /\ map_path_to_sequence_number' = Without(numbers, lru_paths)
      /\ map_sequence_number_to_path' = Without(paths, lru)

\* get, and add, which only calls it.
Get(photoFilePath) == Hit(photoFilePath) \/ Miss(photoFilePath)

\* What get returns: the photo it finds, or the one it reads.
Returned(photoFilePath) ==
  IF photoFilePath \in DOMAIN map_path_to_file THEN map_path_to_file[photoFilePath]
                                               ELSE sequence_number + 1

CacheNext == \E p \in Paths : Get(p)

CacheSpec == CacheInit /\ [][CacheNext]_cacheVars

-----------------------------------------------------------------------------
\* Every variable keeps its type.
CacheTypeOK ==
  /\ sequence_number \in Nat
  /\ DOMAIN map_path_to_file \subseteq Paths
  /\ \A p \in DOMAIN map_path_to_file : map_path_to_file[p] \in 1 .. sequence_number
  /\ DOMAIN map_path_to_sequence_number \subseteq Paths
  /\ \A p \in DOMAIN map_path_to_sequence_number :
       map_path_to_sequence_number[p] \in 1 .. sequence_number
  /\ DOMAIN map_sequence_number_to_path \subseteq 1 .. sequence_number
  /\ \A n \in DOMAIN map_sequence_number_to_path : map_sequence_number_to_path[n] \in Paths

\* The three maps describe the same photos, each with one number: the loop, which
\* goes by the numbers, deletes and forgets the same photo (PhotoFileCache.cc:30-39).
MapsAgree ==
  /\ DOMAIN map_path_to_file = DOMAIN map_path_to_sequence_number
  /\ \A p \in DOMAIN map_path_to_sequence_number :
       /\ map_path_to_sequence_number[p] \in DOMAIN map_sequence_number_to_path
       /\ map_sequence_number_to_path[map_path_to_sequence_number[p]] = p
  /\ \A n \in DOMAIN map_sequence_number_to_path :
       /\ map_sequence_number_to_path[n] \in DOMAIN map_path_to_sequence_number
       /\ map_path_to_sequence_number[map_sequence_number_to_path[n]] = n

\* Fewer than CACHESIZE photos are kept, also the one just added (line 30).
CacheIsBounded ==
  /\ IsFiniteSet(DOMAIN map_path_to_file)
  /\ Cardinality(DOMAIN map_path_to_file) < CACHESIZE

Cache == INSTANCE RecentlyUsed
           WITH Things <- Paths, Limit <- CACHESIZE - 1,
                clock <- sequence_number, last_use <- map_path_to_sequence_number

\* The cache holds the photos that were used last.
HoldsRecentlyUsed == Cache!Spec
=============================================================================
