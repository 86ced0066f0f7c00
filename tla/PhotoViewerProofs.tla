------------------------- MODULE PhotoViewerProofs -------------------------
(***************************************************************************)
(* What PhotoFileCache and PhotoViewer promise, for any number of photos,  *)
(* pages and any size of the cache.  The first part is about the cache     *)
(* alone, the second about the pages that use it.                          *)
(***************************************************************************)
EXTENDS PhotoViewer, FiniteSetTheorems, WellFoundedInduction, TLAPS

\* Two maps are inverse to each other.
Inverses(numbers, paths) ==
  /\ \A p \in DOMAIN numbers : numbers[p] \in DOMAIN paths /\ paths[numbers[p]] = p
  /\ \A n \in DOMAIN paths : paths[n] \in DOMAIN numbers /\ numbers[paths[n]] = n

-----------------------------------------------------------------------------
(* Lemmas about maps and numbers. *)

\* A set of numbers that is not empty has a least one.
LEMMA LeastNumber ==
  ASSUME NEW S, S \subseteq Nat, S # {}
  PROVE  \E n \in S : \A k \in S : n <= k
<1>1. \E n \in S : \A k \in S : ~ (<<k, n>> \in OpToRel(<, Nat))
  BY NatLessThanWellFounded, WFMin
<1>2. PICK n \in S : \A k \in S : ~ (<<k, n>> \in OpToRel(<, Nat))
  BY <1>1
<1>3. ASSUME NEW k \in S
      PROVE  n <= k
  <2>1. ~ (k < n)
    BY <1>2 DEF OpToRel
  <2>. QED
    BY <2>1
<1>. QED
  BY <1>3

\* Adding a pair of a new path and a new number to both maps.
LEMMA AddedPair ==
  ASSUME NEW numbers, NEW paths, NEW p, NEW n,
         Inverses(numbers, paths), p \notin DOMAIN numbers, n \notin DOMAIN paths
  PROVE  Inverses(With(numbers, p, n), With(paths, n, p))
BY DEF Inverses, With

\* Giving a path a new number in both maps.
LEMMA RenumberedPath ==
  ASSUME NEW numbers, NEW paths, NEW p \in DOMAIN numbers, NEW n,
         Inverses(numbers, paths), n \notin DOMAIN paths
  PROVE  Inverses(With(numbers, p, n), With(Without(paths, {numbers[p]}), n, p))
BY DEF Inverses, With, Without

\* Removing numbers, and their paths, from both maps.
LEMMA RemovedPairs ==
  ASSUME NEW numbers, NEW paths, NEW ns \in SUBSET DOMAIN paths,
         Inverses(numbers, paths)
  PROVE  Inverses(Without(numbers, {paths[n] : n \in ns}), Without(paths, ns))
BY DEF Inverses, Without

\* Inverse maps have as many paths as numbers.
LEMMA AsManyPaths ==
  ASSUME NEW numbers, NEW paths, Inverses(numbers, paths), IsFiniteSet(DOMAIN paths)
  PROVE  /\ IsFiniteSet(DOMAIN numbers)
         /\ Cardinality(DOMAIN numbers) = Cardinality(DOMAIN paths)
<1>1. [n \in DOMAIN paths |-> paths[n]] \in Bijection(DOMAIN paths, DOMAIN numbers)
  BY DEF Inverses, Bijection, Injection, Surjection, IsInjective
<1>2. ExistsBijection(DOMAIN paths, DOMAIN numbers)
  BY <1>1 DEF ExistsBijection
<1>. QED
  BY <1>2, FS_Bijection

\* As many paths have a number beyond n as there are numbers beyond n.
LEMMA AsManyLater ==
  ASSUME NEW numbers, NEW paths, Inverses(numbers, paths), IsFiniteSet(DOMAIN paths),
         NEW n
  PROVE  Cardinality({p \in DOMAIN numbers : numbers[p] > n})
           = Cardinality({k \in DOMAIN paths : k > n})
<1>. DEFINE ks == {k \in DOMAIN paths : k > n}
            ps == {p \in DOMAIN numbers : numbers[p] > n}
<1>1. [k \in ks |-> paths[k]] \in Bijection(ks, ps)
  BY DEF Inverses, Bijection, Injection, Surjection, IsInjective
<1>2. ExistsBijection(ks, ps)
  BY <1>1 DEF ExistsBijection
<1>3. IsFiniteSet(ks)
  BY FS_Subset
<1>. QED
  BY <1>2, <1>3, FS_Bijection

\* Fewer than CACHESIZE numbers are left.
LEMMA FewAreKept ==
  ASSUME NEW S, S \subseteq Nat, IsFiniteSet(S)
  PROVE  Cardinality(S \ Evicted(S)) < CACHESIZE
<1>. DEFINE kept == S \ Evicted(S)
<1>1. CASE kept = {}
  BY <1>1, FS_EmptySet, CacheHasRoom
<1>2. CASE kept # {}
  <2>1. PICK n \in kept : \A k \in kept : n <= k
    BY <1>2, LeastNumber
  <2>2. /\ kept \subseteq {k \in S : k >= n}
        /\ IsFiniteSet({k \in S : k >= n})
    BY <2>1, FS_Subset
  <2>3. Cardinality(kept) <= Cardinality({k \in S : k >= n})
    BY <2>2, FS_Subset
  <2>4. ~ (Cardinality({k \in S : k >= n}) >= CACHESIZE)
    BY <2>1 DEF Evicted
  <2>5. /\ Cardinality(kept) \in Nat
        /\ Cardinality({k \in S : k >= n}) \in Nat
    BY <2>2, FS_Subset, FS_CardinalityType
  <2>. QED
    BY <2>3, <2>4, <2>5, CacheHasRoom
<1>. QED
  BY <1>1, <1>2

\* A number is kept when fewer than CACHESIZE - 1 are greater.
LEMMA KeptNumbers ==
  ASSUME NEW S, S \subseteq Nat, IsFiniteSet(S), NEW n \in S
  PROVE  n \notin Evicted(S) <=> Cardinality({k \in S : k > n}) < CACHESIZE - 1
<1>. DEFINE later == {k \in S : k > n}
<1>1. IsFiniteSet(later) /\ n \notin later
  BY FS_Subset
<1>2. {k \in S : k >= n} = later \cup {n}
  <2>1. \A k \in S : k >= n <=> k > n \/ k = n
    OBVIOUS
  <2>. QED
    BY <2>1
<1>3. Cardinality({k \in S : k >= n}) = Cardinality(later) + 1
  BY <1>1, <1>2, FS_AddElement
<1>4. Cardinality(later) \in Nat
  BY <1>1, FS_CardinalityType
<1>. QED
  BY <1>3, <1>4, CacheHasRoom DEF Evicted

-----------------------------------------------------------------------------
(* The cache. *)

NumbersAreFew ==
  /\ IsFiniteSet(DOMAIN map_sequence_number_to_path)
  /\ Cardinality(DOMAIN map_sequence_number_to_path) < CACHESIZE

\* The boundedness of the cache rests on the agreement of its maps.
CacheIInv == CacheTypeOK /\ MapsAgree /\ NumbersAreFew

\* The two numbered maps agree when they are inverse to each other.
LEMMA MapsAgreeIsInverses ==
  MapsAgree <=> /\ DOMAIN map_path_to_file = DOMAIN map_path_to_sequence_number
                /\ Inverses(map_path_to_sequence_number, map_sequence_number_to_path)
BY DEF MapsAgree, Inverses

\* An empty cache satisfies the invariant.
LEMMA CacheInitIInv == CacheInit => CacheIInv
<1>. SUFFICES ASSUME CacheInit PROVE CacheIInv
  OBVIOUS
<1>1. CacheTypeOK /\ MapsAgree
  BY DEF CacheInit, CacheTypeOK, MapsAgree
<1>2. DOMAIN map_sequence_number_to_path = {}
  BY DEF CacheInit
<1>. QED
  BY <1>1, <1>2, FS_EmptySet, CacheHasRoom DEF CacheIInv, NumbersAreFew

\* The next sequence number is not in use.
LEMMA NextNumberIsFree ==
  ASSUME CacheTypeOK
  PROVE  /\ sequence_number + 1 \notin DOMAIN map_sequence_number_to_path
         /\ DOMAIN map_sequence_number_to_path \subseteq Nat
BY DEF CacheTypeOK

\* A photo that is found is renumbered in both maps.
LEMMA HitIInv ==
  ASSUME CacheIInv, NEW p \in Paths, Hit(p)
  PROVE  CacheIInv'
<1>. DEFINE now == sequence_number + 1
            old == map_path_to_sequence_number[p]
<1>1. CacheTypeOK /\ MapsAgree /\ NumbersAreFew
  BY DEF CacheIInv
<1>2. /\ p \in DOMAIN map_path_to_sequence_number
      /\ old \in DOMAIN map_sequence_number_to_path
  BY <1>1 DEF Hit, MapsAgree
<1>3. CacheTypeOK'
  BY <1>1, <1>2 DEF CacheTypeOK, Hit, With, Without
<1>4. MapsAgree'
  <2>1. Inverses(map_path_to_sequence_number, map_sequence_number_to_path)
    BY <1>1, MapsAgreeIsInverses
  <2>2. Inverses(map_path_to_sequence_number', map_sequence_number_to_path')
    BY <1>1, <1>2, <2>1, RenumberedPath, NextNumberIsFree DEF Hit
  <2>3. DOMAIN map_path_to_sequence_number' = DOMAIN map_path_to_sequence_number
    BY <1>2 DEF Hit, With
  <2>. QED
    BY <1>1, <2>2, <2>3 DEF MapsAgree, Inverses, Hit
<1>5. NumbersAreFew'
  <2>. DEFINE ns == DOMAIN map_sequence_number_to_path
  <2>1. DOMAIN map_sequence_number_to_path' = (ns \ {old}) \cup {now}
    BY DEF Hit, With, Without
  <2>2. /\ IsFiniteSet(ns \ {old})
        /\ Cardinality(ns \ {old}) = Cardinality(ns) - 1
    BY <1>1, <1>2, FS_RemoveElement DEF NumbersAreFew
  <2>3. now \notin ns \ {old}
    BY <1>1, NextNumberIsFree
  <2>4. /\ IsFiniteSet((ns \ {old}) \cup {now})
        /\ Cardinality((ns \ {old}) \cup {now}) = Cardinality(ns \ {old}) + 1
    BY <2>2, <2>3, FS_AddElement
  <2>5. Cardinality(ns) \in Nat
    BY <1>1, FS_CardinalityType DEF NumbersAreFew
  <2>. QED
    BY <1>1, <2>1, <2>2, <2>4, <2>5 DEF NumbersAreFew
<1>. QED
  BY <1>3, <1>4, <1>5 DEF CacheIInv

\* A photo that is read is added to all maps, and what makes room leaves all of them.
LEMMA MissIInv ==
  ASSUME CacheIInv, NEW p \in Paths, Miss(p)
  PROVE  CacheIInv'
<1>. DEFINE now     == sequence_number + 1
            numbers == With(map_path_to_sequence_number, p, now)
            paths   == With(map_sequence_number_to_path, now, p)
            lru     == Evicted(DOMAIN paths)
<1>1. CacheTypeOK /\ MapsAgree /\ NumbersAreFew
  BY DEF CacheIInv
<1>2. /\ p \notin DOMAIN map_path_to_sequence_number
      /\ now \in Nat
  BY <1>1 DEF Miss, MapsAgree, CacheTypeOK
<1>3. /\ DOMAIN paths = DOMAIN map_sequence_number_to_path \cup {now}
      /\ DOMAIN paths \subseteq Nat
      /\ IsFiniteSet(DOMAIN paths)
  <2>1. DOMAIN paths = DOMAIN map_sequence_number_to_path \cup {now}
    BY DEF With
  <2>. QED
    BY <1>1, <1>2, <2>1, NextNumberIsFree, FS_AddElement DEF NumbersAreFew
<1>4. lru \in SUBSET DOMAIN paths
  BY DEF Evicted
<1>5. CacheTypeOK'
  <2>1. /\ sequence_number' = now
        /\ DOMAIN map_path_to_file' \subseteq DOMAIN map_path_to_file \cup {p}
        /\ \A q \in DOMAIN map_path_to_file' :
             map_path_to_file'[q] = IF q = p THEN now ELSE map_path_to_file[q]
    BY DEF Miss, With, Without
  <2>2. /\ DOMAIN map_path_to_sequence_number'
             \subseteq DOMAIN map_path_to_sequence_number \cup {p}
        /\ \A q \in DOMAIN map_path_to_sequence_number' :
             map_path_to_sequence_number'[q]
               = IF q = p THEN now ELSE map_path_to_sequence_number[q]
    BY DEF Miss, With, Without
  <2>3. /\ DOMAIN map_sequence_number_to_path'
             \subseteq DOMAIN map_sequence_number_to_path \cup {now}
        /\ \A n \in DOMAIN map_sequence_number_to_path' :
             map_sequence_number_to_path'[n]
               = IF n = now THEN p ELSE map_sequence_number_to_path[n]
    BY DEF Miss, With, Without
  <2>. QED
    BY <1>1, <2>1, <2>2, <2>3 DEF CacheTypeOK
<1>6. MapsAgree'
  <2>1. Inverses(numbers, paths)
    BY <1>1, <1>2, MapsAgreeIsInverses, NextNumberIsFree, AddedPair
  <2>2. Inverses(map_path_to_sequence_number', map_sequence_number_to_path')
    BY <1>4, <2>1, RemovedPairs DEF Miss
  <2>3. DOMAIN map_path_to_file' = DOMAIN map_path_to_sequence_number'
    BY <1>1 DEF Miss, MapsAgree, With, Without
  <2>. QED
    BY <2>2, <2>3 DEF MapsAgree, Inverses
<1>7. NumbersAreFew'
  <2>1. DOMAIN map_sequence_number_to_path' = DOMAIN paths \ lru
    BY DEF Miss, Without
  <2>2. IsFiniteSet(DOMAIN paths \ lru)
    BY <1>3, FS_Difference
  <2>. QED
    BY <1>3, <2>1, <2>2, FewAreKept DEF NumbersAreFew
<1>. QED
  BY <1>5, <1>6, <1>7 DEF CacheIInv

\* The invariant of the cache is inductive.
LEMMA CacheNextIInv == CacheIInv /\ [CacheNext]_cacheVars => CacheIInv'
<1>. SUFFICES ASSUME CacheIInv, [CacheNext]_cacheVars PROVE CacheIInv'
  OBVIOUS
<1>1. CASE CacheNext
  BY <1>1, HitIInv, MissIInv DEF CacheNext, Get
<1>2. CASE UNCHANGED cacheVars
  BY <1>2 DEF cacheVars, CacheIInv, CacheTypeOK, MapsAgree, NumbersAreFew
<1>. QED
  BY <1>1, <1>2

\* So it always holds.
LEMMA CacheIInvAlways == CacheSpec => []CacheIInv
BY CacheInitIInv, CacheNextIInv, PTL DEF CacheSpec

\* As many photos as numbers, and few numbers: few photos.
LEMMA CacheIInvBounds == CacheIInv => CacheIsBounded
<1>. SUFFICES ASSUME CacheIInv PROVE CacheIsBounded
  OBVIOUS
<1>1. Inverses(map_path_to_sequence_number, map_sequence_number_to_path)
  BY MapsAgreeIsInverses DEF CacheIInv
<1>2. DOMAIN map_path_to_file = DOMAIN map_path_to_sequence_number
  BY DEF CacheIInv, MapsAgree
<1>. QED
  BY <1>1, <1>2, AsManyPaths DEF CacheIInv, NumbersAreFew, CacheIsBounded

\* The instance counts as this module does.
LEMMA SameCardinality == \A S : Cache!Cardinality(S) = Cardinality(S)
BY DEF Cache!Cardinality, Cardinality

\* Using a photo of the cache again makes room for nothing: all are recent.
LEMMA HitUses ==
  ASSUME CacheIInv, NEW p \in Paths, Hit(p)
  PROVE  Cache!Use(p)
<1>. DEFINE numbers == map_path_to_sequence_number
            uses    == Cache!Uses(p)
            later(t) == {u \in DOMAIN uses : uses[u] > uses[t]}
<1>1. /\ p \in DOMAIN numbers
      /\ \A q \in DOMAIN numbers : numbers[q] \in Nat
      /\ sequence_number \in Nat
  BY DEF CacheIInv, CacheTypeOK, MapsAgree, Hit
<1>2. /\ IsFiniteSet(DOMAIN numbers)
      /\ Cardinality(DOMAIN numbers) < CACHESIZE
  BY CacheIInvBounds DEF CacheIsBounded, CacheIInv, MapsAgree
<1>3. /\ DOMAIN uses = DOMAIN numbers
      /\ \A q \in DOMAIN uses : uses[q] \in Nat
  BY <1>1 DEF Cache!Uses
<1>4. ASSUME NEW t \in DOMAIN numbers
      PROVE  Cardinality(later(t)) < CACHESIZE - 1
  <2>1. later(t) \subseteq DOMAIN numbers \ {t}
    BY <1>3
  <2>2. /\ IsFiniteSet(DOMAIN numbers \ {t})
        /\ Cardinality(DOMAIN numbers \ {t}) = Cardinality(DOMAIN numbers) - 1
    BY <1>2, FS_RemoveElement
  <2>3. /\ Cardinality(later(t)) <= Cardinality(DOMAIN numbers \ {t})
        /\ IsFiniteSet(later(t))
    BY <2>1, <2>2, FS_Subset
  <2>4. Cardinality(later(t)) \in Nat /\ Cardinality(DOMAIN numbers) \in Nat
    BY <1>2, <2>3, FS_CardinalityType
  <2>. HIDE DEF later
  <2>. QED
    BY <1>2, <2>2, <2>3, <2>4, CacheHasRoom
<1>5. Cache!Recent(uses) = DOMAIN uses
  BY <1>3, <1>4, SameCardinality DEF Cache!Recent
<1>6. map_path_to_sequence_number' = [u \in Cache!Recent(uses) |-> uses[u]]
  BY <1>5 DEF Hit, With, Cache!Uses
<1>7. sequence_number' = sequence_number + 1
  BY DEF Hit
<1>. QED
  BY <1>6, <1>7 DEF Cache!Use

\* A new photo drives out exactly those that are not recent any more.
LEMMA MissUses ==
  ASSUME CacheIInv, NEW p \in Paths, Miss(p)
  PROVE  Cache!Use(p)
<1>. DEFINE now     == sequence_number + 1
            numbers == With(map_path_to_sequence_number, p, now)
            paths   == With(map_sequence_number_to_path, now, p)
            lru     == Evicted(DOMAIN paths)
            lru_paths == {paths[n] : n \in lru}
<1>1. CacheTypeOK /\ MapsAgree /\ NumbersAreFew
  BY DEF CacheIInv
<1>2. p \notin DOMAIN map_path_to_sequence_number
  BY <1>1 DEF Miss, MapsAgree
<1>3. Inverses(numbers, paths)
  BY <1>1, <1>2, MapsAgreeIsInverses, NextNumberIsFree, AddedPair
<1>4. DOMAIN paths \subseteq Nat /\ IsFiniteSet(DOMAIN paths)
  <2>1. DOMAIN paths = DOMAIN map_sequence_number_to_path \cup {now}
    BY DEF With
  <2>2. now \in Nat
    BY <1>1 DEF CacheTypeOK
  <2>. QED
    BY <1>1, <2>1, <2>2, NextNumberIsFree, FS_AddElement DEF NumbersAreFew
<1>5. lru \subseteq DOMAIN paths
  BY DEF Evicted
<1>6. Cache!Uses(p) = numbers
  BY DEF Cache!Uses, With
<1>7. ASSUME NEW q \in DOMAIN numbers
      PROVE  q \notin lru_paths
               <=> Cardinality({u \in DOMAIN numbers : numbers[u] > numbers[q]}) < CACHESIZE - 1
  <2>. HIDE DEF numbers, paths, lru
  <2>1. numbers[q] \in DOMAIN paths /\ paths[numbers[q]] = q
    BY <1>3 DEF Inverses
  <2>2. q \in lru_paths <=> numbers[q] \in lru
    BY <1>3, <1>5, <2>1 DEF Inverses
  <2>3. numbers[q] \notin lru
          <=> Cardinality({k \in DOMAIN paths : k > numbers[q]}) < CACHESIZE - 1
    BY <1>4, <2>1, KeptNumbers DEF lru
  <2>4. Cardinality({u \in DOMAIN numbers : numbers[u] > numbers[q]})
          = Cardinality({k \in DOMAIN paths : k > numbers[q]})
    BY <1>3, <1>4, AsManyLater
  <2>. QED
    BY <2>2, <2>3, <2>4
<1>8. Cache!Recent(numbers) = DOMAIN numbers \ lru_paths
  <2>. HIDE DEF numbers, lru_paths
  <2>. QED
    BY <1>7, SameCardinality DEF Cache!Recent
<1>9. map_path_to_sequence_number' = [u \in Cache!Recent(numbers) |-> numbers[u]]
  <2>1. map_path_to_sequence_number' = Without(numbers, lru_paths)
    BY DEF Miss
  <2>. QED
    BY <1>8, <2>1 DEF Without
<1>10. sequence_number' = sequence_number + 1
  BY DEF Miss
<1>. QED
  BY <1>6, <1>9, <1>10 DEF Cache!Use

\* A step of the cache is a use of a photo, or nothing.
LEMMA CacheStepUses ==
  CacheIInv /\ [CacheNext]_cacheVars
    => [Cache!Next]_<<sequence_number, map_path_to_sequence_number>>
<1>. SUFFICES ASSUME CacheIInv, [CacheNext]_cacheVars
              PROVE  [Cache!Next]_<<sequence_number, map_path_to_sequence_number>>
  OBVIOUS
<1>1. CASE CacheNext
  BY <1>1, HitUses, MissUses DEF CacheNext, Get, Cache!Next
<1>2. CASE UNCHANGED cacheVars
  BY <1>2 DEF cacheVars
<1>. QED
  BY <1>1, <1>2

\* Whoever uses the cache, it holds the photos used last.
LEMMA CacheImplements == CacheSpec => HoldsRecentlyUsed
<1>1. CacheInit => Cache!Init
  BY DEF CacheInit, Cache!Init
<1>2. CacheIInv /\ [CacheNext]_cacheVars => [Cache!Next]_(Cache!recentVars)
  BY CacheStepUses DEF Cache!recentVars
<1>. QED
  BY <1>1, <1>2, CacheIInvAlways, PTL DEF CacheSpec, HoldsRecentlyUsed, Cache!Spec

\* What get returns is in the cache when it returns, whatever it deleted.
LEMMA ReturnedIsKept ==
  ASSUME CacheIInv, NEW p \in Paths, Get(p)
  PROVE  p \in DOMAIN map_path_to_file' /\ map_path_to_file'[p] = Returned(p)
<1>1. CASE Hit(p)
  BY <1>1 DEF Hit, Returned
<1>2. CASE Miss(p)
  <2>. DEFINE now   == sequence_number + 1
              paths == With(map_sequence_number_to_path, now, p)
              lru   == Evicted(DOMAIN paths)
  <2>1. CacheTypeOK /\ now \in Nat
    BY DEF CacheIInv, CacheTypeOK
  <2>2. {k \in DOMAIN paths : k >= now} = {now}
    BY <2>1 DEF With, CacheTypeOK
  <2>3. now \notin lru
    <3>1. Cardinality({k \in DOMAIN paths : k >= now}) = 1
      BY <2>2, FS_Singleton
    <3>2. ~ (1 >= CACHESIZE)
      BY CacheHasRoom
    <3>. QED
      BY <3>1, <3>2 DEF Evicted
  <2>4. \A n \in lru : paths[n] # p
    <3>1. \A n \in DOMAIN map_sequence_number_to_path : map_sequence_number_to_path[n] # p
      BY <1>2 DEF CacheIInv, MapsAgree, Miss
    <3>. QED
      BY <2>3, <3>1 DEF With, Evicted
  <2>. QED
    BY <1>2, <2>4 DEF Miss, With, Without, Returned
<1>. QED
  BY <1>1, <1>2 DEF Get

-----------------------------------------------------------------------------
(* The pages. *)

\* A page that is open shows a photo, or the program has stopped.
PhotosAreShown ==
  /\ running => \A p \in open : Path(p) \in Paths
  /\ drawing # NoDrawing => running

IInv ==
  /\ CacheIInv
  /\ TypeOK
  /\ PhotosAreShown
  /\ PositionInRange
  /\ DrawsLivePhoto
  /\ ScaledForItsPhoto
  /\ ShowsStoredRotation

\* clip_position leads into the list, or to -1.
LEMMA ClippedIsInRange ==
  ASSUME NEW files \in Seq(Paths), NEW position \in Int
  PROVE  /\ Clipped(position, Len(files)) \in Int
         /\ IF files = <<>> THEN Clipped(position, Len(files)) = -1
            ELSE Clipped(position, Len(files)) \in 0 .. Len(files) - 1
<1>1. Len(files) \in Nat /\ (Len(files) = 0 <=> files = <<>>)
  OBVIOUS
<1>. QED
  BY <1>1 DEF Clipped

\* getPhotoFilePath returns a path of the list or none.
LEMMA PathAtIsPath ==
  ASSUME NEW files \in Seq(Paths), NEW position \in Int
  PROVE  PathAt(files, position) \in Paths \cup {NoPath}
<1>1. CASE position \in 0 .. Len(files) - 1
  <2>1. position + 1 \in 1 .. Len(files)
    BY <1>1
  <2>. QED
    BY <1>1, <2>1 DEF PathAt
<1>2. CASE position \notin 0 .. Len(files) - 1
  BY <1>2 DEF PathAt
<1>. QED
  BY <1>1, <1>2

\* No page is open at first.
LEMMA InitIInv == Init => IInv
<1>. SUFFICES ASSUME Init PROVE IInv
  OBVIOUS
<1>1. CacheIInv
  BY CacheInitIInv DEF Init
<1>2. TypeOK
  BY <1>1, BoundsAreNumbers DEF Init, TypeOK, CacheIInv
<1>3. PhotosAreShown /\ PositionInRange /\ ScaledForItsPhoto /\ ShowsStoredRotation
  BY DEF Init, PhotosAreShown, PositionInRange, ScaledForItsPhoto, ShowsStoredRotation
<1>4. DrawsLivePhoto
  BY DEF Init, DrawsLivePhoto
<1>. QED
  BY <1>1, <1>2, <1>3, <1>4 DEF IInv

\* The cache is as it was.
LEMMA CacheUnchanged ==
  ASSUME CacheIInv, UNCHANGED cacheVars
  PROVE  CacheIInv' /\ CacheTypeOK'
BY CacheNextIInv DEF CacheIInv

\* Moving a page, also when it is opened.
LEMMA DisplayIInv ==
  ASSUME IInv, Idle,
         NEW p \in Pages, NEW files \in Seq(Paths), NEW position \in Int,
         Display(p, files, position), open' = open \cup {p},
         photoFilenameVector' = [photoFilenameVector EXCEPT ![p] = files]
  PROVE  IInv'
<1>. DEFINE clipped == Clipped(position, Len(files))
            path    == PathAt(files, clipped)
<1>1. /\ CacheIInv /\ TypeOK /\ PhotosAreShown /\ PositionInRange
      /\ ScaledForItsPhoto /\ ShowsStoredRotation
  BY DEF IInv
<1>2. CacheIInv' /\ CacheTypeOK'
  BY <1>1, CacheUnchanged DEF Display, cacheVars
<1>3. /\ clipped \in Int
      /\ IF files = <<>> THEN clipped = -1 ELSE clipped \in 0 .. Len(files) - 1
      /\ path \in Paths \cup {NoPath}
  BY ClippedIsInRange, PathAtIsPath
<1>. HIDE DEF clipped
<1>4. /\ photoFilenameVector \in [Pages -> Seq(Paths)]
      /\ photoFilenameVectorPosition' = [photoFilenameVectorPosition EXCEPT ![p] = clipped]
      /\ photoFilenameVectorPosition \in [Pages -> Int]
      /\ open \subseteq Pages
      /\ angle \in [Checksums -> 0 .. 3] /\ angle' = angle
  BY <1>1 DEF TypeOK, Display, clipped
<1>5. Path(p)' = path /\ \A q \in open \ {p} : Path(q)' = Path(q)
  BY <1>4 DEF Path
<1>6. StoredAngle(path) \in 0 .. 3
  BY <1>4, ChecksumsOfPhotos DEF StoredAngle
<1>. HIDE DEF path
<1>7. TypeOK'
  <2>1. rotation' = [rotation EXCEPT ![p] = StoredAngle(path)]
          \/ rotation' = [rotation EXCEPT ![p] = 0]
    BY DEF Display, path, clipped
  <2>2. rotation' \in [Pages -> 0 .. 3]
    <3>1. rotation \in [Pages -> 0 .. 3] /\ 0 \in 0 .. 3
      BY <1>1 DEF TypeOK
    <3>. QED
      BY <1>6, <2>1, <3>1, Zenon
  <2>3. faults' \in 0 .. MaxFaults
    BY <1>1, BoundsAreNumbers DEF TypeOK, Display, Fault
  <2>4. position_entry' \in [Pages -> Int]
    BY <1>1, <1>3 DEF TypeOK, Display, clipped
  <2>5. photoFilenameVectorPosition' \in [Pages -> Int]
    BY <1>3, <1>4
  <2>6. running' \in BOOLEAN
    BY DEF Display, HasExifs
  <2>7. calculated_initial_scaling' \in [Pages -> BOOLEAN]
    BY <1>1 DEF TypeOK, Display
  <2>. QED
    BY <1>1, <1>2, <1>4, <2>2, <2>3, <2>4, <2>5, <2>6, <2>7 DEF TypeOK, Display, Idle
<1>8. PhotosAreShown'
  <2>1. running' => path # NoPath
    BY DEF Display, HasExifs, path, clipped
  <2>. QED
    BY <1>1, <1>3, <1>5, <2>1 DEF PhotosAreShown, Display, Idle, path
<1>9. PositionInRange'
  <2>1. position_entry' = [position_entry EXCEPT ![p] = clipped + 1]
    BY DEF Display, clipped
  <2>. QED
    BY <1>1, <1>3, <1>4, <2>1 DEF PositionInRange, TypeOK
<1>10. DrawsLivePhoto'
  BY DEF DrawsLivePhoto, Display, Idle
<1>11. ScaledForItsPhoto'
  BY <1>1, <1>4, <1>5 DEF ScaledForItsPhoto, TypeOK, Display
<1>12. ShowsStoredRotation'
  <2>1. \/ /\ rotation' = [rotation EXCEPT ![p] = StoredAngle(path)]
           /\ disturbed' = disturbed \ {p}
        \/ /\ rotation' = [rotation EXCEPT ![p] = 0]
           /\ disturbed' = disturbed \cup {p}
    BY DEF Display, path, clipped
  <2>2. \A f : StoredAngle(f)' = StoredAngle(f)
    BY <1>4 DEF StoredAngle
  <2>. QED
    BY <1>1, <1>4, <1>5, <2>1, <2>2 DEF ShowsStoredRotation, TypeOK
<1>. QED
  BY <1>2, <1>7, <1>8, <1>9, <1>10, <1>11, <1>12 DEF IInv

\* set_position moves within the list, whatever the number is.
LEMMA SetPositionDisplays ==
  ASSUME NEW p, NEW files \in Seq(Paths), NEW val \in Int, SetPosition(p, files, val)
  PROVE  \E position \in Int : Display(p, files, position)
<1>1. Len(files) \in Nat
  OBVIOUS
<1>2. (IF (IF val < 1 THEN 1 ELSE val) > Len(files) THEN Len(files)
       ELSE (IF val < 1 THEN 1 ELSE val)) - 1 \in Int
  BY <1>1
<1>. QED
  BY <1>2 DEF SetPosition

\* The four ways to move a page.
LEMMA MovingIInv ==
  ASSUME IInv, NEW p \in Pages,
         Open(p) \/ PositionEntryActivate(p) \/ NextPhoto(p) \/ Back(p)
  PROVE  IInv'
<1>1. /\ photoFilenameVector \in [Pages -> Seq(Paths)]
      /\ photoFilenameVectorPosition \in [Pages -> Int]
  BY DEF IInv, TypeOK
<1>2. photoFilenameVector[p] \in Seq(Paths) /\ photoFilenameVectorPosition[p] \in Int
  BY <1>1
<1>3. ASSUME Idle, p \in open, UNCHANGED <<open, photoFilenameVector>>,
             NEW position \in Int, Display(p, photoFilenameVector[p], position)
      PROVE  IInv'
  <2>1. /\ open' = open \cup {p}
        /\ photoFilenameVector' = [photoFilenameVector EXCEPT ![p] = photoFilenameVector[p]]
    BY <1>1, <1>3
  <2>. QED
    BY <1>2, <1>3, <2>1, DisplayIInv
<1>4. CASE Open(p)
  <2>1. PICK files \in PhotoLists :
          /\ photoFilenameVector' = [photoFilenameVector EXCEPT ![p] = files]
          /\ \E val \in {1} \cup DOMAIN files : SetPosition(p, files, val)
    BY <1>4 DEF Open
  <2>2. files \in Seq(Paths)
    BY ListsOfPhotos
  <2>3. \A val \in {1} \cup DOMAIN files : val \in Int
    BY <2>2
  <2>4. PICK position \in Int : Display(p, files, position)
    BY <2>1, <2>2, <2>3, SetPositionDisplays
  <2>5. Idle /\ open' = open \cup {p}
    BY <1>4 DEF Open
  <2>. QED
    BY <2>1, <2>2, <2>4, <2>5, DisplayIInv
<1>5. CASE PositionEntryActivate(p)
  <2>1. PICK val \in Typed : SetPosition(p, photoFilenameVector[p], val)
    BY <1>5 DEF PositionEntryActivate
  <2>2. \E position \in Int : Display(p, photoFilenameVector[p], position)
    BY <1>2, <2>1, NumbersAreTyped, SetPositionDisplays
  <2>. QED
    BY <1>3, <1>5, <2>2 DEF PositionEntryActivate
<1>6. CASE NextPhoto(p)
  <2>1. photoFilenameVectorPosition[p] + 1 \in Int
    BY <1>2
  <2>. QED
    BY <1>3, <1>6, <2>1 DEF NextPhoto
<1>7. CASE Back(p)
  <2>1. photoFilenameVectorPosition[p] - 1 \in Int
    BY <1>2
  <2>. QED
    BY <1>3, <1>7, <2>1 DEF Back
<1>. QED
  BY <1>4, <1>5, <1>6, <1>7

\* The pages keep their lists and positions.
LEMMA PathsUnchanged ==
  ASSUME NEW p, UNCHANGED <<photoFilenameVector, photoFilenameVectorPosition>>
  PROVE  Path(p)' = Path(p)
BY DEF Path

\* A page that rotates its photo shows what it stores; others that show it are disturbed.
LEMMA RotateIInv ==
  ASSUME IInv, NEW p \in Pages, Rotate(p)
  PROVE  IInv'
<1>. DEFINE turned == (rotation[p] + 1) % 4
<1>1. /\ CacheIInv /\ TypeOK /\ PhotosAreShown /\ PositionInRange
      /\ ScaledForItsPhoto /\ ShowsStoredRotation
  BY DEF IInv
<1>2. CacheIInv' /\ CacheTypeOK'
  BY <1>1, CacheUnchanged DEF Rotate, cacheVars
<1>3. \A q : Path(q)' = Path(q)
  BY PathsUnchanged DEF Rotate
<1>4. Path(p) \in Paths /\ checksumId[Path(p)] \in Checksums
  BY <1>1, ChecksumsOfPhotos DEF PhotosAreShown, Rotate, Idle
<1>5. turned \in 0 .. 3
  <2>1. rotation[p] \in 0 .. 3
    BY <1>1 DEF TypeOK
  <2>. QED
    BY <2>1
<1>6. /\ rotation' = [rotation EXCEPT ![p] = turned]
      /\ \/ /\ angle' = [angle EXCEPT ![checksumId[Path(p)]] = turned]
            /\ disturbed' = (disturbed \cup Showing(Path(p))) \ {p}
         \/ /\ angle' = angle
            /\ disturbed' = disturbed \cup {p}
      /\ open' = open
  BY DEF Rotate
<1>7. angle \in [Checksums -> 0 .. 3] /\ rotation \in [Pages -> 0 .. 3]
  BY <1>1 DEF TypeOK
<1>8. faults' \in 0 .. MaxFaults /\ turns' \in 0 .. MaxTurns
  BY <1>1, BoundsAreNumbers DEF TypeOK, Rotate, Fault
<1>. HIDE DEF turned
<1>9. TypeOK'
  <2>1. angle' \in [Checksums -> 0 .. 3] /\ rotation' \in [Pages -> 0 .. 3]
    BY <1>4, <1>5, <1>6, <1>7
  <2>2. disturbed' \subseteq open' /\ invalid' \subseteq open'
    BY <1>1, <1>6 DEF TypeOK, Rotate, Showing
  <2>. QED
    BY <1>1, <1>2, <1>8, <2>1, <2>2 DEF TypeOK, Rotate
<1>10. PhotosAreShown' /\ PositionInRange' /\ ScaledForItsPhoto'
  BY <1>1, <1>3 DEF PhotosAreShown, PositionInRange, ScaledForItsPhoto, Rotate
<1>11. DrawsLivePhoto'
  BY DEF DrawsLivePhoto, Rotate, Idle
<1>12. ShowsStoredRotation'
  <2>1. ASSUME NEW q \in open \ disturbed'
        PROVE  rotation'[q] = StoredAngle(Path(q))'
    <3>1. q \in Pages /\ Path(q) \in Paths /\ Path(q)' = Path(q)
      BY <1>1, <1>3 DEF TypeOK, PhotosAreShown, Rotate, Idle
    <3>2. q # p => q \notin disturbed /\ rotation[q] = angle[checksumId[Path(q)]]
      BY <1>1, <1>6, <2>1, <3>1 DEF ShowsStoredRotation, StoredAngle
    <3>3. CASE q = p
      BY <1>4, <1>6, <1>7, <2>1, <3>1, <3>3 DEF StoredAngle
    <3>4. CASE q # p
      <4>1. angle'[checksumId[Path(q)]] = angle[checksumId[Path(q)]]
        BY <1>6, <1>7, <2>1, <3>1, <3>4, ChecksumsOfPhotos DEF Showing
      <4>. QED
        BY <1>6, <1>7, <3>1, <3>2, <3>4, <4>1 DEF StoredAngle
    <3>. QED
      BY <3>3, <3>4
  <2>. QED
    BY <1>6, <2>1 DEF ShowsStoredRotation
<1>. QED
  BY <1>2, <1>9, <1>10, <1>11, <1>12 DEF IInv

\* A photo that is rotated elsewhere disturbs the pages that show it.
LEMMA RotateThumbnailIInv ==
  ASSUME IInv, RotateThumbnail
  PROVE  IInv'
<1>1. /\ CacheIInv /\ TypeOK /\ PhotosAreShown /\ PositionInRange
      /\ ScaledForItsPhoto /\ ShowsStoredRotation
  BY DEF IInv
<1>2. CacheIInv' /\ CacheTypeOK'
  BY <1>1, CacheUnchanged DEF RotateThumbnail, cacheVars
<1>3. \A q : Path(q)' = Path(q)
  BY PathsUnchanged DEF RotateThumbnail, pageVars
<1>4. PICK path \in Paths, turned \in 0 .. 3 :
        /\ angle' = [angle EXCEPT ![checksumId[path]] = turned]
        /\ disturbed' = disturbed \cup Showing(path)
  BY DEF RotateThumbnail
<1>5. TypeOK'
  <2>1. angle' \in [Checksums -> 0 .. 3] /\ disturbed' \subseteq open
    BY <1>1, <1>4, ChecksumsOfPhotos DEF TypeOK, Showing
  <2>2. turns' \in 0 .. MaxTurns
    BY <1>1, BoundsAreNumbers DEF TypeOK, RotateThumbnail
  <2>. QED
    BY <1>1, <1>2, <2>1, <2>2 DEF TypeOK, RotateThumbnail, pageVars
<1>6. PhotosAreShown' /\ PositionInRange' /\ ScaledForItsPhoto'
  BY <1>1, <1>3 DEF PhotosAreShown, PositionInRange, ScaledForItsPhoto, RotateThumbnail,
                    pageVars
<1>7. DrawsLivePhoto'
  BY DEF DrawsLivePhoto, RotateThumbnail, Idle
<1>8. ShowsStoredRotation'
  <2>1. ASSUME NEW q \in open \ disturbed'
        PROVE  rotation[q] = StoredAngle(Path(q))'
    <3>1. /\ Path(q) \in Paths => checksumId[Path(q)] # checksumId[path]
          /\ rotation[q] = StoredAngle(Path(q))
      BY <1>1, <1>4, <2>1 DEF ShowsStoredRotation, Showing
    <3>2. angle \in [Checksums -> 0 .. 3]
      BY <1>1 DEF TypeOK
    <3>. QED
      BY <1>3, <1>4, <3>1, <3>2, ChecksumsOfPhotos DEF StoredAngle
  <2>. QED
    BY <2>1 DEF ShowsStoredRotation, RotateThumbnail, pageVars
<1>. QED
  BY <1>2, <1>5, <1>6, <1>7, <1>8 DEF IInv

\* A page that closes leaves the others as they are.
LEMMA CloseIInv ==
  ASSUME IInv, NEW p \in Pages, Close(p)
  PROVE  IInv'
<1>1. /\ CacheIInv /\ TypeOK /\ PhotosAreShown /\ PositionInRange
      /\ ScaledForItsPhoto /\ ShowsStoredRotation
  BY DEF IInv
<1>2. CacheIInv' /\ CacheTypeOK'
  BY <1>1, CacheUnchanged DEF Close, cacheVars
<1>3. \A q \in open' : q \in open /\ q # p /\ Path(q)' = Path(q)
  BY <1>1 DEF Close, Path, TypeOK
<1>4. TypeOK'
  <2>1. <<>> \in Seq(Paths) /\ 0 \in 0 .. 3 /\ -1 \in Int
    OBVIOUS
  <2>2. drawing' = NoDrawing
    BY DEF Close, Idle
  <2>3. rotation' \in [Pages -> 0 .. 3] /\ photoFilenameVector' \in [Pages -> Seq(Paths)]
    BY <1>1, <2>1 DEF Close, TypeOK
  <2>. QED
    BY <1>1, <1>2, <2>2, <2>3 DEF TypeOK, Close
<1>5. PhotosAreShown'
  BY <1>1, <1>3 DEF PhotosAreShown, Close, Idle
<1>6. PositionInRange'
  BY <1>1, <1>3 DEF PositionInRange, Close, TypeOK
<1>7. ScaledForItsPhoto'
  BY <1>1, <1>3 DEF ScaledForItsPhoto, Close, TypeOK
<1>8. DrawsLivePhoto'
  BY DEF DrawsLivePhoto, Close, Idle
<1>9. ShowsStoredRotation'
  <2>1. \A f : StoredAngle(f)' = StoredAngle(f)
    BY DEF StoredAngle, Close
  <2>. QED
    BY <1>1, <1>3, <2>1 DEF ShowsStoredRotation, Close, TypeOK
<1>. QED
  BY <1>2, <1>4, <1>5, <1>6, <1>7, <1>8, <1>9 DEF IInv

\* The photo that is taken stays while it is drawn.
LEMMA StartRedrawIInv ==
  ASSUME IInv, NEW p \in Pages, StartRedraw(p)
  PROVE  IInv' /\ CacheNext
<1>1. /\ CacheIInv /\ TypeOK /\ PhotosAreShown /\ PositionInRange
      /\ ScaledForItsPhoto /\ ShowsStoredRotation
  BY DEF IInv
<1>2. p \in open /\ running /\ Path(p) \in Paths
  BY <1>1 DEF PhotosAreShown, TypeOK, StartRedraw, Idle
<1>3. Get(Path(p)) /\ CacheNext
  BY <1>2 DEF StartRedraw, CacheNext
<1>4. CacheIInv' /\ CacheTypeOK'
  BY <1>1, <1>3, CacheNextIInv DEF CacheIInv
<1>5. \A q : Path(q)' = Path(q)
  BY PathsUnchanged DEF StartRedraw
<1>6. drawing'.page = p /\ drawing'.photo = Returned(Path(p))
  BY DEF StartRedraw
<1>7. TypeOK'
  BY <1>1, <1>2, <1>4, <1>6 DEF TypeOK, StartRedraw
<1>8. PhotosAreShown' /\ PositionInRange' /\ ScaledForItsPhoto'
  BY <1>1, <1>2, <1>5 DEF PhotosAreShown, PositionInRange, ScaledForItsPhoto, StartRedraw
<1>9. DrawsLivePhoto'
  <2>1. /\ Path(p) \in DOMAIN map_path_to_file'
        /\ map_path_to_file'[Path(p)] = Returned(Path(p))
    BY <1>1, <1>2, <1>3, ReturnedIsKept
  <2>. QED
    BY <1>5, <1>6, <2>1 DEF DrawsLivePhoto
<1>10. ShowsStoredRotation'
  BY <1>1, <1>5 DEF ShowsStoredRotation, StoredAngle, StartRedraw
<1>. QED
  BY <1>3, <1>4, <1>7, <1>8, <1>9, <1>10 DEF IInv

\* The second get finds the photo, so it deletes none.
LEMMA CalculateInitialScalingIInv ==
  ASSUME IInv, CalculateInitialScaling
  PROVE  IInv' /\ CacheNext
<1>1. /\ CacheIInv /\ TypeOK /\ PhotosAreShown /\ PositionInRange /\ DrawsLivePhoto
      /\ ScaledForItsPhoto /\ ShowsStoredRotation
  BY DEF IInv
<1>. DEFINE p == drawing.page
<1>2. p \in open /\ p \in Pages /\ running /\ Path(p) \in Paths
  BY <1>1 DEF PhotosAreShown, TypeOK, CalculateInitialScaling
<1>3. Get(Path(p)) /\ CacheNext
  BY <1>2 DEF CalculateInitialScaling, CacheNext
<1>4. CacheIInv' /\ CacheTypeOK'
  BY <1>1, <1>3, CacheNextIInv DEF CacheIInv
<1>5. \A q : Path(q)' = Path(q)
  BY PathsUnchanged DEF CalculateInitialScaling
<1>6. TypeOK'
  BY <1>1, <1>2, <1>4 DEF TypeOK, CalculateInitialScaling
<1>7. PhotosAreShown' /\ PositionInRange'
  BY <1>1, <1>5 DEF PhotosAreShown, PositionInRange, CalculateInitialScaling
<1>8. ScaledForItsPhoto'
  BY <1>1, <1>2, <1>5 DEF ScaledForItsPhoto, TypeOK, CalculateInitialScaling
<1>9. DrawsLivePhoto'
  <2>1. /\ Path(p) \in DOMAIN map_path_to_file
        /\ map_path_to_file[Path(p)] = drawing.photo
    BY <1>1 DEF DrawsLivePhoto, CalculateInitialScaling
  <2>2. Hit(Path(p))
    BY <1>3, <2>1 DEF Get, Miss
  <2>. QED
    BY <1>5, <2>1, <2>2 DEF Hit, DrawsLivePhoto, CalculateInitialScaling
<1>10. ShowsStoredRotation'
  BY <1>1, <1>5 DEF ShowsStoredRotation, StoredAngle, CalculateInitialScaling
<1>. QED
  BY <1>3, <1>4, <1>6, <1>7, <1>8, <1>9, <1>10 DEF IInv

\* Painting changes nothing else.
LEMMA FinishRedrawIInv ==
  ASSUME IInv, FinishRedraw
  PROVE  IInv'
<1>1. /\ CacheIInv /\ TypeOK /\ PhotosAreShown /\ PositionInRange
      /\ ScaledForItsPhoto /\ ShowsStoredRotation
  BY DEF IInv
<1>2. CacheIInv' /\ CacheTypeOK'
  BY <1>1, CacheUnchanged DEF FinishRedraw, cacheVars
<1>3. \A q : Path(q)' = Path(q)
  BY PathsUnchanged DEF FinishRedraw, pageVars
<1>4. TypeOK'
  BY <1>1, <1>2 DEF TypeOK, FinishRedraw, pageVars
<1>5. PhotosAreShown' /\ PositionInRange' /\ ScaledForItsPhoto' /\ DrawsLivePhoto'
  BY <1>1, <1>3 DEF PhotosAreShown, PositionInRange, ScaledForItsPhoto, DrawsLivePhoto,
                    FinishRedraw, pageVars
<1>6. ShowsStoredRotation'
  BY <1>1, <1>3 DEF ShowsStoredRotation, StoredAngle, FinishRedraw, pageVars
<1>. QED
  BY <1>2, <1>4, <1>5, <1>6 DEF IInv

\* Every step keeps the invariant, and is for the cache a get of one photo or nothing.
LEMMA NextIInv == IInv /\ [Next]_vars => IInv' /\ [CacheNext]_cacheVars
<1>. SUFFICES ASSUME IInv, [Next]_vars PROVE IInv' /\ [CacheNext]_cacheVars
  OBVIOUS
<1>1. ASSUME NEW p \in Pages,
             Open(p) \/ PositionEntryActivate(p) \/ NextPhoto(p) \/ Back(p)
      PROVE  IInv' /\ UNCHANGED cacheVars
  <2>1. UNCHANGED cacheVars
    BY <1>1 DEF Open, PositionEntryActivate, NextPhoto, Back, SetPosition, Display, cacheVars
  <2>. QED
    BY <1>1, <2>1, MovingIInv
<1>2. ASSUME NEW p \in Pages, Rotate(p)
      PROVE  IInv' /\ UNCHANGED cacheVars
  BY <1>2, RotateIInv DEF Rotate, cacheVars
<1>3. ASSUME NEW p \in Pages, Close(p)
      PROVE  IInv' /\ UNCHANGED cacheVars
  BY <1>3, CloseIInv DEF Close, cacheVars
<1>4. ASSUME NEW p \in Pages, StartRedraw(p)
      PROVE  IInv' /\ CacheNext
  BY <1>4, StartRedrawIInv
<1>5. CASE RotateThumbnail
  BY <1>5, RotateThumbnailIInv DEF RotateThumbnail, cacheVars
<1>6. CASE CalculateInitialScaling
  BY <1>6, CalculateInitialScalingIInv
<1>7. CASE FinishRedraw
  BY <1>7, FinishRedrawIInv DEF FinishRedraw, cacheVars
<1>8. CASE UNCHANGED vars
  <2>1. CacheIInv' /\ CacheTypeOK' /\ UNCHANGED cacheVars
    BY <1>8, CacheUnchanged DEF vars, cacheVars, IInv
  <2>2. \A q : Path(q)' = Path(q)
    BY <1>8, PathsUnchanged DEF vars, pageVars
  <2>3. TypeOK'
    BY <1>8, <2>1 DEF IInv, TypeOK, vars, pageVars
  <2>4. PhotosAreShown' /\ PositionInRange' /\ ScaledForItsPhoto' /\ DrawsLivePhoto'
    BY <1>8, <2>2 DEF IInv, PhotosAreShown, PositionInRange, ScaledForItsPhoto,
                      DrawsLivePhoto, vars, pageVars, cacheVars
  <2>5. ShowsStoredRotation'
    BY <1>8, <2>2 DEF IInv, ShowsStoredRotation, StoredAngle, vars, pageVars
  <2>. QED
    BY <2>1, <2>3, <2>4, <2>5 DEF IInv
<1>. QED
  BY <1>1, <1>2, <1>3, <1>4, <1>5, <1>6, <1>7, <1>8 DEF Next

\* The invariant of the cache and its pages always holds.
LEMMA IInvAlways == Spec => []IInv
BY InitIInv, NextIInv, PTL DEF Spec

\* The pages use the cache by its get only.
LEMMA PagesUseCache == Spec => CacheSpec
<1>1. Init => CacheInit
  BY DEF Init
<1>. QED
  BY <1>1, NextIInv, IInvAlways, PTL DEF Spec, CacheSpec

-----------------------------------------------------------------------------
\* Every variable of the cache and of the pages keeps its type (SinglePhotoPage.cc,
\* ConversionEngine.cc, PhotoFileCache.cc).
THEOREM ViewerTypeCorrect == Spec => []TypeOK
BY IInvAlways, PTL DEF IInv

\* The three maps of PhotoFileCache stay in step whatever photos are shown in whatever
\* order, so that what get deletes is what it forgets.
THEOREM ViewerMapsAgree == Spec => []MapsAgree
<1>1. IInv => MapsAgree
  BY DEF IInv, CacheIInv
<1>. QED
  BY <1>1, IInvAlways, PTL

\* Fewer than CACHESIZE decoded photos are kept (PhotoFileCache.cc:30).
THEOREM ViewerCacheIsBounded == Spec => []CacheIsBounded
<1>1. IInv => CacheIsBounded
  BY CacheIInvBounds DEF IInv
<1>. QED
  BY <1>1, IInvAlways, PTL

\* The position of a page stays in its list, whatever is typed and clicked
\* (ConversionEngine::clip_position).
THEOREM ViewerPositionInRange == Spec => []PositionInRange
BY IInvAlways, PTL DEF IInv

\* redraw_image never paints from a photo that the cache has deleted, though it gets
\* the photo a second time while it holds it.
THEOREM ViewerDrawsLivePhoto == Spec => []DrawsLivePhoto
BY IInvAlways, PTL DEF IInv

\* No photo is drawn at the scale of the one before it.
THEOREM ViewerScaledForItsPhoto == Spec => []ScaledForItsPhoto
BY IInvAlways, PTL DEF IInv

\* A page shows the stored rotation of its own photo unless it was rotated elsewhere
\* or a transaction failed.
THEOREM ViewerShowsStoredRotation == Spec => []ShowsStoredRotation
BY IInvAlways, PTL DEF IInv

\* PhotoFileCache implements RecentlyUsed: it holds the photos that were used last.
THEOREM ViewerHoldsRecentlyUsed == Spec => HoldsRecentlyUsed
BY PagesUseCache, CacheImplements, PTL
\* A page turns from the rotation it shows, which is the stored one.
LEMMA TurnAddsUp ==
  ASSUME IInv, NEW q \in Pages, Rotate(q), NEW p \in open \ disturbed,
         rotation'[p] # rotation[p], NEW c \in Checksums
  PROVE  \/ angle'[c] = angle[c]
         \/ c = checksumId[Path(p)] /\ angle'[c] = (angle[c] + 1) % 4
<1>1. /\ angle \in [Checksums -> 0 .. 3] /\ rotation \in [Pages -> 0 .. 3]
      /\ p \in Pages
  BY DEF IInv, TypeOK
<1>2. p = q
  BY <1>1 DEF Rotate
<1>3. Path(p) \in Paths
  BY DEF IInv, PhotosAreShown, Rotate, Idle
<1>4. rotation[p] = angle[checksumId[Path(p)]]
  BY <1>3 DEF IInv, ShowsStoredRotation, StoredAngle
<1>5. \/ angle' = [angle EXCEPT ![checksumId[Path(p)]] = (rotation[p] + 1) % 4]
      \/ angle' = angle
  BY <1>2 DEF Rotate
<1>. QED
  BY <1>1, <1>4, <1>5

\* SinglePhotoPage.cc, rotate: turns made on pages that show what is stored add up, and
\* touch no other photo.
THEOREM ViewerTurnsAddUp == Spec => TurnsAddUp
<1>1. ASSUME IInv, [Next]_vars, NEW p \in open \cap open',
             rotation'[p] # rotation[p], p \notin disturbed, NEW c \in Checksums
      PROVE  \/ angle'[c] = angle[c]
             \/ c = checksumId[Path(p)] /\ angle'[c] = (angle[c] + 1) % 4
  <2>1. CASE \E q \in Pages : Rotate(q)
    BY <1>1, <2>1, TurnAddsUp
  <2>2. CASE \/ \E q \in Pages : \/ Open(q) \/ PositionEntryActivate(q) \/ NextPhoto(q)
                                 \/ Back(q) \/ Close(q) \/ StartRedraw(q)
             \/ CalculateInitialScaling \/ FinishRedraw \/ UNCHANGED vars
    <3>1. angle' = angle
      BY <2>2 DEF Open, PositionEntryActivate, NextPhoto, Back, SetPosition, Display, Close,
                  StartRedraw, CalculateInitialScaling, FinishRedraw, vars
    <3>. QED
      BY <3>1
  <2>3. ~RotateThumbnail
    BY <1>1 DEF RotateThumbnail, pageVars
  <2>. QED
    BY <1>1, <2>1, <2>2, <2>3 DEF Next
<1>2. IInv /\ [Next]_vars =>
        [\A p \in open \cap open' :
           rotation'[p] # rotation[p] /\ Path(p)' = Path(p) /\ p \notin disturbed =>
             \A c \in Checksums :
               \/ angle'[c] = angle[c]
               \/ c = checksumId[Path(p)] /\ angle'[c] = (angle[c] + 1) % 4]_vars
  BY <1>1
<1>. QED
  BY <1>2, IInvAlways, PTL DEF Spec, TurnsAddUp
=============================================================================
