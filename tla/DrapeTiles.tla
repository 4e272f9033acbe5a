------------------------------ MODULE DrapeTiles ------------------------------
(***************************************************************************)
(* How the viewer builds the textures of its terrain (app.js): a texture is  *)
(* painted from the images that overlap it, one after the other, and the     *)
(* tiles of the images are decoded once for all textures, in a cache that    *)
(* is bounded by their bytes.  What a tile looks like depends on the         *)
(* display settings at the moment it is decoded; its key names the revision  *)
(* of the imagery at the moment it is asked.                                 *)
(*                                                                         *)
(* A texture is a few pixels.  For each the constants say which tile of an   *)
(* image is under it, and under which settings it is not transparent there.  *)
(***************************************************************************)
EXTENDS Integers, FiniteSets, FiniteSetsExt, Sequences, SequencesExt

CONSTANTS
  Regions, Pixels, Displays,
  Clear,     \* a transparent pixel; and where there is no year, overlap or tile
  Pool,      \* the images a search found, in its order: [year, state]
  Overlap,   \* [image][region]: the area they share, if they touch
  Cover,     \* [image][region]: the tiles of the level that is read, in the order they are asked
  TileAt,    \* [image][region][pixel]: the tile under it, if it is in the image
  Opaque,    \* [image][region][pixel]: the settings under which it is
  Size,      \* [tile]: bytes decoded
  MaxSources,              \* s1mMaxDrapeSourcesPerTile
  MaxBytes, MaxCount,      \* S1M_COG_TILE_CACHE_MAX_BYTES, _MAX_COUNT
  MaxBuilds, MaxChanges    \* bounds: builds, and changes and failures, of a behaviour

\* The tiles that are read cover the texture, as far as the image does.
ASSUME DrapeAssumption ==
  /\ IsFiniteSet(Pixels) /\ {MaxSources, MaxBytes, MaxCount} \subseteq Nat /\ \A t \in DOMAIN Size : Size[t] \in Nat
  /\ Pool \in Seq({Pool[i] : i \in DOMAIN Pool})
  /\ \A i \in DOMAIN Pool, r \in Regions :
       /\ Overlap[i][r] \in Int \/ Overlap[i][r] = Clear
       /\ Cover[i][r] \in Seq(DOMAIN Size)
       /\ \A p \in Pixels : TileAt[i][r][p] \in {Clear} \cup {Cover[i][r][k] : k \in DOMAIN Cover[i][r]}
  /\ Clear \notin Int /\ Clear \notin DOMAIN Size /\ \A i \in DOMAIN Pool, d \in Displays : Clear # <<i, d>>

VARIABLES
  display, frame, \* displayAdjustmentProps; displayAdjustmentFrame is set
  imageryRevision,
  decoded,          \* the cache, see NoTiles
  textures,       \* the builds, in the order they were begun
  changes

drapeVars == <<display, frame, imageryRevision, decoded, textures, changes>>

\* s1mCogTileCache oldest first, s1mCogTileCacheBytes, the running sum, and the promises
\* that are in the cache or awaited: [key, state, shown: the settings it was decoded with].
NoTiles == [cache |-> <<>>, bytes |-> <<>>, total |-> 0, promises |-> <<>>]

DrapeTilesInit ==
  /\ display \in Displays /\ frame = FALSE /\ imageryRevision = 0
  /\ decoded = NoTiles /\ textures = <<>> /\ changes = 0

-----------------------------------------------------------------------------
(* The images of a texture.                                                  *)

\* The newest year of each state; those without a year stay.
mostRecentImagerySources ==
  {i \in DOMAIN Pool : Pool[i].year = Clear \/ \A j \in DOMAIN Pool :
     Pool[j].year # Clear /\ Pool[j].state = Pool[i].state => Pool[j].year <= Pool[i].year}

\* The largest overlap first; equals in the order of the search.
drapeSourcesForTile(r) ==
  LET near == {i \in mostRecentImagerySources : Overlap[i][r] # Clear}
      before(i) == {j \in near : Overlap[j][r] > Overlap[i][r] \/ (Overlap[j][r] = Overlap[i][r] /\ j < i)}
  IN  [k \in 1..Cardinality(near) |-> CHOOSE i \in near : Cardinality(before(i)) = k - 1]

Sources(r) == LET all == drapeSourcesForTile(r) IN SubSeq(all, 1, Min({Len(all), MaxSources}))

-----------------------------------------------------------------------------
(* The cache of decoded tiles.                                               *)

Minus(f, k) == [x \in DOMAIN f \ {k} |-> f[x]]
Plus(f, k, v) == [x \in DOMAIN f \cup {k} |-> IF x = k THEN v ELSE f[x]]
BytesOf(m, k) == IF k \in DOMAIN m.bytes THEN m.bytes[k] ELSE 0
CachedAt(m, k) == {i \in DOMAIN m.cache : m.cache[i].key = k}

setS1MCogTileCacheBytes(m, k, n) ==
  [m EXCEPT !.bytes = Plus(@, k, n), !.total = @ - BytesOf(m, k) + n]
WithoutKey(m, k) ==
  IF CachedAt(m, k) = {} THEN m.cache ELSE RemoveAt(m.cache, CHOOSE i \in CachedAt(m, k) : TRUE)
deleteS1MCogTileCacheEntry(m, k) ==
  [m EXCEPT !.cache = WithoutKey(m, k), !.bytes = Minus(@, k), !.total = @ - BytesOf(m, k)]
clearS1MCogTileCacheEntries(m) == [m EXCEPT !.cache = <<>>, !.bytes = <<>>, !.total = 0]

\* The oldest go, under way or not, until the rest fits; the newest stays in any case.
TooMuch(m) == Len(m.cache) > 1 /\ (m.total > MaxBytes \/ Len(m.cache) > MaxCount)
EvictOldest(m) == IF TooMuch(m) THEN deleteS1MCogTileCacheEntry(m, m.cache[1].key) ELSE m
evictS1MCogTileCache(m) ==
  LET left[n \in 0..Len(m.cache)] == IF n = 0 THEN m ELSE EvictOldest(left[n - 1])
  IN  left[Len(m.cache)]

\* The promise of a tile, the newest entry of the result; a hit becomes the newest.
NewId(m) == CHOOSE i \in 1..(Cardinality(DOMAIN m.promises) + 1) : i \notin DOMAIN m.promises
getDrapeCogTile(m, t) ==
  LET k == <<t, imageryRevision>>
      id == NewId(m)
  IN  IF CachedAt(m, k) # {}
      THEN [m EXCEPT !.cache = Append(WithoutKey(m, k), m.cache[CHOOSE i \in CachedAt(m, k) : TRUE])]
      ELSE evictS1MCogTileCache(
             [m EXCEPT !.promises = Plus(@, id, [key |-> k, state |-> "pending", shown |-> Clear]),
                       !.cache = Append(@, [key |-> k, promise |-> id])])

\* Settled promises that neither the cache nor a texture holds are left to the collector.
Uncollected(m, all) ==
  LET held == {m.cache[i].promise : i \in DOMAIN m.cache} \cup UNION {ToSet(all[b].awaits) : b \in DOMAIN all}
      kept == {id \in DOMAIN m.promises : m.promises[id].state = "pending" \/ id \in held}
  IN  [m EXCEPT !.promises = [id \in kept |-> m.promises[id]]]

Becomes(m, all) == textures' = all /\ decoded' = Uncollected(m, all)

\* A tile has been fetched and is decoded.  Its size counts if its promise is still cached.
TileDecoded_Unasked(id) ==
  LET p == decoded.promises[id]
      m == [decoded EXCEPT !.promises[id] = [p EXCEPT !.state = "ready", !.shown = display]]
  IN  /\ p.state = "pending"
      /\ Becomes(evictS1MCogTileCache(setS1MCogTileCacheBytes(m, p.key, Size[p.key[1]])), textures)
      /\ UNCHANGED <<display, frame, imageryRevision, changes>>
TileDecoded(id) ==
  LET p == decoded.promises[id]
      m == [decoded EXCEPT !.promises[id] = [p EXCEPT !.state = "ready", !.shown = display]]
  IN  /\ p.state = "pending"
      /\ Becomes(IF \E i \in DOMAIN m.cache : m.cache[i] = [key |-> p.key, promise |-> id]
                 THEN evictS1MCogTileCache(setS1MCogTileCacheBytes(m, p.key, Size[p.key[1]])) ELSE m,
                 textures)
      /\ UNCHANGED <<display, frame, imageryRevision, changes>>

Change == changes < MaxChanges /\ changes' = changes + 1

\* It fails: the entry of its key goes, whichever promise is there.
TileFails(id) ==
  LET p == decoded.promises[id]
      m == [decoded EXCEPT !.promises[id].state = "failed"]
  IN  /\ p.state = "pending" /\ Change
      /\ Becomes(deleteS1MCogTileCacheEntry(m, p.key), textures)
      /\ UNCHANGED <<display, frame, imageryRevision>>

-----------------------------------------------------------------------------
(* The textures.                                                             *)

\* buildDrapeImage begins with its images: nothing painted, the first image is opened.
Begin(r) ==
  /\ Len(textures) < MaxBuilds /\ Sources(r) # <<>>
  /\ textures' = Append(textures,
       [region |-> r, sources |-> Sources(r), revision |-> imageryRevision, next |-> 1, awaits |-> <<>>,
        filled |-> 0, out |-> [p \in Pixels |-> Clear], state |-> "open"])
  /\ UNCHANGED <<display, frame, imageryRevision, decoded, changes>>

\* After an image: done when no pixel is left, or no image.
NextImage(b, filled, out) ==
  LET full == filled >= Cardinality(Pixels) \/ b.next = Len(b.sources)
  IN  [b EXCEPT !.awaits = <<>>, !.filled = filled, !.out = out,
                !.next = IF full THEN @ ELSE @ + 1, !.state = IF full THEN "done" ELSE "open"]

\* The tiles of an image are asked, one after the other.
AskTile(a, t) ==
  LET m == getDrapeCogTile(a.m, t) IN [m |-> m, ids |-> Append(a.ids, Last(m.cache).promise)]
AskTiles(m, cover) ==
  LET asked[n \in 0..Len(cover)] ==
        IF n = 0 THEN [m |-> m, ids |-> <<>>] ELSE AskTile(asked[n - 1], cover[n])
  IN  asked[Len(cover)]

\* paintDrapeSource, to its second await: the file is open and the tiles under the
\* texture are asked; an image that has none of them paints nothing.
SourceOpened(n) ==
  LET b == textures[n]
      cover == Cover[b.sources[b.next]][b.region]
      asked == AskTiles(decoded, cover)
  IN  /\ b.state = "open"
      /\ Becomes(asked.m, [textures EXCEPT ![n] = IF cover = <<>> THEN NextImage(b, b.filled, b.out)
                             ELSE [b EXCEPT !.awaits = asked.ids, !.state = "tiles"]])
      /\ UNCHANGED <<display, frame, imageryRevision, changes>>
OpenFails(n) ==
  /\ textures[n].state = "open" /\ Change
  /\ textures' = [textures EXCEPT ![n].state = "failed"]
  /\ UNCHANGED <<display, frame, imageryRevision, decoded>>

\* All its tiles are there: it paints the pixels that are still transparent.
SourcePainted(n) ==
  LET b == textures[n]
      i == b.sources[b.next]
      shown(t) == decoded.promises[b.awaits[CHOOSE k \in DOMAIN b.awaits : Cover[i][b.region][k] = t]].shown
      fills == {p \in Pixels : /\ b.out[p] = Clear
                               /\ TileAt[i][b.region][p] # Clear
                               /\ shown(TileAt[i][b.region][p]) \in Opaque[i][b.region][p]}
      out == [p \in Pixels |-> IF p \in fills THEN <<i, shown(TileAt[i][b.region][p])>> ELSE b.out[p]]
  IN  /\ b.state = "tiles"
      /\ \A k \in DOMAIN b.awaits : decoded.promises[b.awaits[k]].state = "ready"
      /\ Becomes(decoded, [textures EXCEPT ![n] = NextImage(b, b.filled + Cardinality(fills), out)])
      /\ UNCHANGED <<display, frame, imageryRevision, changes>>
\* One of them failed, and with it the texture.
PaintFails(n) ==
  LET b == textures[n]
  IN  /\ b.state = "tiles"
      /\ \E k \in DOMAIN b.awaits : decoded.promises[b.awaits[k]].state = "failed"
      /\ Becomes(decoded, [textures EXCEPT ![n] = [b EXCEPT !.state = "failed", !.awaits = <<>>]])
      /\ UNCHANGED <<display, frame, imageryRevision, changes>>

-----------------------------------------------------------------------------
(* What changes meanwhile.                                                   *)

\* The controls change the settings at once, the revision with the next frame.
Adjust(d) ==
  /\ d # display /\ Change
  /\ display' = d /\ frame' = TRUE
  /\ UNCHANGED <<imageryRevision, decoded, textures>>
AdjustmentFrame ==
  /\ frame /\ frame' = FALSE
  /\ imageryRevision' = imageryRevision + 1
  /\ Becomes(clearS1MCogTileCacheEntries(decoded), textures)
  /\ UNCHANGED <<display, changes>>
\* Other images are shown.
NewImagery ==
  /\ Change /\ imageryRevision' = imageryRevision + 1
  /\ Becomes(clearS1MCogTileCacheEntries(decoded), textures)
  /\ UNCHANGED <<display, frame>>
\* An image is signed again: the revision changes alone.
SignedAgain ==
  /\ Change /\ imageryRevision' = imageryRevision + 1
  /\ UNCHANGED <<display, frame, decoded, textures>>
\* The terrain is cleared or shaded: the memory is released alone.
Release ==
  /\ decoded.cache # <<>> /\ Change
  /\ Becomes(clearS1MCogTileCacheEntries(decoded), textures)
  /\ UNCHANGED <<display, frame, imageryRevision>>

DrapeTilesNext ==
  \/ \E r \in Regions : Begin(r)
  \/ \E n \in DOMAIN textures : SourceOpened(n) \/ OpenFails(n) \/ SourcePainted(n) \/ PaintFails(n)
  \/ \E id \in DOMAIN decoded.promises : TileDecoded(id) \/ TileFails(id)
  \/ \E d \in Displays : Adjust(d)
  \/ AdjustmentFrame \/ NewImagery \/ SignedAgain \/ Release

DrapeTilesSpec == DrapeTilesInit /\ [][DrapeTilesNext]_drapeVars

-----------------------------------------------------------------------------
Summed(q) == LET upTo[n \in 0..Len(q)] == IF n = 0 THEN 0 ELSE upTo[n - 1] + q[n] IN upTo[Len(q)]

\* The cache holds a key once, its sum is that of the tiles it holds, each of them at most
\* once, and it stays within its limits but for a newest tile larger than all of them:
\* whatever was evicted, cleared, asked again or failed while it was fetched.
TilesAccounted ==
  LET keys == {decoded.cache[i].key : i \in DOMAIN decoded.cache} IN
  /\ Cardinality(keys) = Len(decoded.cache)
  /\ DOMAIN decoded.bytes \subseteq keys
  /\ decoded.total = Summed([i \in DOMAIN decoded.cache |-> BytesOf(decoded, decoded.cache[i].key)])
  /\ Len(decoded.cache) > 1 => decoded.total <= MaxBytes /\ Len(decoded.cache) <= MaxCount

\* The comment on the cache, "entries never go stale" (app.js:3410), as far as a picture
\* shows it: a texture of the current revision, once no frame is due, has at each pixel the
\* image with the largest overlap that shows there in the current settings, though its
\* tiles were decoded for other textures, evicted, or asked before the settings changed.
TexturesRight ==
  /\ TilesAccounted
  /\ \A n \in DOMAIN textures :
       LET b == textures[n]
           sources == b.sources
           best(p) == {k \in DOMAIN sources :
                         LET i == sources[k]
                         IN TileAt[i][b.region][p] # Clear /\ display \in Opaque[i][b.region][p]}
       IN  b.state = "done" /\ b.revision = imageryRevision /\ ~frame =>
             \A p \in Pixels : b.out[p] = IF best(p) = {} THEN Clear
                                           ELSE <<sources[Min(best(p))], display>>
=============================================================================
