------------------------------- MODULE Terrain -------------------------------
(***************************************************************************)
(* The viewer's terrain (app.js, "S1M"): the elevation tiles of the view,   *)
(* cut into sub-tiles, and the textures of imagery built for each of them.  *)
(* A refresh asks which tiles cover the view, reads the missing ones and    *)
(* paints as they arrive; a paint asks for the textures it lacks; a texture *)
(* that is ready asks for another paint.  A newer refresh, a change of the  *)
(* imagery or a clear may fall between any two of these.                    *)
(*                                                                         *)
(* A tile is a data set at a grid size.  Of the sub-tiles of a subdivision, *)
(* one stands for those in the view.                                       *)
(***************************************************************************)
EXTENDS Integers, FiniteSets, Sequences, SequencesExt

CONSTANTS
  Datasets,
  Positions, Covers, Lod, Split, \* positions: the data sets in view, foreground first; the grid size and subdivision wanted
  Deferred,                  \* positions too far out to drape a collection of small images
  Finest, Coarser,           \* subdivisions allowed (s1mSubdivMax): for one tile in view, and for more
  Readers,                   \* reads of a refresh at a time (4 in the code)
  DrapeMax,                  \* S1M_DRAPE_CACHE_MAX
  Absent,
  Home,                     \* where the map is
  MaxActs, MaxRefreshes, MaxFaults \* bounds: acts and failures together, refreshes, failures

ASSUME TerrainAssumption == Home \in Positions /\ MaxActs \in Nat /\ Covers \in [Positions -> Seq(Datasets)]

VARIABLES
  position, small,     \* the map; the collection's images are small
  surface,         \* the surface control says "imagery"
  s1mActive, handled, \* the terrain is on; the move handler is set
  due,             \* a refresh follows: after a move's pause, or once the availability answered
  button,          \* "free", "loading", or the refresh that ends it
  revision,        \* imageryRevision
  seq, refreshes,  \* s1mRefreshSeq, and the refreshes with something left to do
  wanted,          \* s1mActiveTiles
  memory,          \* see Empty
  layers,          \* s1mLayers: <<tile, subdivision (0: the whole tile), texture>>
  missed,          \* for the property: a texture failed or came too late, or a refresh had no tiles, and no paint followed
  acts, faults

terrainVars == <<position, small, surface, s1mActive, handled, due, button, revision, seq, refreshes,
                 wanted, memory, layers, missed, acts, faults>>

\* A search for images: who made it (failedSeq once it failed, 0 if it did not), and who is told.
Unasked == [state |-> "none", pool |-> "none", by |-> 0, seqs |-> {}]
Plain == [drape |-> Absent, waits |-> Absent]
\* What the terrain keeps: its tiles with their sub-tiles; the promised textures, oldest
\* first; the builds with those that wait for them; the searches for images by data set;
\* those that no entry holds any more; and the finest subdivision draped.
Empty ==
  [tiles |-> <<>>, drapes |-> <<>>, builds |-> <<>>, entries |-> [d \in Datasets |-> Unasked],
   orphans |-> {}, ratchet |-> [d \in Datasets |-> 0]]

-----------------------------------------------------------------------------
drapeImageryActive == surface /\ ~(small /\ position \in Deferred)

Dropping(f, gone) == [x \in DOMAIN f \ gone |-> f[x]]
With(f, x, v) == [y \in DOMAIN f \cup {x} |-> IF y = x THEN v ELSE f[y]]
Larger(a, b) == IF a < b THEN b ELSE a
Smaller(a, b) == IF a < b THEN a ELSE b

\* What can tell nobody anything any more is left to the collector.
Tidy(m) ==
  LET held == {m.drapes[i].build : i \in DOMAIN m.drapes} IN
  [m EXCEPT !.orphans = {seqs \in @ : seq \in seqs}, !.builds = Dropping(@, {b \in DOMAIN @ : @[b].state # "run" /\ @[b].asked = {} /\ b \notin held})]

Subs(m) == UNION {{<<t, n>> : n \in DOMAIN m.tiles[t]} : t \in DOMAIN m.tiles}
Sub(m, s) == m.tiles[s[1]][s[2]]

activeDrapeCacheKeys(m) == {Sub(m, s).drape : s \in Subs(m)} \cup {Sub(m, s).waits : s \in Subs(m)}

\* The textures without those of some keys.
Spared(drapes, keys) ==
  LET kept[n \in 0..Len(drapes)] ==
        IF n = 0 THEN <<>> ELSE IF drapes[n].key \in keys THEN kept[n - 1] ELSE Append(kept[n - 1], drapes[n])
  IN  kept[Len(drapes)]
Drop(m, keys) == [m EXCEPT !.drapes = Spared(@, keys)]

\* The oldest textures that no sub-tile uses go first.
pruneS1MDrapeCache(m) ==
  LET idle == {i \in DOMAIN m.drapes : m.drapes[i].key \notin activeDrapeCacheKeys(m)}
      excess == Len(m.drapes) - DrapeMax
  IN Drop(m, {m.drapes[i].key : i \in {j \in idle : Cardinality({k \in idle : k <= j}) <= excess}})

\* Sub-tiles are dropped: a build that still has to tell one tells an object nobody draws.
Detach(m, gone) ==
  [m EXCEPT !.builds =
     [b \in DOMAIN m.builds |-> [m.builds[b] EXCEPT !.asked =
        {IF l.sub \in gone THEN [l EXCEPT !.sub = Absent] ELSE l : l \in m.builds[b].asked}]]]

disposeS1MTileCache(m, tiles) ==
  LET gone == {s \in Subs(m) : s[1] \in tiles}
      keys == {Sub(m, s).drape : s \in gone} \cup {Sub(m, s).waits : s \in gone}
  IN [Detach(Drop(m, keys), gone) EXCEPT !.tiles = Dropping(@, tiles)]

\* clearS1MDrapeImages: every texture and every search is forgotten, not those under way.
Forget(m) ==
  [m EXCEPT
    !.drapes = <<>>,
    !.entries = [d \in Datasets |-> Unasked],
    !.orphans = @ \cup {m.entries[d].seqs : d \in {e \in Datasets : m.entries[e].state = "waiting"}},
    !.tiles = [t \in DOMAIN @ |-> [n \in DOMAIN @[t] |-> Plain]]]

releaseS1MDrapeMemory(m) == [Forget(m) EXCEPT !.ratchet = [d \in Datasets |-> 0]]

-----------------------------------------------------------------------------
(* A paint.  p is the memory, whether another paint is asked, what is drawn,*)
(* and whether a texture arrived for an earlier refresh.                    *)

\* A search that failed is made again by any refresh but the one that made it, those
\* included that joined it while it was under way.
s1mDrapeSourcesForBbox(p, d, s) ==
  LET e == IF p.m.entries[d].state = "failed" /\ p.m.entries[d].by # s THEN Unasked
           ELSE p.m.entries[d]
      waiting == [state |-> "waiting", pool |-> "none", by |-> IF e.state = "none" THEN s ELSE e.by,
                  seqs |-> e.seqs \cup {s}]
  IN IF e.state \in {"ready", "failed"} THEN p
     ELSE [p EXCEPT !.m.entries[d] = waiting, !.again = @ \/ e.state = "none"]

Key(t, n, pool) == <<t[1], n, pool, revision>>

\* The texture of a sub-tile: one build for a key, unless it is there or asked.
ensureSubTileDrape(p0, t, n, s) ==
  LET p == s1mDrapeSourcesForBbox(p0, t[1], s)
      e == p.m.entries[t[1]]
      sub == p.m.tiles[t][n]
      key == Key(t, n, e.pool)
      held == {i \in DOMAIN p.m.drapes : p.m.drapes[i].key = key}
      b == IF held # {} THEN p.m.drapes[CHOOSE i \in held : TRUE].build
           ELSE CHOOSE i \in 1..(Cardinality(DOMAIN p.m.builds) + 1) : i \notin DOMAIN p.m.builds
      built == IF held # {} THEN p.m
               ELSE pruneS1MDrapeCache(
                      [p.m EXCEPT !.builds = With(@, b, [state |-> "run", key |-> key, asked |-> {}]),
                                  !.drapes = Append(@, [key |-> key, build |-> b])])
      waits == IF sub.waits = <<"sources">> THEN Absent ELSE sub.waits
  IN CASE e.state = "waiting" -> [p EXCEPT !.m.tiles[t][n].waits = <<"sources">>]
       [] e.state # "waiting" /\ (e.pool = "none" \/ key \in {sub.drape, waits}) ->
            [p EXCEPT !.m.tiles[t][n].waits = waits]
       [] OTHER ->
            [p EXCEPT !.m = [built EXCEPT
               !.tiles[t][n].waits = key,
               !.builds[b].asked = @ \cup {[sub |-> <<t, n>>, old |-> sub.drape, seq |-> s]}]]

\* What is told to one that waited for a build that has settled.
SubTileTold(p, b, l) ==
  LET there == l.sub # Absent
      x == l.sub
      key == p.m.builds[b].key
      done == p.m.builds[b].state = "done"
      freed == IF there /\ Sub(p.m, x).waits = key THEN [p.m EXCEPT !.tiles[x[1]][x[2]].waits = Absent] ELSE p.m
      textured == IF there /\ done THEN [freed EXCEPT !.tiles[x[1]][x[2]].drape = key] ELSE freed
      dropped == IF done /\ l.old \notin {Absent, key} THEN Drop(textured, {l.old}) ELSE textured
  IN [p EXCEPT !.m = [(IF done THEN pruneS1MDrapeCache(dropped) ELSE dropped)
                        EXCEPT !.builds[b].asked = @ \ {l}],
               !.again = @ \/ (done /\ s1mActive /\ l.seq = seq),
               !.missed = @ \/ (there /\ (~done \/ l.seq # seq))]

Tellings(m) ==
  UNION {{<<b, l>> : l \in m.builds[b].asked} : b \in {c \in DOMAIN m.builds : m.builds[c].state # "run"}}
TellOne(p) == LET x == CHOOSE y \in Tellings(p.m) : TRUE IN SubTileTold(p, x[1], x[2])
Tell(p) ==
  LET many == Cardinality(Tellings(p.m))
      told[n \in 0..many] == IF n = 0 THEN p ELSE TellOne(told[n - 1])
  IN  [told[many] EXCEPT !.m = Tidy(@)]

s1mSubdivMax == IF Len(wanted) <= 1 THEN Finest ELSE Coarser
\* s1mSubdiv: the view's subdivision, never coarser than what was draped, within the cap.
Subdivision(m, d) == Smaller(Larger(Split[position], m.ratchet[d]), s1mSubdivMax)

\* The layers of one tile: its own sub-tile, or whatever texture there is to stand in for it.
s1mBuildTileLayers(p, t, c, s) ==
  LET n == Subdivision(p.m, c[1])
      stale == {x \in Subs(p.m) : x[1] = c /\ x[2] # n /\ Sub(p.m, x) = Plain}
      kept == Dropping(p.m.tiles[c], {x[2] : x \in stale})
      cut == [Detach(p.m, stale) EXCEPT !.tiles[c] = IF n \in DOMAIN kept THEN kept ELSE With(kept, n, Plain)]
      q == ensureSubTileDrape([p EXCEPT !.m = cut], c, n, s)
      own == q.m.tiles[c][n].drape
      others == {x \in Subs(q.m) : x[1][1] = c[1] /\ x # <<c, n>> /\ Sub(q.m, x).drape # Absent}
      drawn == IF own # Absent \/ others = {} THEN {<<c, n, own>>}
               ELSE {<<x[1], x[2], Sub(q.m, x).drape>> : x \in others}
      lower == {x \in DOMAIN q.m.tiles : x[1] = c[1] /\ x # t}
  IN [q EXCEPT !.drawn = @ \cup drawn,
               !.m = IF c = t /\ own # Absent THEN disposeS1MTileCache(@, lower) ELSE @]

\* The tile as wanted, else at another size.
Cached(m, t) == IF t \in DOMAIN m.tiles THEN {t} ELSE {x \in DOMAIN m.tiles : x[1] = t[1]}

PaintTile(p, t, s) ==
  IF Cached(p.m, t) = {} THEN p
  ELSE LET c == CHOOSE x \in Cached(p.m, t) : TRUE IN
       IF drapeImageryActive THEN s1mBuildTileLayers(p, t, c, s)
       ELSE [p EXCEPT !.drawn = @ \cup {<<c, 0, Absent>>}]

Fresh(m) == [m |-> m, again |-> FALSE, drawn |-> {}, missed |-> FALSE]
Paint(m, tiles, s) ==
  LET painted[n \in 0..Len(tiles)] == IF n = 0 THEN Fresh(m) ELSE PaintTile(painted[n - 1], tiles[n], s)
  IN  Tell(painted[Len(tiles)])

s1mTileLayersFromCache ==
  UNION {IF drapeImageryActive /\ DOMAIN memory.tiles[t] # {}
         THEN {<<t, n, memory.tiles[t][n].drape>> : n \in DOMAIN memory.tiles[t]}
         ELSE {<<t, 0, Absent>>} : t \in DOMAIN memory.tiles}

\* schedulePaint: one frame for all who ask before it.
Asked(r, again) == IF again /\ ~r.queued THEN [r EXCEPT !.queued = TRUE, !.frames = @ + 1] ELSE r

Ended(r) == r.phase = "done" /\ r.frames = 0
Going(rs, s) == Dropping(rs, {x \in DOMAIN rs : x # s /\ Ended(rs[x])})

-----------------------------------------------------------------------------
TerrainInit ==
  /\ position = Home /\ small = FALSE /\ surface = TRUE
  /\ s1mActive = FALSE /\ handled = FALSE /\ due = FALSE /\ button = "free"
  /\ revision = 0 /\ seq = 0 /\ refreshes = <<>> /\ wanted = <<>>
  /\ memory = Empty /\ layers = {} /\ missed = FALSE /\ acts = 0 /\ faults = 0

Acting == acts + faults < MaxActs /\ acts' = acts + 1 /\ UNCHANGED faults
Fault == faults < MaxFaults /\ acts + faults < MaxActs /\ faults' = faults + 1

\* refreshS1MTerrain, to the request of the tiles.
Refresh(on) ==
  IF ~on THEN UNCHANGED <<seq, refreshes>>
  ELSE /\ seq < MaxRefreshes /\ seq' = seq + 1
       /\ refreshes' = With(Going(refreshes, seq'), seq',
            [phase |-> "tiles", box |-> Covers[position], desired |-> <<>>, missing |-> <<>>, reading |-> {},
             queued |-> FALSE, frames |-> 0])

\* The frame that clears the textures after a change of brightness, and updateImagery when
\* the sources changed: the revision is raised, and the terrain painted anew if it is draped.
ImageryChanges ==
  /\ Acting
  /\ revision' = revision + 1
  /\ memory' = Tidy(Forget(memory))
  /\ Refresh(s1mActive /\ drapeImageryActive)
  /\ UNCHANGED <<position, small, surface, s1mActive, handled, due, button, wanted, layers, missed>>

\* Another collection: what was draped is released, and the terrain follows the availability.
CollectionChanges ==
  /\ Acting
  /\ memory' = Tidy(releaseS1MDrapeMemory(memory))
  /\ small' \in BOOLEAN /\ due' = TRUE
  /\ UNCHANGED <<position, surface, s1mActive, handled, button, revision, seq, refreshes, wanted, layers, missed>>

MoveTerrain(v) ==
  /\ Acting /\ v # position /\ position' = v
  /\ due' = (due \/ handled)
  /\ UNCHANGED <<small, surface, s1mActive, handled, button, revision, seq, refreshes, wanted, memory, layers, missed>>

RefreshDue ==
  /\ due /\ due' = FALSE
  /\ Refresh(s1mActive)
  /\ UNCHANGED <<position, small, surface, s1mActive, handled, button, revision, wanted, memory, layers, missed, acts, faults>>

PickSurface ==
  /\ Acting /\ surface' = ~surface
  /\ Refresh(s1mActive)
  /\ UNCHANGED <<position, small, s1mActive, handled, due, button, revision, wanted, memory, layers, missed>>

\* Exaggeration and colours: the layers are made again from what is kept.
rebuildS1MLayers ==
  /\ Acting /\ s1mActive
  /\ layers' = s1mTileLayersFromCache
  /\ UNCHANGED <<position, small, surface, s1mActive, handled, due, button, revision, seq, refreshes, wanted, memory, missed>>

Enable ==
  /\ seq < MaxRefreshes /\ button \notin {"loading"} \cup {ToString(s) : s \in DOMAIN refreshes}
  /\ button' = "loading"
  /\ UNCHANGED <<position, small, surface, s1mActive, handled, due, revision, seq, refreshes, wanted, memory, layers, missed, acts, faults>>

\* The modules are there, or they are not.
Enabled ==
  /\ button = "loading"
  /\ \/ /\ s1mActive' = TRUE /\ handled' = TRUE
        /\ Refresh(TRUE)
        /\ button' = ToString(seq') /\ UNCHANGED faults
     \/ Fault /\ button' = "free" /\ UNCHANGED <<s1mActive, handled, seq, refreshes>>
  /\ UNCHANGED <<position, small, surface, due, revision, wanted, memory, layers, missed, acts>>

clearS1MTerrain_SameSeq ==
  /\ Acting
  /\ s1mActive' = FALSE /\ handled' = FALSE
  /\ memory' = Tidy(releaseS1MDrapeMemory(disposeS1MTileCache(memory, DOMAIN memory.tiles)))
  /\ wanted' = <<>> /\ layers' = {}
  /\ UNCHANGED <<position, small, surface, due, button, revision, seq, refreshes, missed>>
\* Clearing ends whatever refresh is under way, not the searches and the builds.
clearS1MTerrain ==
  /\ Acting
  /\ s1mActive' = FALSE /\ handled' = FALSE
  /\ seq' = seq + 1 /\ refreshes' = Going(refreshes, seq')
  /\ memory' = Tidy(releaseS1MDrapeMemory(disposeS1MTileCache(memory, DOMAIN memory.tiles)))
  /\ wanted' = <<>> /\ layers' = {}
  /\ UNCHANGED <<position, small, surface, due, button, revision, missed>>

-----------------------------------------------------------------------------
(* A refresh that a newer one or a clear overtook does nothing more.        *)

Ending(s, r) == Going(With(refreshes, s, r), seq)

\* The tiles over the view, at the sizes the view wants by now; the others are dropped.
TilesAnswer(s) ==
  /\ refreshes[s].phase = "tiles"
  /\ IF s # seq
     THEN /\ refreshes' = Ending(s, [refreshes[s] EXCEPT !.phase = "done"])
          /\ UNCHANGED <<wanted, memory>>
     ELSE LET tiles == [i \in DOMAIN refreshes[s].box |-> <<refreshes[s].box[i], Lod[position]>>]
              away == {t \in DOMAIN memory.tiles : t[1] \notin ToSet(refreshes[s].box)}
              missing == SelectSeq(tiles, LAMBDA t : t \notin DOMAIN memory.tiles)
              first == Smaller(Readers, Len(missing))
          IN /\ wanted' = tiles
             /\ memory' = Tidy(pruneS1MDrapeCache([disposeS1MTileCache(memory, away) EXCEPT
                  !.ratchet = [d \in Datasets |-> IF \E t \in away : t[1] = d THEN 0 ELSE @[d]]]))
             /\ refreshes' = Ending(s, Asked([refreshes[s] EXCEPT
                  !.phase = IF missing = <<>> THEN "done" ELSE "reading",
                  !.desired = tiles, !.reading = {missing[i] : i \in 1..first},
                  !.missing = SubSeq(missing, first + 1, Len(missing))], TRUE))
  /\ UNCHANGED <<position, small, surface, s1mActive, handled, due, button, revision, seq, layers, missed, acts, faults>>

TilesFail(s) ==
  /\ refreshes[s].phase = "tiles" /\ Fault
  /\ refreshes' = Ending(s, [refreshes[s] EXCEPT !.phase = "done"])
  /\ missed' = (missed \/ s = seq)
  /\ UNCHANGED <<position, small, surface, s1mActive, handled, due, button, revision, seq, wanted, memory, layers, acts>>

\* A paint of refresh s, which may ask for another.
Painted(r, m, s) ==
  \E p \in {Paint(m, r.desired, s)} :
    /\ memory' = p.m /\ layers' = p.drawn /\ missed' = p.missed
    /\ refreshes' = Ending(s, Asked([r EXCEPT !.queued = FALSE], p.again))

Frame(s) ==
  /\ refreshes[s].frames > 0
  /\ LET r == [refreshes[s] EXCEPT !.frames = @ - 1, !.queued = FALSE] IN
     IF s = seq THEN Painted(r, memory, s)
     ELSE refreshes' = Ending(s, r) /\ UNCHANGED <<memory, layers, missed>>
  /\ UNCHANGED <<position, small, surface, s1mActive, handled, due, button, revision, seq, wanted, acts, faults>>

\* The reader of a tile takes the next one.
Taken(r, t) ==
  LET left == (r.reading \ {t}) \cup (IF r.missing = <<>> THEN {} ELSE {Head(r.missing)}) IN
  [r EXCEPT !.reading = left, !.missing = IF @ = <<>> THEN @ ELSE Tail(@),
            !.phase = IF left = {} THEN "done" ELSE @]
Left(r, t) == [r EXCEPT !.reading = @ \ {t}, !.phase = IF r.reading = {t} THEN "done" ELSE @]

\* A tile has been read: it is kept and painted at once.
TileRead(s, t) ==
  /\ t \in refreshes[s].reading
  /\ IF s = seq
     THEN Painted(Taken(refreshes[s], t), pruneS1MDrapeCache([memory EXCEPT !.tiles = With(@, t, <<>>)]), s)
     ELSE refreshes' = Ending(s, Left(refreshes[s], t)) /\ UNCHANGED <<memory, layers, missed>>
  /\ UNCHANGED <<position, small, surface, s1mActive, handled, due, button, revision, seq, wanted, acts, faults>>

TileReadFails(s, t) ==
  /\ t \in refreshes[s].reading /\ Fault
  /\ refreshes' = Ending(s, IF s = seq THEN Taken(refreshes[s], t) ELSE Left(refreshes[s], t))
  /\ UNCHANGED <<position, small, surface, s1mActive, handled, due, button, revision, seq, wanted, memory, layers, missed, acts>>

-----------------------------------------------------------------------------
(* The searches for images and the builds of textures.                     *)

\* schedulePaint, when the refresh that asked is still the newest.
PaintsFor(seqs) ==
  refreshes' = IF seq \in seqs \cap DOMAIN refreshes THEN [refreshes EXCEPT ![seq] = Asked(@, TRUE)]
               ELSE refreshes

\* What a search found, which may be nothing; when it failed, images of the last results
\* over the tile, or an error.
DrapeSearchSettles(d, state, pool) ==
  LET e == memory.entries[d] IN
  /\ e.state = "waiting"
  /\ IF state = "ready" /\ pool # "fallback" THEN UNCHANGED faults ELSE Fault
  /\ memory' = [memory EXCEPT !.entries[d] = [state |-> state, pool |-> pool,
                  by |-> IF state = "failed" THEN e.by ELSE 0, seqs |-> {}]]
  /\ PaintsFor(e.seqs)
  /\ UNCHANGED <<position, small, surface, s1mActive, handled, due, button, revision, seq, wanted, layers, missed, acts>>

OrphanSettles(seqs) ==
  /\ seqs \in memory.orphans
  /\ memory' = [memory EXCEPT !.orphans = @ \ {seqs}]
  /\ PaintsFor(seqs)
  /\ UNCHANGED <<position, small, surface, s1mActive, handled, due, button, revision, seq, wanted, layers, missed, acts, faults>>

BuildSettles_Silent(b, state) ==
  /\ memory.builds[b].state = "run" /\ IF state = "done" THEN UNCHANGED faults ELSE Fault
  /\ \E p \in {Tell(Fresh([memory EXCEPT !.builds[b].state = state]))} :
       memory' = p.m /\ missed' = (missed \/ p.missed)
  /\ UNCHANGED <<position, small, surface, s1mActive, handled, due, button, revision, seq, refreshes, wanted, layers, acts>>
\* A texture is built, or it cannot be: then its failed promise stays.
BuildSettles(b, state) ==
  LET key == memory.builds[b].key
      m == [memory EXCEPT !.builds[b].state = state,
                          !.ratchet[key[1]] = IF state = "done" THEN Larger(@, key[2]) ELSE @]
  IN /\ memory.builds[b].state = "run" /\ IF state = "done" THEN UNCHANGED faults ELSE Fault
     /\ \E p \in {Tell(Fresh(m))} :
          /\ memory' = p.m /\ missed' = (missed \/ p.missed)
          /\ PaintsFor(IF p.again THEN {seq} ELSE {})
     /\ UNCHANGED <<position, small, surface, s1mActive, handled, due, button, revision, seq, wanted, layers, acts>>

TerrainNext ==
  \/ ImageryChanges \/ CollectionChanges \/ PickSurface \/ rebuildS1MLayers
  \/ RefreshDue \/ Enable \/ Enabled \/ clearS1MTerrain
  \/ \E v \in Positions : MoveTerrain(v)
  \/ \E s \in DOMAIN refreshes :
       \/ TilesAnswer(s) \/ TilesFail(s) \/ Frame(s)
       \/ \E t \in refreshes[s].reading : TileRead(s, t) \/ TileReadFails(s, t)
  \/ \E d \in Datasets : \/ DrapeSearchSettles(d, "ready", "images")
                          \/ DrapeSearchSettles(d, "ready", "none")
                          \/ DrapeSearchSettles(d, "ready", "fallback")
                          \/ DrapeSearchSettles(d, "failed", "none")
  \/ \E seqs \in memory.orphans : OrphanSettles(seqs)
  \/ \E b \in DOMAIN memory.builds : BuildSettles(b, "done") \/ BuildSettles(b, "failed")

TerrainSpec == TerrainInit /\ [][TerrainNext]_terrainVars

-----------------------------------------------------------------------------
(* Properties.                                                             *)

\* Type: a texture that is promised has its build, and refreshes are numbered.
TerrainTypeOK ==
  /\ position \in Positions /\ {small, surface, s1mActive, handled, due, missed} \subseteq BOOLEAN
  /\ button \in {"free", "loading"} \cup {ToString(s) : s \in 1..seq}
  /\ seq \in Nat /\ revision \in 0..MaxActs /\ acts + faults \in 0..MaxActs
  /\ DOMAIN refreshes \subseteq 1..seq
  /\ \A s \in DOMAIN refreshes : refreshes[s].phase \in {"tiles", "reading", "done"} /\ refreshes[s].frames \in Nat
  /\ DOMAIN memory = DOMAIN Empty
  /\ \A i \in DOMAIN memory.drapes : memory.drapes[i].build \in DOMAIN memory.builds

\* Terrain that was cleared stays cleared, whatever the reads, builds and frames that were
\* under way bring afterwards: no tile, texture or layer comes back (clearS1MTerrain and
\* the checks of s1mRefreshSeq).
ClearedStaysCleared ==
  /\ TerrainTypeOK
  /\ ~s1mActive => DOMAIN memory.tiles = {} /\ memory.drapes = <<>> /\ layers = {} /\ wanted = <<>>

AllSettled ==
  /\ ~due /\ button # "loading" /\ memory.orphans = {}
  /\ \A s \in DOMAIN refreshes : Ended(refreshes[s])
  /\ \A d \in Datasets : memory.entries[d].state # "waiting"
  /\ \A b \in DOMAIN memory.builds : memory.builds[b].state # "run"

\* With nothing under way, a tile of the view shows the texture it has, and that of the
\* imagery as it is now: a texture that arrived is painted, one of an earlier revision is
\* replaced unless a search found no images, or the newest refresh made one that failed
\* with none at hand (ensureSubTileDrape, s1mDrapeSourcesForBbox, schedulePaint).
\* Excused until the next paint: a texture that cannot be built, one asked by an earlier
\* refresh, for which no one paints, and the frames that a refresh overtook before it failed.
DrapesShown ==
  AllSettled /\ s1mActive /\ ~missed /\ drapeImageryActive =>
    \A t \in DOMAIN memory.tiles \cap ToSet(wanted) :
      LET n == Subdivision(memory, t[1]) IN
      n \in DOMAIN memory.tiles[t] /\ memory.tiles[t][n].drape # Absent =>
        LET own == memory.tiles[t][n].drape IN
        /\ <<t, n, own>> \in layers
        /\ \/ own[4] = revision
           \/ LET e == memory.entries[t[1]] IN e.state # "none" /\ e.pool = "none" /\ e.by \in {0, seq}
=============================================================================
