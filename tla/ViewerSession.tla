--------------------------- MODULE ViewerSession ---------------------------
(***************************************************************************)
(* The viewer's page (app.js): the controls of the search, the answers they *)
(* wait for, the one search at a time with another pending, the check after *)
(* a move, and what is drawn.  Everything runs on the page's one thread: an *)
(* action is what happens between two awaits.                               *)
(***************************************************************************)
EXTENDS Integers, FiniteSets

CONSTANTS
  Collections, Default,   \* the registry; "naip"
  All,                    \* "All loaded": no region is asked
  Views, Seen, Wide,      \* map positions: the places in view, and those a search of all regions asks for
  Lake0, Later,           \* the images in the lake at first, and those an ingest may add
  Start,                  \* where the map opens
  MaxEvents, MaxRetries   \* bounds: events of the user; attempts of refreshCollections (5 in the code)

Latest == 0 \* no year is asked
\* The images are of known collections, and a collection is no phase of the page.
ASSUME SessionAssumption ==
  /\ Default \in Collections /\ {"load", "retry"} \cap Collections = {}
  /\ \A i \in Lake0 \cup Later : i.collection \in Collections
  /\ Start \in Views /\ MaxRetries \in Nat

NoShapes == {}  \* an overlay that draws nothing

VARIABLES
  lake,          \* the images in the lake: [collection, region, year, place]
  pageView, timer, \* the map, and autoSearchTimeoutId
  load,          \* how far the load handler has come
  overlay,       \* deckOverlay and the modules are there
  inits,         \* calls of initImagerySupport under way
  calls,         \* requests of /collections and /availability under way
  retries,       \* attempts of the retry timer left, 0 when there is none
  searchable, active,        \* searchableCollectionIds, activeSearchCollectionId
  region, year, availability,\* the two controls and searchAvailability
  cog,           \* toggleCogEl
  search, pending,           \* searchInFlight with its body, and pendingSearch
  shown,         \* lastSearchFeatures with lastSearchBbox
  footprints, drawn, signature, revised,
                 \* the map's source, the layer's sources, currentImagerySignature, and the features
                 \* for which imageryRevision was last raised
  drifted, failed,           \* for the property: see AtRestCurrent
  events

controls == <<searchable, active, region, year, availability, cog>>
picture == <<footprints, drawn, signature, revised>>
searching == <<search, pending, shown, drifted, failed>>
waiting == <<load, overlay, inits, calls, retries>>
sessionVars == <<lake, pageView, timer, waiting, controls, searching, picture, events>>

NoSearch == [phase |-> "none"]

-----------------------------------------------------------------------------
\* What /search answers: the images asked for; without a year the newest of each region.
NewestOfRegion(i) == \A j \in lake : j.collection = i.collection /\ j.region = i.region => j.year <= i.year
Found(b) ==
  {i \in lake : /\ i.collection = b.collection /\ i.place \in b.box
                /\ b.region \in {All, i.region}
                /\ IF b.year = Latest THEN NewestOfRegion(i) ELSE i.year = b.year}
\* What /availability answers for a collection.
Ingested(c) == {<<i.region, i.year>> : i \in {j \in lake : j.collection = c}}
YearsOf(avail, r) == {p[2] : p \in {q \in avail : q[1] = r}}

\* The year the control shows after the region changed: none, or the newest of the region.
populateSearchYears(avail, r) ==
  IF r = All \/ YearsOf(avail, r) = {} THEN Latest
  ELSE CHOOSE y \in YearsOf(avail, r) : \A z \in YearsOf(avail, r) : z <= y

footprintsCoverViewport(v) == shown.features # {} /\ Seen[v] \subseteq shown.body.box

\* The body of a search, from the controls at that moment.
Body(c, r, y, v) ==
  [collection |-> c, region |-> r, year |-> y, box |-> IF r = All THEN Wide[v] ELSE Seen[v], view |-> v]

\* updateImageryLayers: nothing without the overlay; the mosaic when it is on and has sources.
Draws(there, on, features) == IF ~there THEN drawn ELSE IF on THEN features ELSE NoShapes

\* updateImagery: the revision is raised and the drapes are cleared when the sources changed.
updateImagery(there, on, features) ==
  /\ drawn' = Draws(there, on, features)
  /\ signature' = IF ~there THEN signature ELSE IF on THEN <<features>> ELSE <<>>
  /\ revised' = IF there /\ on /\ features # {} /\ signature # <<features>> THEN features ELSE revised

Queue_Dropped(c, r, y, v, on) ==
  IF search # NoSearch THEN UNCHANGED <<search, pending, inits, drifted>>
  ELSE /\ pending' = FALSE /\ UNCHANGED inits
       /\ search' = [phase |-> "fetch", body |-> Body(c, r, y, v)] /\ drifted' = FALSE
\* queueSearch, and runSearch up to its first await: one search at a time, and one more after it.
Queue(c, r, y, v, on) ==
  IF search # NoSearch
  THEN pending' = TRUE /\ UNCHANGED <<search, inits, drifted>>
  ELSE /\ pending' = FALSE
       /\ IF on /\ ~overlay
          THEN /\ search' = [phase |-> "init"] /\ inits' = inits \cup {[by |-> "search", again |-> TRUE]}
               /\ UNCHANGED drifted
          ELSE /\ search' = [phase |-> "fetch", body |-> Body(c, r, y, v)] /\ UNCHANGED inits
               /\ drifted' = FALSE

SessionInit ==
  /\ lake = Lake0 /\ pageView = Start /\ timer = FALSE
  /\ load = "registry" /\ overlay = FALSE /\ inits = {} /\ calls = {} /\ retries = 0
  /\ searchable = {Default} /\ active = Default
  /\ region = All /\ year = Latest /\ availability = {} /\ cog \in BOOLEAN
  /\ search = NoSearch /\ pending = FALSE
  /\ shown = [features |-> {}, body |-> [box |-> {}, view |-> Start]]
  /\ footprints = {} /\ drawn = NoShapes /\ signature = <<>> /\ revised = {}
  /\ drifted = TRUE /\ failed = FALSE /\ events = 0

UserActs == events < MaxEvents /\ events' = events + 1

-----------------------------------------------------------------------------
(* The map and its load handler.                                           *)

\* The registry is there; then the modules, the collections, the availability and a first search.
RegistryLoaded ==
  /\ load = "registry"
  /\ load' = "modules"
  /\ inits' = inits \cup {[by |-> "load", again |-> TRUE]}
  /\ UNCHANGED <<lake, pageView, timer, overlay, calls, retries, controls, searching, picture, events>>

MoveEnd(v) ==
  /\ UserActs /\ v # pageView
  /\ pageView' = v
  /\ timer' = (timer \/ load = "ready")
  /\ drifted' = (drifted \/ load # "ready")
  /\ UNCHANGED <<lake, waiting, controls, search, pending, shown, failed, picture>>

\* A quarter of a second after the last move: no search when the last one's box covers the view.
TimerFires ==
  /\ timer /\ timer' = FALSE
  /\ IF footprintsCoverViewport(pageView)
     THEN /\ drawn' = Draws(overlay, cog, shown.features)
          /\ drifted' = (drifted \/ search # NoSearch)
          /\ UNCHANGED <<search, pending, inits>>
     ELSE Queue(active, region, year, pageView, cog) /\ UNCHANGED drawn
  /\ UNCHANGED <<lake, pageView, load, overlay, calls, retries, controls, shown, failed,
                 footprints, signature, revised, events>>

-----------------------------------------------------------------------------
(* The controls.                                                           *)

PickRegion(r) ==
  /\ UserActs /\ r \in {All} \cup {p[1] : p \in availability} /\ r # region
  /\ region' = r /\ year' = populateSearchYears(availability, r)
  /\ Queue(active, r, year', pageView, cog)
  /\ UNCHANGED <<lake, pageView, timer, load, overlay, calls, retries, searchable, active, availability, cog,
                 shown, failed, picture>>
PickYear(y) ==
  /\ UserActs /\ y # year
  /\ y \in IF region = All THEN {Latest} \cup {p[2] : p \in availability} ELSE YearsOf(availability, region)
  /\ year' = y
  /\ Queue(active, region, y, pageView, cog)
  /\ UNCHANGED <<lake, pageView, timer, load, overlay, calls, retries, searchable, active, region, availability, cog,
                 shown, failed, picture>>

ToggleCog ==
  /\ UserActs /\ cog' = ~cog
  /\ updateImagery(overlay, ~cog, shown.features)
  /\ IF cog THEN UNCHANGED <<search, pending, inits, drifted>> ELSE Queue(active, region, year, pageView, TRUE)
  /\ UNCHANGED <<lake, pageView, timer, load, overlay, calls, retries, searchable, active, region, year,
                 availability, shown, failed, footprints>>

\* A request of /availability: for the collection of now, to go back to the region of now.
Asks(c, r, then) == calls \cup {[what |-> "availability", collection |-> c, region |-> r, then |-> then]}

\* A collection that is ingested becomes the searched one; its availability comes first.
selectCollection(c) ==
  /\ UserActs /\ load # "registry"
  /\ IF c \in searchable
     THEN /\ active' = c
          /\ calls' = Asks(c, region, IF c = active THEN "nothing" ELSE "search")
     ELSE calls' = calls \cup {[what |-> "collections", then |-> c]} /\ UNCHANGED active
  /\ UNCHANGED <<lake, pageView, timer, load, overlay, inits, retries, searchable, region, year,
                 availability, cog, searching, picture>>

-----------------------------------------------------------------------------
(* The answers.                                                            *)

\* refreshCollections: the searched collection is kept if it is still there.
Chosen(ids) == IF active \in ids THEN active ELSE IF Default \in ids THEN Default ELSE CHOOSE c \in ids : TRUE
CollectionsAnswer(call) ==
  LET ids == IF lake = {} THEN {Default} ELSE {i.collection : i \in lake}
  IN  /\ call \in calls /\ call.what = "collections"
      /\ \E ok \in BOOLEAN :
           LET now == IF ok THEN Chosen(ids) ELSE active
               select == call.then \in Collections /\ call.then \in (IF ok THEN ids ELSE searchable)
           IN  /\ searchable' = IF ok THEN ids ELSE searchable
               /\ active' = IF select THEN call.then ELSE now
               /\ load' = IF call.then = "load" THEN "availability" ELSE load
               /\ calls' = (calls \ {call}) \cup
                    (IF select THEN {[what |-> "availability", collection |-> call.then, region |-> region,
                                      then |-> IF call.then = now THEN "nothing" ELSE "search"]}
                     ELSE IF call.then = "load"
                     THEN {[what |-> "availability", collection |-> now, region |-> region, then |-> "load"]}
                     ELSE {})
               /\ retries' = IF call.then = "load" /\ ~ok /\ retries = 0 THEN MaxRetries
                             ELSE IF call.then = "retry" THEN IF ok THEN 0 ELSE retries - 1
                             ELSE retries
               /\ drifted' = (drifted \/ (now # active /\ ~(select /\ call.then # now)))
      /\ UNCHANGED <<lake, pageView, timer, overlay, inits, region, year, availability, cog,
                     search, pending, shown, failed, picture, events>>
RetryTick ==
  /\ retries > 0 /\ \A call \in calls : call.then # "retry"
  /\ calls' = calls \cup {[what |-> "collections", then |-> "retry"]}
  /\ UNCHANGED <<lake, pageView, timer, load, overlay, inits, retries, controls, searching, picture, events>>

\* refreshAvailability goes back to the region that was shown when it asked, and to that
\* region's newest year; then the first search, or that of a newly selected collection, is queued.
AvailabilityAnswers(call) ==
  /\ call \in calls /\ call.what = "availability"
  /\ calls' = calls \ {call}
  /\ \E avail \in {Ingested(call.collection)} :
     \E r \in {IF \E p \in avail : p[1] = call.region THEN call.region ELSE All} :
       /\ availability' = avail /\ region' = r
       /\ year' = populateSearchYears(avail, r)
       /\ IF call.then = "nothing"
          THEN /\ drifted' = (drifted \/ r # region \/ year' # year)
               /\ UNCHANGED <<search, pending, inits>>
          ELSE Queue(active, r, year', pageView, cog)
  /\ load' = IF call.then # "load" THEN load ELSE IF search = NoSearch THEN "search" ELSE "ready"
  /\ UNCHANGED <<lake, pageView, timer, overlay, retries, searchable, active, cog, shown, failed, picture, events>>
AvailabilityFails(call) ==
  /\ call \in calls /\ call.what = "availability"
  /\ calls' = calls \ {call}
  /\ availability' = {} /\ region' = All /\ year' = Latest
  /\ drifted' = TRUE
  /\ load' = IF call.then = "load" THEN "ready" ELSE load
  /\ UNCHANGED <<lake, pageView, timer, overlay, inits, retries, searchable, active, cog,
                 search, pending, shown, failed, picture, events>>

\* initImagerySupport: the overlay is there and draws what was found; or the modules fail, for
\* want of memory the first time; then whoever waited goes on.
InitSettles(call) ==
  /\ call \in inits
  /\ \E outcome \in {"loaded", "starved", "failed"} :
       LET again == outcome = "starved" /\ call.again
           there == overlay \/ outcome = "loaded"
       IN  /\ overlay' = there
           /\ IF outcome = "loaded" /\ shown.features # {}
              THEN updateImagery(TRUE, cog, shown.features) ELSE UNCHANGED <<drawn, signature, revised>>
           /\ inits' = (inits \ {call}) \cup (IF again THEN {[call EXCEPT !.again = FALSE]} ELSE {})
           /\ IF call.by = "search" /\ ~again
              THEN search' = [phase |-> "fetch", body |-> Body(active, region, year, pageView)] /\ drifted' = FALSE
              ELSE UNCHANGED <<search, drifted>>
           /\ IF call.by = "load" /\ ~again
              THEN load' = "collections" /\ calls' = calls \cup {[what |-> "collections", then |-> "load"]}
              ELSE UNCHANGED <<load, calls>>
  /\ UNCHANGED <<lake, pageView, timer, retries, controls, pending, shown, failed, footprints, events>>

\* The rest of runSearch and of queueSearch: the results are shown, or an error is; and a
\* search that was asked for meanwhile is run.
SearchSettles ==
  /\ search.phase = "fetch"
  /\ \E ok \in BOOLEAN :
       IF ok THEN \E features \in {Found(search.body)} :
                    /\ shown' = [features |-> features, body |-> search.body]
                    /\ footprints' = features
                    /\ updateImagery(overlay, cog, features)
                    /\ failed' = FALSE
             ELSE failed' = TRUE /\ UNCHANGED <<shown, picture>>
  /\ pending' = FALSE
  /\ IF ~pending THEN search' = NoSearch /\ UNCHANGED <<inits, drifted>>
     ELSE IF cog /\ ~overlay
     THEN search' = [phase |-> "init"] /\ inits' = inits \cup {[by |-> "search", again |-> TRUE]} /\ UNCHANGED drifted
     ELSE /\ search' = [phase |-> "fetch", body |-> Body(active, region, year, pageView)]
          /\ drifted' = FALSE /\ UNCHANGED inits
  /\ load' = IF load = "search" /\ ~pending THEN "ready" ELSE load
  /\ UNCHANGED <<lake, pageView, timer, overlay, calls, retries, controls, events>>

\* An ingest started from the panel has completed: it asks what is available now.
IngestCompletes ==
  /\ ~(Later \subseteq lake) /\ UserActs
  /\ lake' = lake \cup Later
  /\ calls' = Asks(active, region, "nothing")
  /\ UNCHANGED <<pageView, timer, load, overlay, inits, retries, controls, searching, picture>>

SessionNext ==
  \/ RegistryLoaded \/ TimerFires \/ RetryTick \/ SearchSettles \/ IngestCompletes \/ ToggleCog
  \/ \E v \in Views : MoveEnd(v)
  \/ \E r \in {All} \cup {p[1] : p \in availability} : PickRegion(r)
  \/ \E y \in {Latest} \cup {p[2] : p \in availability} : PickYear(y)
  \/ \E c \in Collections : selectCollection(c)
  \/ \E call \in calls : CollectionsAnswer(call) \/ AvailabilityAnswers(call) \/ AvailabilityFails(call)
  \/ \E call \in inits : InitSettles(call)
SessionSpec == SessionInit /\ [][SessionNext]_sessionVars

-----------------------------------------------------------------------------
(* Properties.                                                             *)

SessionTypeOK ==
  /\ pageView \in Views /\ timer \in BOOLEAN /\ overlay \in BOOLEAN /\ cog \in BOOLEAN
  /\ load \in {"registry", "modules", "collections", "availability", "search", "ready"}
  /\ search.phase \in {"none", "init", "fetch"} /\ (pending => search # NoSearch)
  /\ searchable \subseteq Collections /\ active \in Collections
  /\ retries \in 0..MaxRetries

AtRest == load = "ready" /\ ~timer /\ search = NoSearch /\ calls = {} /\ inits = {}

\* When nothing is awaited any more, and neither the last search nor an availability failed,
\* the results shown are those of the collection, the region and the year on the controls, and
\* the view is one their box covers or the one they were asked for: whatever was clicked and
\* moved while requests were under way.  Left out are the four ways in which the code lets
\* them drift (README): a move before the load handler is done, a move back into the shown
\* results while a search is under way, an availability that changes the controls though no
\* search follows, and a new list of collections without the searched one.
AtRestCurrent ==
  AtRest /\ ~drifted /\ ~failed =>
    /\ shown.body.collection = active /\ shown.body.region = region /\ shown.body.year = year
    /\ shown.body.view = pageView \/ Seen[pageView] \subseteq shown.body.box

\* What is on the map is what was found: the footprints, the sources of the mosaic when it is on
\* (none when it is off), and the revision that its tiles and the drapes were made under.
PictureIsResults ==
  /\ footprints = shown.features
  /\ overlay => drawn = (IF cog THEN shown.features ELSE NoShapes)
  /\ overlay /\ cog /\ shown.features # {} => revised = shown.features

\* What the page shows is what its controls ask for: the page is well formed, the picture is
\* that of the results, and at rest the results are those of the controls.
PictureIsCurrent == SessionTypeOK /\ PictureIsResults /\ AtRestCurrent
=============================================================================
