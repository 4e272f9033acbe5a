--------------------------- MODULE SignedSources ---------------------------
(***************************************************************************)
(* The viewer's sources (app.js): signHref with its cache of signed URLs    *)
(* and its shared requests, resolveGeotiffSource with its LRU of opened     *)
(* files, and the one new signature after a refused URL.                    *)
(***************************************************************************)
EXTENDS Presign

CONSTANTS
  Public,                   \* images of public collections, read without a signature
  ClientMargin,             \* the minute the viewer keeps before a URL lapses
  GEOTIFF_SOURCE_CACHE_MAX,
  MaxOpens                  \* bound: files opened in a behaviour

ASSUME SourcesAssumption ==
  /\ Public \subseteq Hrefs /\ ClientMargin \in Nat /\ GEOTIFF_SOURCE_CACHE_MAX \in Nat \ {0}

VARIABLES
  signedUrls,       \* signedUrlCache
  inflightSigns,    \* when each request under way was made
  opens,            \* the files opened: their promises
  geotiffSources,   \* geotiffSourceCache: promises, least recently used first
  geotiffResolved,  \* geotiffSourceResolved
  resignAttempted

clientVars == <<signedUrls, inflightSigns, opens, geotiffSources, geotiffResolved, resignAttempted>>
sourcesVars == <<serverVars, clientVars>>

Forever == MaxTime + 1
PublicUrl == [sound |-> TRUE, end |-> Forever]
Alive(url) == now < url.end

CachedOpen(href) == {e \in ToSet(geotiffSources) : e.href = href}
NotSigned(href) == [signedUrls EXCEPT ![href] = None]

SourcesInit ==
  /\ ServerInit
  /\ signedUrls = [h \in Hrefs |-> None]
  /\ inflightSigns = [h \in Hrefs |-> None]
  /\ opens = <<>>
  /\ geotiffSources = <<>>
  /\ geotiffResolved = [h \in Hrefs |-> None]
  /\ resignAttempted = {}

-----------------------------------------------------------------------------
\* signHref up to its first await: the URL at hand, or a request, shared by all who ask.
SignedNow(href) ==
  IF href \in Public THEN PublicUrl
  ELSE IF signedUrls[href] # None /\ signedUrls[href].expiresAt > now THEN signedUrls[href].url
  ELSE None
Ask(href) ==
  IF SignedNow(href) # None \/ inflightSigns[href] # None
  THEN UNCHANGED <<inflightSigns, requests>>
  ELSE /\ inflightSigns' = [inflightSigns EXCEPT ![href] = now]
       /\ Step(<<href, "sign">>, [pc |-> "start"])

\* resolveGeotiffSource up to its await: the promise in the cache is shared and becomes
\* the most recent; otherwise a file is opened and the least recent ones are dropped.
Resolve(href) ==
  /\ IF CachedOpen(href) # {}
     THEN /\ \E e \in CachedOpen(href) : geotiffSources' = Append(DeleteEntry(geotiffSources, href), e)
          /\ UNCHANGED <<opens, geotiffResolved, inflightSigns, requests>>
     ELSE \E id \in {Len(opens) + 1} :
          \E all \in {Append(geotiffSources, [href |-> href, id |-> id])} :
          \E kept \in {Newest(all, IF Len(all) < GEOTIFF_SOURCE_CACHE_MAX THEN Len(all)
                                   ELSE GEOTIFF_SOURCE_CACHE_MAX)} :
            /\ id <= MaxOpens
            /\ Ask(href)
            /\ opens' = Append(opens, [href |-> href, url |-> SignedNow(href),
                                       phase |-> IF SignedNow(href) = None THEN "sign" ELSE "header"])
            /\ geotiffSources' = kept
            /\ geotiffResolved' = [h \in Hrefs |-> IF \E e \in ToSet(all) \ ToSet(kept) : e.href = h
                                                   THEN None ELSE geotiffResolved[h]]
  /\ UNCHANGED <<now, host, sessions, cached_creds, client, making, presign_cache, searches, resets, signedUrls, resignAttempted>>

ResolvedWith_Unasked(id) == [geotiffResolved EXCEPT ![opens[id].href] = id]
\* The file is noted as open if the cache still holds this very promise.
ResolvedWith(id) ==
  IF [href |-> opens[id].href, id |-> id] \in ToSet(geotiffSources)
  THEN [geotiffResolved EXCEPT ![opens[id].href] = id] ELSE geotiffResolved

Settled(id, phase) == [href |-> opens[id].href, url |-> None, phase |-> phase]

\* A failed open never stays in the cache, whichever promise is there.
KeptAfterFailure(href) == DeleteEntry(geotiffSources, href)

\* The opens of an image fail.  A URL refused as lapsed loses its signature, and the
\* layer tries once more, until the next search.
Fails(ids, href, expired) ==
  LET again == expired /\ href \notin resignAttempted
  IN  /\ opens' = [i \in DOMAIN opens |-> IF i \in ids THEN Settled(i, "failed") ELSE opens[i]]
      /\ geotiffSources' = KeptAfterFailure(href)
      /\ geotiffResolved' = [geotiffResolved EXCEPT ![href] = None]
      /\ signedUrls' = IF expired THEN NotSigned(href) ELSE signedUrls
      /\ resignAttempted' = IF again THEN resignAttempted \cup {href} ELSE resignAttempted

ExpiresAt_Answered(asked, expires_in) ==
  IF expires_in > ClientMargin THEN now + expires_in - ClientMargin ELSE now + ClientMargin
\* When the viewer stops using a URL: a minute before the server's window, counted from
\* the moment it asked; a window of a minute or less counts as a minute.
ExpiresAt(asked, expires_in) ==
  IF expires_in > ClientMargin THEN asked + expires_in - ClientMargin ELSE asked + ClientMargin

\* The answer of /sign: all opens that wait for it go on, or fail with it.
SignSettles(href) ==
  LET answer == requests[<<href, "sign">>]
      waiting == {i \in DOMAIN opens : opens[i].href = href /\ opens[i].phase = "sign"}
  IN  /\ answer.pc \in {"answered", "failed"}
      /\ inflightSigns' = [inflightSigns EXCEPT ![href] = None]
      /\ Step(<<href, "sign">>, Idle)
      /\ IF answer.pc = "failed"
         THEN Fails(waiting, href, FALSE)
         ELSE /\ signedUrls' = [signedUrls EXCEPT ![href] =
                   [url |-> answer.url, expiresAt |-> ExpiresAt(inflightSigns[href], answer.expires_in),
                    honest |-> answer.honest /\ answer.expires_in > ClientMargin]]
              /\ opens' = [i \in DOMAIN opens |-> IF i \in waiting
                           THEN [opens[i] EXCEPT !.phase = "header", !.url = answer.url] ELSE opens[i]]
              /\ UNCHANGED <<geotiffSources, geotiffResolved, resignAttempted>>
      /\ UNCHANGED <<now, host, sessions, cached_creds, client, making, presign_cache, searches, resets>>

\* The header of the file is read: the server refuses a URL that lapsed; a read may fail.
HeaderAnswers(id) ==
  /\ opens[id].phase = "header"
  /\ \/ /\ Alive(opens[id].url)
        /\ opens' = [opens EXCEPT ![id] = Settled(id, "open")]
        /\ geotiffResolved' = ResolvedWith(id)
        /\ UNCHANGED <<geotiffSources, signedUrls, resignAttempted>>
     \/ Fails({id}, opens[id].href, ~Alive(opens[id].url))
  /\ UNCHANGED <<inflightSigns, serverVars>>

\* A search is run: every image may be signed once more.
NewSearch ==
  /\ resignAttempted # {}
  /\ resignAttempted' = {}
  /\ UNCHANGED <<serverVars, signedUrls, inflightSigns, opens, geotiffSources, geotiffResolved>>

\* clearGeotiffSourceCache: the terrain is released.
ClearSources ==
  /\ geotiffSources # <<>>
  /\ geotiffSources' = <<>>
  /\ geotiffResolved' = [h \in Hrefs |-> None]
  /\ UNCHANGED <<serverVars, signedUrls, inflightSigns, opens, resignAttempted>>

SourcesNext ==
  \/ ServerNext /\ UNCHANGED clientVars
  \/ \E h \in Hrefs : Resolve(h) \/ SignSettles(h)
  \/ \E id \in DOMAIN opens : HeaderAnswers(id)
  \/ NewSearch \/ ClearSources
SourcesSpec == SourcesInit /\ [][SourcesNext]_sourcesVars

-----------------------------------------------------------------------------
(* Properties.                                                             *)

SourcesTypeOK ==
  /\ now \in 0..MaxTime /\ making \in Requesters \cup {None}
  /\ Len(presign_cache) <= PRESIGN_CACHE_MAXSIZE
  /\ Len(geotiffSources) <= GEOTIFF_SOURCE_CACHE_MAX
  /\ \A r \in Requesters : requests[r].pc \in {"idle", "start", "client", "make", "report", "answered", "failed"}
  /\ \A h \in Hrefs : /\ inflightSigns[h] \in Nat \cup {None}
                      /\ (inflightSigns[h] = None) = (requests[<<h, "sign">>] = Idle)
  /\ \A i \in DOMAIN opens : opens[i].phase \in {"sign", "header", "open", "failed"}
  /\ resignAttempted \subseteq Hrefs

\* A URL whose window was fixed from the session that signed it is given out of the
\* server's cache only while it is good, and the viewer stops using one, of which the server
\* told the window that its cache has, before it lapses: however long the request took,
\* whoever else signed, and though the credentials were renewed or reset in between.
UrlsLapseUnused ==
  /\ \A e \in ToSet(presign_cache) : e.url.sound => e.at <= e.url.end
  /\ \A h \in Hrefs : signedUrls[h] # None /\ signedUrls[h].honest
                        => signedUrls[h].expiresAt <= signedUrls[h].url.end

\* The two maps of opened files agree: a file noted as open is the one of the promise that
\* is cached, and a promise that failed is never handed out, although a file evicted
\* meanwhile may be opened twice at once and either open may end first.
SourcesAgree ==
  /\ SourcesTypeOK
  /\ \A h \in Hrefs : geotiffResolved[h] # None =>
       /\ \E e \in CachedOpen(h) : e.id = geotiffResolved[h]
       /\ opens[geotiffResolved[h]].phase = "open"
  /\ \A e \in ToSet(geotiffSources) : opens[e.id].phase # "failed"
=============================================================================
