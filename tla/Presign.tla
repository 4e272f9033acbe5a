------------------------------ MODULE Presign ------------------------------
(***************************************************************************)
(* aws_s3.py: the credentials of the host, the S3 client made from them,    *)
(* the cache of presigned URLs, and the handlers of /sign and /search that  *)
(* read and fill it from several threads.  Time is counted in ticks.        *)
(***************************************************************************)
EXTENDS Integers, FiniteSets, SequencesExt

CONSTANTS
  Hrefs,                  \* the images
  Signable,               \* those of a registered collection
  None,
  Margin,                 \* the thirty seconds kept before a token dies
  PRESIGN_EXPIRES, PRESIGN_CACHE_TTL, PRESIGN_CACHE_MAXSIZE,
  Account,                \* the account the profile names
  Features,               \* the sets of images a search may find
  Lives,                  \* how long a session of the host may last
  UnknownLife,            \* how long a client is kept whose session's end is not known
  MaxTime, MaxSessions, MaxSearches, MaxResets  \* bounds of the instance

ASSUME PresignAssumption ==
  /\ Signable \subseteq Hrefs
  /\ Margin \in Nat /\ PRESIGN_EXPIRES \in Nat \ {0} /\ PRESIGN_CACHE_TTL \in Nat
  /\ PRESIGN_CACHE_MAXSIZE \in Nat \ {0} /\ Lives \subseteq Nat \ {0} /\ UnknownLife \in Nat
  /\ None \notin Int /\ MaxTime \in Nat

VARIABLES
  now,
  host,          \* what boto3 resolves, and the files of the login cache, newest first
  sessions,      \* how many sessions the host has had
  cached_creds,  \* _cached_creds
  client,        \* _global_s3_client: its session and when it is to be made again
  making,        \* the request that holds _global_s3_client_lock
  presign_cache, \* _presign_cache, least recently used first
  requests,      \* the threads that sign
  searches,      \* how many searches have signed
  resets         \* how often the credentials were reset

serverVars == <<now, host, sessions, cached_creds, client, making, presign_cache, requests, searches, resets>>

Requesters == Hrefs \X {"sign", "search"}
Session(key, exp) == [key |-> key, exp |-> exp]
Idle == [pc |-> "idle"]

-----------------------------------------------------------------------------
\* The first session in the login cache that is whole and lasts, of the profile's account if one is.
load_login_session_credentials(files) ==
  LET lasting == {i \in DOMAIN files : files[i].whole /\ files[i].creds.exp > now + Margin}
      own == {i \in lasting : Account # None /\ files[i].account = Account}
      best == IF own # {} THEN own ELSE lasting
  IN  IF best = {} THEN None ELSE files[CHOOSE i \in best : \A j \in best : i <= j].creds

\* The session get_aws_credentials returns, None when it returns no credentials at all.
get_aws_credentials ==
  IF cached_creds # None /\ cached_creds.exp > now + Margin THEN cached_creds
  ELSE IF host.boto # None THEN host.boto
  ELSE load_login_session_credentials(host.files)

\* As long as the session known now lasts, less the margin; a second when that is over,
\* which is less than a tick.
token_bounded_expires_in ==
  LET left == IF cached_creds = None THEN PRESIGN_EXPIRES ELSE cached_creds.exp - now
      bounded == IF PRESIGN_EXPIRES < left - Margin THEN PRESIGN_EXPIRES ELSE left - Margin
  IN  IF bounded < 0 THEN 0 ELSE bounded

\* A cache without the entry of the href: there is one at most.
DeleteEntry(cache, href) ==
  IF \E i \in DOMAIN cache : cache[i].href = href
  THEN RemoveAt(cache, CHOOSE i \in DOMAIN cache : cache[i].href = href) ELSE cache
Without(href) == DeleteEntry(presign_cache, href)
Entries(href) == {e \in ToSet(presign_cache) : e.href = href}
\* The n used last.
Newest(s, n) == SubSeq(s, Len(s) - n + 1, Len(s))

\* The cache with the URL stored last, for at most the window it was signed for.
store_cached_presigned_href(href, url, ttl) ==
  LET life == IF PRESIGN_CACHE_TTL < ttl THEN PRESIGN_CACHE_TTL ELSE ttl
      stored == Append(Without(href), [href |-> href, at |-> now + life, url |-> url])
  IN  IF life <= 0 THEN presign_cache
      ELSE Newest(stored, IF Len(stored) < PRESIGN_CACHE_MAXSIZE THEN Len(stored) ELSE PRESIGN_CACHE_MAXSIZE)

\* What is left of the cached entry of an href, None when there is none.
presigned_remaining(href) ==
  IF PRESIGN_CACHE_TTL <= 0 \/ Entries(href) = {} THEN None
  ELSE LET e == CHOOSE e \in Entries(href) : TRUE IN IF e.at > now THEN e.at - now ELSE 0

-----------------------------------------------------------------------------
ServerInit ==
  /\ now = 0
  /\ host \in {[boto |-> Session(1, l), files |-> <<>>] : l \in Lives}
  /\ sessions = 1
  /\ cached_creds = None /\ client = None /\ making = None
  /\ presign_cache = <<>>
  /\ requests = [r \in Requesters |-> Idle] /\ searches = 0 /\ resets = 0

\* Time passes.  A thread that is signing is done well within the margin.
Tick ==
  /\ now < MaxTime
  /\ \A r \in Requesters : requests[r].pc \notin {"client", "make"}
  /\ now' = now + 1
  /\ UNCHANGED <<host, sessions, cached_creds, client, making, presign_cache, requests, searches, resets>>

\* The host's session is renewed: boto3 resolves it, or the login cache has it, behind a
\* file that is torn or another account's, or there is none for a while.
HostChanges ==
  /\ sessions < MaxSessions
  /\ sessions' = sessions + 1
  /\ \E l \in Lives : LET new == Session(sessions + 1, now + l) IN
       host' \in {[boto |-> new, files |-> <<>>],
                  [boto |-> None, files |->
                     <<[whole |-> FALSE, creds |-> new, account |-> Account],
                       [whole |-> TRUE, creds |-> Session(-(sessions + 1), now + l + 1), account |-> None],
                       [whole |-> TRUE, creds |-> new, account |-> Account]>>],
                  [boto |-> None, files |-> <<>>]}
  /\ UNCHANGED <<now, cached_creds, client, making, presign_cache, requests, searches, resets>>

\* A query of the lake failed on an expired token: reset_aws_credentials_cache.
ResetCredentials ==
  /\ cached_creds # None
  /\ cached_creds' = None
  /\ resets < MaxResets /\ resets' = resets + 1
  /\ UNCHANGED <<now, host, sessions, client, making, presign_cache, requests, searches>>

\* A URL at hand: /sign has its window left to tell, a worker of /search puts it in the answer.
Has(r, url) == IF r[2] = "sign" THEN [pc |-> "report", url |-> url] ELSE Idle
Failed(r) == IF r[2] = "sign" THEN [pc |-> "failed"] ELSE Idle
Step(r, state) == requests' = [requests EXCEPT ![r] = state]

\* The href is checked and the cache read; on a miss the window of the new URL is fixed.
Lookup(r) ==
  LET href == r[1]
      hit == {e \in Entries(href) : e.at > now /\ PRESIGN_CACHE_TTL > 0}
  IN  /\ requests[r].pc = "start"
      /\ IF href \notin Signable
         THEN Step(r, Failed(r)) /\ UNCHANGED presign_cache
         ELSE IF hit # {}
         THEN \E e \in hit : /\ presign_cache' = Append(Without(href), e)
                             /\ Step(r, Has(r, e.url))
         ELSE /\ presign_cache' = Without(href)
              /\ Step(r, [pc |-> "client", ttl |-> token_bounded_expires_in,
                          known |-> IF cached_creds = None THEN None ELSE cached_creds.key])
      /\ UNCHANGED <<now, host, sessions, cached_creds, client, making, searches, resets>>

\* The URL is made with the client's session, or the signing fails for want of one.
\* A URL is "sound" when its window was fixed from the session that signed it.
Signs(r, made) ==
  IF made.creds = None THEN Step(r, Failed(r)) /\ UNCHANGED presign_cache
  ELSE LET until == now + requests[r].ttl
           url == [sound |-> requests[r].known = made.creds.key,
                   end |-> IF until < made.creds.exp THEN until ELSE made.creds.exp]
       IN  /\ presign_cache' = store_cached_presigned_href(r[1], url, requests[r].ttl)
           /\ Step(r, Has(r, url))

\* get_s3_client: the client is kept while its session lasts; otherwise its lock is held
\* while the credentials are fetched.
UseClient(r) ==
  /\ requests[r].pc = "client" /\ making = None
  /\ IF client # None /\ client.exp > now + Margin
     THEN Signs(r, client) /\ UNCHANGED <<cached_creds, making>>
     ELSE \E creds \in {get_aws_credentials} :
            /\ making' = r
            /\ cached_creds' = IF creds = None THEN cached_creds ELSE creds
            /\ Step(r, [pc |-> "make", ttl |-> requests[r].ttl, known |-> requests[r].known, creds |-> creds])
            /\ UNCHANGED presign_cache
  /\ UNCHANGED <<now, host, sessions, client, searches, resets>>

\* The client is made; when it is to be made again is read from the shared credentials,
\* which may have been reset in between.
MakeClient(r) ==
  /\ requests[r].pc = "make"
  /\ \E made \in {[creds |-> requests[r].creds,
                   exp |-> IF cached_creds = None THEN now + UnknownLife ELSE cached_creds.exp]} :
       client' = made /\ Signs(r, made)
  /\ making' = None
  /\ UNCHANGED <<now, host, sessions, cached_creds, searches, resets>>

\* The window told to the viewer: what the cache says is left, or else a new bound.
\* The answer is "honest" when it is of the URL's own entry and the URL is sound.
Report(r) ==
  LET remaining == presigned_remaining(r[1])
      own == \E e \in Entries(r[1]) : e.url = requests[r].url
  IN  /\ requests[r].pc = "report"
      /\ Step(r, [pc |-> "answered", url |-> requests[r].url,
                  expires_in |-> IF remaining \notin {None, 0} THEN remaining ELSE token_bounded_expires_in,
                  honest |-> own /\ remaining # 0 /\ requests[r].url.sound])
      /\ UNCHANGED <<now, host, sessions, cached_creds, client, making, presign_cache, searches, resets>>

\* It reads the shared credentials, and once more those it has found: for the window of a
\* new URL, for the keys, and for the end of the session.
ReadsCredentials(r) ==
  \/ requests[r].pc = "start" /\ r[1] \in Signable /\ presigned_remaining(r[1]) \in {None, 0}
  \/ requests[r].pc = "client" /\ making = None /\ (client = None \/ client.exp <= now + Margin)
  \/ requests[r].pc = "make"
  \/ requests[r].pc = "report" /\ presigned_remaining(r[1]) \in {None, 0}
\* They are reset between two of these reads: the second finds None, which fails the request.
ResetBetweenReads(r) ==
  /\ cached_creds # None /\ ReadsCredentials(r)
  /\ cached_creds' = None
  /\ resets < MaxResets /\ resets' = resets + 1
  /\ presign_cache' = IF requests[r].pc = "start" THEN Without(r[1]) ELSE presign_cache
  /\ making' = IF requests[r].pc = "make" THEN None ELSE making
  /\ Step(r, Failed(r))
  /\ UNCHANGED <<now, host, sessions, client, searches>>

\* A /search signs the images of its features, each in a worker: the features are a
\* set of images, and those in the cache are answered at once like those of /sign.
SearchSigns ==
  /\ \A h \in Hrefs : requests[<<h, "search">>] = Idle
  /\ searches < MaxSearches /\ searches' = searches + 1
  /\ \E features \in Features :
       requests' = [r \in Requesters |-> IF r[2] = "search" /\ r[1] \in features
                                        THEN [pc |-> "start"] ELSE requests[r]]
  /\ UNCHANGED <<now, host, sessions, cached_creds, client, making, presign_cache, resets>>

ServerNext ==
  \/ Tick \/ HostChanges \/ ResetCredentials \/ SearchSigns
  \/ \E r \in Requesters : Lookup(r) \/ UseClient(r) \/ MakeClient(r) \/ Report(r) \/ ResetBetweenReads(r)
=============================================================================
