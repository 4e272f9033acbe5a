---------------------------- MODULE ViewerProofs ----------------------------
(***************************************************************************)
(* What the viewer can rely on in the URLs it is given and in the files it  *)
(* keeps open, for any images, windows, sessions and order of the answers;  *)
(* how its picture follows its controls; what its two overlays show, and    *)
(* what the terrain keeps, for any positions of the map, acts of the user   *)
(* and order of the answers; and that the textures of the terrain come out  *)
(* right and their cache adds up, for any images, tiles and limits.         *)
(***************************************************************************)
EXTENDS SignedSources, ViewerSession, Footprints, Terrain, DrapeTiles, SequenceTheorems, FiniteSetTheorems, TLAPS

-----------------------------------------------------------------------------
(* Caches: sequences of entries with one entry at most of an href.         *)

OneEach(q) == \A i, j \in DOMAIN q : q[i].href = q[j].href => i = j

LEMMA RemoveAtFacts ==
  ASSUME NEW S, NEW q \in Seq(S), NEW k \in DOMAIN q
  PROVE  /\ RemoveAt(q, k) \in Seq(S)
         /\ Len(RemoveAt(q, k)) = Len(q) - 1
         /\ \A j \in 1..Len(q) - 1 : RemoveAt(q, k)[j] = IF j < k THEN q[j] ELSE q[j + 1]
<1> DEFINE a == SubSeq(q, 1, k - 1)
           b == SubSeq(q, k + 1, Len(q))
<1>1. /\ a \in Seq(S) /\ Len(a) = k - 1 /\ \A j \in 1..k - 1 : a[j] = q[j]
      /\ b \in Seq(S) /\ Len(b) = Len(q) - k /\ \A j \in 1..Len(q) - k : b[j] = q[k + j]
  OBVIOUS
<1>2. RemoveAt(q, k) = a \o b
  BY DEF RemoveAt
<1> HIDE DEF a, b
<1>3. /\ a \o b \in Seq(S) /\ Len(a \o b) = Len(q) - 1
      /\ \A j \in 1..Len(q) - 1 : (a \o b)[j] = IF j < k THEN a[j] ELSE b[j - (k - 1)]
  <2>1. /\ a \o b \in Seq(S) /\ Len(a \o b) = Len(a) + Len(b)
        /\ \A j \in 1..Len(a) + Len(b) : (a \o b)[j] = IF j <= Len(a) THEN a[j] ELSE b[j - Len(a)]
    BY <1>1
  <2>2. Len(q) \in Nat /\ k \in Nat /\ Len(a) = k - 1 /\ Len(b) = Len(q) - k
    BY <1>1
  <2>3. Len(a) + Len(b) = Len(q) - 1
    BY <2>2
  <2>4. ASSUME NEW j \in 1..Len(q) - 1
        PROVE  (a \o b)[j] = IF j < k THEN a[j] ELSE b[j - (k - 1)]
    <3>1. (a \o b)[j] = IF j <= Len(a) THEN a[j] ELSE b[j - Len(a)]
      BY <2>1, <2>3
    <3>2. j <= Len(a) <=> j < k
      BY <2>2
    <3> QED
      BY <2>2, <3>1, <3>2
  <2> QED
    BY <2>1, <2>3, <2>4
<1>4. ASSUME NEW j \in 1..Len(q) - 1
      PROVE  (a \o b)[j] = IF j < k THEN q[j] ELSE q[j + 1]
  <2>1. CASE j < k
    BY <2>1, <1>1, <1>3
  <2>2. CASE ~(j < k)
    <3>1. j - (k - 1) \in 1..Len(q) - k /\ k + (j - (k - 1)) = j + 1
      BY <2>2
    <3> QED
      BY <2>2, <3>1, <1>1, <1>3
  <2> QED
    BY <2>1, <2>2
<1> QED
  BY <1>2, <1>3, <1>4

\* Without the entry of an href: the others stay.
LEMMA DeleteFacts ==
  ASSUME NEW S, NEW q \in Seq(S), NEW h, OneEach(q)
  PROVE  /\ DeleteEntry(q, h) \in Seq(S) /\ OneEach(DeleteEntry(q, h))
         /\ ToSet(DeleteEntry(q, h)) = {e \in ToSet(q) : e.href # h}
         /\ Len(DeleteEntry(q, h)) <= Len(q)
         /\ (\E e \in ToSet(q) : e.href = h) => Len(DeleteEntry(q, h)) = Len(q) - 1
<1> DEFINE d == DeleteEntry(q, h)
<1>1. CASE \A i \in DOMAIN q : q[i].href # h
  <2>1. d = q
    BY <1>1 DEF DeleteEntry
  <2> QED
    BY <1>1, <2>1 DEF ToSet
<1>2. CASE \E i \in DOMAIN q : q[i].href = h
  <2> DEFINE k == CHOOSE i \in DOMAIN q : q[i].href = h
  <2>1. k \in DOMAIN q /\ q[k].href = h
    BY <1>2
  <2>2. d = RemoveAt(q, k)
    BY <1>2 DEF DeleteEntry
  <2> HIDE DEF k, d
  <2>3. /\ d \in Seq(S) /\ Len(d) = Len(q) - 1
        /\ \A j \in 1..Len(q) - 1 : d[j] = IF j < k THEN q[j] ELSE q[j + 1]
    BY <2>1, <2>2, RemoveAtFacts
  <2>4. OneEach(d)
    <3> SUFFICES ASSUME NEW i \in DOMAIN d, NEW j \in DOMAIN d, d[i].href = d[j].href
                 PROVE  i = j
      BY DEF OneEach
    <3>1. i \in 1..Len(q) - 1 /\ j \in 1..Len(q) - 1
      BY <2>3
    <3>2. PICK x \in DOMAIN q : d[i] = q[x] /\ x = IF i < k THEN i ELSE i + 1
      BY <2>1, <2>3, <3>1
    <3>3. PICK y \in DOMAIN q : d[j] = q[y] /\ y = IF j < k THEN j ELSE j + 1
      BY <2>1, <2>3, <3>1
    <3>4. x = y
      BY <3>2, <3>3 DEF OneEach
    <3> QED
      BY <2>1, <3>1, <3>2, <3>3, <3>4
  <2>5. ASSUME NEW e \in ToSet(d)
        PROVE  e \in ToSet(q) /\ e.href # h
    <3>1. PICK j \in 1..Len(q) - 1 : e = d[j]
      BY <2>3 DEF ToSet
    <3>2. PICK x \in DOMAIN q : e = q[x] /\ x # k
      <4>1. CASE j < k
        BY <2>1, <2>3, <3>1, <4>1
      <4>2. CASE ~(j < k)
        BY <2>1, <2>3, <3>1, <4>2
      <4> QED
        BY <4>1, <4>2
    <3> QED
      BY <2>1, <3>2 DEF OneEach, ToSet
  <2>6. ASSUME NEW e \in ToSet(q), e.href # h
        PROVE  e \in ToSet(d)
    <3>1. PICK x \in DOMAIN q : e = q[x]
      BY DEF ToSet
    <3>2. x # k /\ x \in 1..Len(q)
      BY <2>1, <2>6, <3>1
    <3>3. CASE x < k
      <4>1. x \in 1..Len(q) - 1 /\ d[x] = e
        BY <2>1, <2>3, <3>1, <3>2, <3>3
      <4> QED
        BY <2>3, <4>1 DEF ToSet
    <3>4. CASE x > k
      <4>1. x - 1 \in 1..Len(q) - 1 /\ d[x - 1] = e
        <5>1. x - 1 \in 1..Len(q) - 1 /\ ~(x - 1 < k) /\ (x - 1) + 1 = x
          BY <2>1, <3>2, <3>4
        <5>2. d[x - 1] = q[(x - 1) + 1]
          BY <2>3, <5>1
        <5> QED
          BY <3>1, <5>1, <5>2
      <4> QED
        BY <2>3, <4>1 DEF ToSet
    <3> QED
      BY <2>1, <3>2, <3>3, <3>4
  <2>7. ToSet(d) = {e \in ToSet(q) : e.href # h}
    BY <2>5, <2>6
  <2> QED
    BY <2>3, <2>4, <2>7 DEF d
<1> QED
  BY <1>1, <1>2

LEMMA AppendFacts ==
  ASSUME NEW S, NEW q \in Seq(S), NEW e \in S, OneEach(q), \A x \in ToSet(q) : x.href # e.href
  PROVE  /\ Append(q, e) \in Seq(S) /\ OneEach(Append(q, e)) /\ Len(Append(q, e)) = Len(q) + 1
         /\ ToSet(Append(q, e)) = ToSet(q) \cup {e}
<1> DEFINE a == Append(q, e)
<1>1. /\ a \in Seq(S) /\ Len(a) = Len(q) + 1 /\ a[Len(q) + 1] = e
      /\ \A i \in 1..Len(q) : a[i] = q[i]
  OBVIOUS
<1> HIDE DEF a
<1>2. OneEach(a)
  <2> SUFFICES ASSUME NEW i \in DOMAIN a, NEW j \in DOMAIN a, a[i].href = a[j].href
               PROVE  i = j
    BY DEF OneEach
  <2>1. \A k \in 1..Len(q) : a[k].href # e.href
    BY <1>1 DEF ToSet
  <2>2. i \in 1..Len(q) + 1 /\ j \in 1..Len(q) + 1
    BY <1>1
  <2>3. CASE i \in 1..Len(q) /\ j \in 1..Len(q)
    BY <1>1, <2>3 DEF OneEach
  <2> QED
    BY <1>1, <2>1, <2>2, <2>3
<1>3. ToSet(a) = ToSet(q) \cup {e}
  <2>1. DOMAIN a = DOMAIN q \cup {Len(q) + 1}
    BY <1>1
  <2> QED
    BY <1>1, <2>1 DEF ToSet
<1> QED
  BY <1>1, <1>2, <1>3 DEF a

LEMMA NewestFacts ==
  ASSUME NEW S, NEW q \in Seq(S), OneEach(q), NEW n \in 0..Len(q)
  PROVE  /\ Newest(q, n) \in Seq(S) /\ OneEach(Newest(q, n)) /\ Len(Newest(q, n)) = n
         /\ ToSet(Newest(q, n)) \subseteq ToSet(q)
         /\ n > 0 => q[Len(q)] \in ToSet(Newest(q, n))
<1> DEFINE s == Newest(q, n)
<1>1. /\ s \in Seq(S) /\ Len(s) = n
      /\ \A i \in 1..n : s[i] = q[i + (Len(q) - n)] /\ i + (Len(q) - n) \in DOMAIN q
  BY DEF Newest
<1> HIDE DEF s
<1>2. OneEach(s)
  <2> SUFFICES ASSUME NEW i \in DOMAIN s, NEW j \in DOMAIN s, s[i].href = s[j].href
               PROVE  i = j
    BY DEF OneEach
  <2>1. i \in 1..n /\ j \in 1..n
    BY <1>1
  <2>2. i + (Len(q) - n) = j + (Len(q) - n)
    BY <1>1, <2>1 DEF OneEach
  <2> QED
    BY <2>1, <2>2
<1>3. ToSet(s) \subseteq ToSet(q)
  BY <1>1 DEF ToSet
<1>4. n > 0 => q[Len(q)] \in ToSet(s)
  <2> SUFFICES ASSUME n > 0 PROVE q[Len(q)] \in ToSet(s)
    OBVIOUS
  <2>1. n \in 1..n /\ n + (Len(q) - n) = Len(q)
    OBVIOUS
  <2>2. s[n] = q[Len(q)] /\ n \in DOMAIN s
    BY <1>1, <2>1
  <2> QED
    BY <2>2 DEF ToSet
<1> QED
  BY <1>1, <1>2, <1>3, <1>4 DEF s

-----------------------------------------------------------------------------
(* The server: its types, its sessions and its cache.                      *)

Sess == [key : Int, exp : Nat]
Urls == [sound : BOOLEAN, end : Int]
Stored == [href : Hrefs, at : Int, url : Urls]
Known == Int \cup {None}
States == [pc : {"idle", "start", "failed"}] \cup [pc : {"client"}, ttl : Nat, known : Known]
  \cup [pc : {"make"}, ttl : Nat, known : Known, creds : Sess \cup {None}]
  \cup [pc : {"report"}, url : Urls]
  \cup [pc : {"answered"}, url : Urls, expires_in : Nat, honest : BOOLEAN]

ServerTyped ==
  /\ now \in 0..MaxTime /\ sessions \in Nat
  /\ host.boto \in Sess \cup {None} /\ DOMAIN host.files \subseteq 1..3
  /\ \A i \in DOMAIN host.files : host.files[i].creds \in Sess
  /\ cached_creds \in Sess \cup {None}
  /\ client = None \/ client \in [creds : Sess \cup {None}, exp : Nat]
  /\ making \in Requesters \cup {None}
  /\ requests \in [Requesters -> States]

\* The sessions up to the n-th and their ends f: one end for each key.
Of(s, f, n) == s # None => -n <= s.key /\ s.key <= n /\ s.exp = f[s.key]
\* The window a request fixed at t lies within the session it was fixed from.
Timed(x, f, n, t) ==
  /\ x.pc \in {"client", "make"} /\ x.known # None =>
       -n <= x.known /\ x.known <= n /\ (x.ttl = 0 \/ t + x.ttl <= f[x.known])
  /\ x.pc = "make" => Of(x.creds, f, n)
Issued(f) ==
  /\ Of(host.boto, f, sessions) /\ \A i \in DOMAIN host.files : Of(host.files[i].creds, f, sessions)
  /\ Of(cached_creds, f, sessions) /\ (client # None => Of(client.creds, f, sessions))
  /\ \A r \in Requesters : Timed(requests[r], f, sessions, now)
SessionsInv == \E f \in [Int -> Nat] : Issued(f)

\* The cache q of the server.
Lasting(q) == \A e \in ToSet(q) : e.url.sound => e.at <= e.url.end
CacheFit(q) ==
  /\ q \in Seq(Stored) /\ OneEach(q) /\ Len(q) <= PRESIGN_CACHE_MAXSIZE /\ Lasting(q)
  /\ q # <<>> => PRESIGN_CACHE_TTL > 0

\* The request x of the viewer for an image, asked at some time, at the time t.
Told(x, asked, t) ==
  /\ asked \in Nat \cup {None} /\ (asked = None <=> x.pc = "idle")
  /\ asked # None => asked <= t
  /\ x.pc = "answered" /\ x.honest => asked + x.expires_in <= x.url.end
ToldInv == \A h \in Hrefs : Told(requests[<<h, "sign">>], inflightSigns[h], now)

ServerInv == ServerTyped /\ SessionsInv /\ CacheFit(presign_cache) /\ ToldInv

\* A member of a sequence of stored URLs is one.
LEMMA StoredTyped ==
  ASSUME NEW q \in Seq(Stored), NEW e \in ToSet(q)
  PROVE  e \in Stored
BY DEF ToSet

\* A URL is kept for no longer than its own window.
LEMMA StoreFits ==
  ASSUME CacheFit(presign_cache), now \in Nat, NEW href \in Hrefs, NEW url \in Urls, NEW ttl \in Nat,
         url.sound => ttl = 0 \/ now + ttl <= url.end
  PROVE  CacheFit(store_cached_presigned_href(href, url, ttl))
<1> USE PresignAssumption
<1> DEFINE life == IF PRESIGN_CACHE_TTL < ttl THEN PRESIGN_CACHE_TTL ELSE ttl
           e == [href |-> href, at |-> now + life, url |-> url]
           q == Without(href)
           stored == Append(q, e)
           n == IF Len(stored) < PRESIGN_CACHE_MAXSIZE THEN Len(stored) ELSE PRESIGN_CACHE_MAXSIZE
<1>1. CASE life <= 0
  BY <1>1 DEF store_cached_presigned_href
<1>2. CASE ~(life <= 0)
  <2>1. store_cached_presigned_href(href, url, ttl) = Newest(stored, n)
    BY <1>2 DEF store_cached_presigned_href
  <2>2. PRESIGN_CACHE_TTL > 0 /\ e \in Stored /\ e.href = href /\ (e.url.sound => e.at <= e.url.end)
    BY <1>2 DEF Stored, Urls
  <2>3. /\ q \in Seq(Stored) /\ OneEach(q)
        /\ ToSet(q) = {x \in ToSet(presign_cache) : x.href # href}
    BY DeleteFacts DEF CacheFit, Without
  <2> HIDE DEF e, q, life
  <2>4. \A x \in ToSet(q) : x.href # e.href
    BY <2>2, <2>3
  <2>5. /\ stored \in Seq(Stored) /\ OneEach(stored) /\ ToSet(stored) = ToSet(q) \cup {e}
    BY <2>2, <2>3, <2>4, AppendFacts
  <2> HIDE DEF stored
  <2>6. n \in 0..Len(stored) /\ n <= PRESIGN_CACHE_MAXSIZE
    BY <2>5
  <2>7. /\ Newest(stored, n) \in Seq(Stored) /\ OneEach(Newest(stored, n)) /\ Len(Newest(stored, n)) = n
        /\ ToSet(Newest(stored, n)) \subseteq ToSet(stored)
    BY <2>5, <2>6, NewestFacts
  <2>8. Lasting(Newest(stored, n))
    BY <2>2, <2>3, <2>5, <2>7 DEF Lasting, CacheFit
  <2> QED
    BY <2>1, <2>2, <2>6, <2>7, <2>8 DEF CacheFit
<1> QED
  BY <1>1, <1>2

\* Reading an entry makes it the most recent, or removes it.
LEMMA LookupFits ==
  ASSUME CacheFit(presign_cache), NEW href \in Hrefs
  PROVE  /\ CacheFit(Without(href))
         /\ \A e \in Entries(href) : CacheFit(Append(Without(href), e))
<1> DEFINE q == Without(href)
<1>1. /\ q \in Seq(Stored) /\ OneEach(q)
      /\ ToSet(q) = {x \in ToSet(presign_cache) : x.href # href}
      /\ Len(q) <= Len(presign_cache)
      /\ (\E e \in ToSet(presign_cache) : e.href = href) => Len(q) = Len(presign_cache) - 1
  BY DeleteFacts DEF CacheFit, Without
<1>2. Len(presign_cache) \in Nat /\ Len(presign_cache) <= PRESIGN_CACHE_MAXSIZE /\ Len(q) \in Nat
      /\ PRESIGN_CACHE_MAXSIZE \in Nat
  BY <1>1, PresignAssumption DEF CacheFit
<1> HIDE DEF q
<1>3. presign_cache = <<>> => q = <<>>
  BY <1>1, <1>2
<1>4. CacheFit(q)
  BY <1>1, <1>2, <1>3 DEF CacheFit, Lasting
<1>5. ASSUME NEW e \in Entries(href)
      PROVE  CacheFit(Append(q, e))
  <2>1. e \in ToSet(presign_cache) /\ e.href = href /\ e \in Stored
    BY StoredTyped DEF Entries, CacheFit
  <2>2. /\ Append(q, e) \in Seq(Stored) /\ OneEach(Append(q, e)) /\ Len(Append(q, e)) = Len(q) + 1
        /\ ToSet(Append(q, e)) = ToSet(q) \cup {e}
    BY <1>1, <2>1, AppendFacts
  <2>3. presign_cache # <<>>
    BY <2>1 DEF ToSet
  <2> QED
    BY <1>1, <1>2, <2>1, <2>2, <2>3 DEF CacheFit, Lasting
<1> QED
  BY <1>4, <1>5 DEF q

-----------------------------------------------------------------------------
(* The steps of the server.                                                *)

LEMMA Steps ==
  ASSUME ServerInv, NEW r \in Requesters, NEW x \in States, Step(r, x), UNCHANGED <<now, inflightSigns>>,
         \A h \in Hrefs : r = <<h, "sign">> => Told(x, inflightSigns[h], now)
  PROVE  requests' \in [Requesters -> States] /\ ToldInv'
<1>1. requests' = [requests EXCEPT ![r] = x] /\ requests \in [Requesters -> States]
  BY DEF Step, ServerInv, ServerTyped
<1>2. requests' \in [Requesters -> States]
  BY <1>1
<1>3. ASSUME NEW h \in Hrefs
      PROVE  Told(requests'[<<h, "sign">>], inflightSigns'[h], now')
  <2>1. <<h, "sign">> \in Requesters /\ Told(requests[<<h, "sign">>], inflightSigns[h], now)
    BY DEF Requesters, ServerInv, ToldInv
  <2>2. requests'[<<h, "sign">>] = IF r = <<h, "sign">> THEN x ELSE requests[<<h, "sign">>]
    BY <1>1, <2>1
  <2> QED
    BY <2>1, <2>2
<1> QED
  BY <1>2, <1>3 DEF ToldInv

\* A request at work stays asked when it goes on without an answer.
LEMMA GoesOn ==
  ASSUME ServerInv, NEW r \in Requesters, requests[r].pc # "idle", NEW x,
         r[2] = "sign" => x.pc # "idle", x.pc # "answered", NEW h \in Hrefs, r = <<h, "sign">>
  PROVE  Told(x, inflightSigns[h], now)
<1>1. Told(requests[r], inflightSigns[h], now) /\ r[2] = "sign"
  BY DEF ServerInv, ToldInv
<1> QED
  BY <1>1 DEF Told

LEMMA IssuedSteps ==
  ASSUME ServerInv, NEW f \in [Int -> Nat], Issued(f), NEW r \in Requesters, NEW x, Step(r, x),
         Timed(x, f, sessions, now), UNCHANGED <<now, host, sessions>>,
         Of(cached_creds', f, sessions), client' # None => Of(client'.creds, f, sessions)
  PROVE  Issued(f)'
<1>1. requests' = [requests EXCEPT ![r] = x] /\ requests \in [Requesters -> States]
  BY DEF Step, ServerInv, ServerTyped
<1>2. \A q \in Requesters : Timed(requests'[q], f, sessions', now')
  BY <1>1 DEF Issued
<1> QED
  BY <1>2 DEF Issued

\* The window told is nothing, or within the session that is known now.
LEMMA BoundedWindow ==
  ASSUME ServerTyped, NEW f \in [Int -> Nat], Issued(f)
  PROVE  /\ token_bounded_expires_in \in Nat
         /\ cached_creds # None => /\ cached_creds \in Sess
                                   /\ -sessions <= cached_creds.key /\ cached_creds.key <= sessions
                                   /\ \/ token_bounded_expires_in = 0
                                      \/ now + token_bounded_expires_in <= f[cached_creds.key]
<1>1. now \in Nat /\ Margin \in Nat /\ PRESIGN_EXPIRES \in Nat /\ (cached_creds # None => cached_creds.exp \in Nat)
  BY PresignAssumption DEF ServerTyped, Sess
<1>2. token_bounded_expires_in \in Nat
  BY <1>1 DEF token_bounded_expires_in
<1>3. ASSUME cached_creds # None
      PROVE  token_bounded_expires_in = 0 \/ now + token_bounded_expires_in <= cached_creds.exp
  BY <1>1, <1>3 DEF token_bounded_expires_in
<1> QED
  BY <1>2, <1>3 DEF Issued, Of, ServerTyped

LEMMA ServerInitInv == ASSUME SourcesInit PROVE ServerInv
<1> USE PresignAssumption
<1>0. PICK l \in Lives : host = [boto |-> Session(1, l), files |-> <<>>]
  BY DEF SourcesInit, ServerInit
<1>1. ServerTyped
  BY <1>0 DEF SourcesInit, ServerInit, ServerTyped, Session, Sess, States, Idle
<1>2. SessionsInv
  <2> DEFINE f == [k \in Int |-> l]
  <2>1. f \in [Int -> Nat] /\ f[1] = l
    OBVIOUS
  <2> HIDE DEF f
  <2>2. sessions = 1 /\ host.boto = Session(1, l) /\ DOMAIN host.files = {}
        /\ cached_creds = None /\ client = None
    BY <1>0 DEF SourcesInit, ServerInit
  <2>3. \A r \in Requesters : Timed(requests[r], f, sessions, now)
    BY DEF SourcesInit, ServerInit, Timed, Idle
  <2>4. Of(host.boto, f, sessions)
    BY <2>1, <2>2 DEF Of, Session
  <2>5. Issued(f)
    BY <2>2, <2>3, <2>4 DEF Issued, Of
  <2> QED
    BY <2>1, <2>5 DEF SessionsInv
<1>3. CacheFit(presign_cache)
  BY DEF SourcesInit, ServerInit, CacheFit, OneEach, Lasting, ToSet
<1>4. ToldInv
  BY DEF SourcesInit, ServerInit, ToldInv, Told, Requesters, Idle
<1> QED
  BY <1>1, <1>2, <1>3, <1>4 DEF ServerInv

\* Time passes while no request is between fixing a window and signing with it.
LEMMA TickInv == ASSUME ServerInv, Tick, UNCHANGED inflightSigns PROVE ServerInv'
<1>1. now' \in 0..MaxTime /\ now <= now' /\ now \in Nat /\ now' \in Nat
  BY PresignAssumption DEF Tick, ServerInv, ServerTyped
<1>2. ServerTyped'
  BY <1>1 DEF Tick, ServerInv, ServerTyped
<1>3. SessionsInv'
  <2>1. PICK f \in [Int -> Nat] : Issued(f)
    BY DEF ServerInv, SessionsInv
  <2>2. \A r \in Requesters : Timed(requests'[r], f, sessions', now')
    BY DEF Tick, Timed
  <2>3. Issued(f)'
    BY <2>1, <2>2 DEF Tick, Issued
  <2> QED
    BY <2>3 DEF SessionsInv
<1>4. ToldInv'
  <2> SUFFICES ASSUME NEW h \in Hrefs
               PROVE  Told(requests'[<<h, "sign">>], inflightSigns'[h], now')
    BY DEF ToldInv
  <2>1. Told(requests[<<h, "sign">>], inflightSigns[h], now) /\ UNCHANGED <<requests, inflightSigns>>
    BY DEF ServerInv, ToldInv, Tick
  <2> QED
    BY <1>1, <2>1 DEF Told
<1> QED
  BY <1>2, <1>3, <1>4 DEF ServerInv, Tick

\* The keys of a new session have no end yet.
LEMMA HostChangesInv == ASSUME ServerInv, HostChanges, UNCHANGED inflightSigns PROVE ServerInv'
<1> USE PresignAssumption
<1> DEFINE k == sessions + 1
<1>1. PICK l \in Lives :
        host' \in {[boto |-> Session(k, now + l), files |-> <<>>],
                   [boto |-> None, files |->
                      <<[whole |-> FALSE, creds |-> Session(k, now + l), account |-> Account],
                        [whole |-> TRUE, creds |-> Session(-k, now + l + 1), account |-> None],
                        [whole |-> TRUE, creds |-> Session(k, now + l), account |-> Account]>>],
                   [boto |-> None, files |-> <<>>]}
  BY DEF HostChanges
<1>2. now \in Nat /\ l \in Nat /\ sessions \in Nat /\ sessions' = k
  <2>1. now \in Nat /\ l \in Nat /\ sessions \in Nat
    BY DEF ServerInv, ServerTyped
  <2>2. sessions' = sessions + 1
    BY DEF HostChanges
  <2> QED
    BY <2>1, <2>2
<1>3. /\ host'.boto \in {None, Session(k, now + l)}
      /\ DOMAIN host'.files \subseteq 1..3
      /\ \A i \in DOMAIN host'.files : host'.files[i].creds \in {Session(k, now + l), Session(-k, now + l + 1)}
  BY <1>1
<1>4. Session(k, now + l) \in Sess /\ Session(-k, now + l + 1) \in Sess
  BY <1>2 DEF Session, Sess
<1>5. ServerTyped'
  BY <1>2, <1>3, <1>4 DEF HostChanges, ServerInv, ServerTyped
<1>6. SessionsInv'
  <2>1. PICK f \in [Int -> Nat] : Issued(f)
    BY DEF ServerInv, SessionsInv
  <2>2. PICK g \in [Int -> Nat] :
          /\ g[k] = now + l /\ g[-k] = now + l + 1
          /\ \A j \in Int : -sessions <= j /\ j <= sessions => g[j] = f[j]
    <3> DEFINE h == [j \in Int |-> IF j = k THEN now + l ELSE IF j = -k THEN now + l + 1 ELSE f[j]]
    <3>1. /\ h \in [Int -> Nat] /\ h[k] = now + l /\ h[-k] = now + l + 1
          /\ \A j \in Int : -sessions <= j /\ j <= sessions => h[j] = f[j]
      BY <1>2
    <3> QED
      BY <3>1
  <2>3. ASSUME NEW s \in Sess \cup {None}, Of(s, f, sessions)
        PROVE  Of(s, g, sessions')
    BY <1>2, <2>2, <2>3 DEF Of, Sess
  <2>4. ASSUME NEW r \in Requesters
        PROVE  Timed(requests[r], g, sessions', now)
    <3>1. Timed(requests[r], f, sessions, now) /\ requests[r] \in States
      BY <2>1 DEF Issued, ServerInv, ServerTyped
    <3>2. requests[r].pc = "make" => Of(requests[r].creds, g, sessions')
      BY <2>3, <3>1 DEF Timed, States
    <3>3. requests[r].pc \in {"client", "make"} => requests[r].known \in Known
      BY <3>1 DEF States
    <3> QED
      BY <1>2, <2>2, <3>1, <3>2, <3>3 DEF Timed, Known
  <2>5. Of(host'.boto, g, sessions') /\ \A i \in DOMAIN host'.files : Of(host'.files[i].creds, g, sessions')
    BY <1>2, <1>3, <2>2 DEF Of, Session
  <2>6. Of(cached_creds, g, sessions') /\ (client # None => Of(client.creds, g, sessions'))
    BY <2>1, <2>3 DEF Issued, ServerInv, ServerTyped
  <2>7. UNCHANGED <<now, cached_creds, client, requests>>
    BY DEF HostChanges
  <2>8. Issued(g)'
    BY <2>4, <2>5, <2>6, <2>7 DEF Issued
  <2> QED
    BY <2>8 DEF SessionsInv
<1>7. CacheFit(presign_cache)' /\ ToldInv'
  BY DEF ServerInv, HostChanges, ToldInv
<1> QED
  BY <1>5, <1>6, <1>7 DEF ServerInv

LEMMA ResetInv == ASSUME ServerInv, ResetCredentials, UNCHANGED inflightSigns PROVE ServerInv'
<1>1. ServerTyped' /\ CacheFit(presign_cache)' /\ ToldInv'
  BY DEF ServerInv, ServerTyped, ResetCredentials, ToldInv
<1>2. PICK f \in [Int -> Nat] : Issued(f)
  BY DEF ServerInv, SessionsInv
<1>3. Issued(f)'
  BY <1>2 DEF Issued, Of, ResetCredentials
<1> QED
  BY <1>1, <1>3 DEF ServerInv, SessionsInv

LEMMA SearchSignsInv == ASSUME ServerInv, SearchSigns, UNCHANGED inflightSigns PROVE ServerInv'
<1>1. PICK features \in Features :
        requests' = [r \in Requesters |-> IF r[2] = "search" /\ r[1] \in features
                                          THEN [pc |-> "start"] ELSE requests[r]]
  BY DEF SearchSigns
<1>2. UNCHANGED <<now, host, sessions, cached_creds, client, making, presign_cache>>
  BY DEF SearchSigns
<1>3. [pc |-> "start"] \in States
  BY DEF States
<1>4. ServerTyped'
  BY <1>1, <1>2, <1>3 DEF ServerInv, ServerTyped
<1>5. ToldInv'
  <2> SUFFICES ASSUME NEW h \in Hrefs
               PROVE  Told(requests'[<<h, "sign">>], inflightSigns'[h], now')
    BY DEF ToldInv
  <2>1. <<h, "sign">> \in Requesters /\ <<h, "sign">>[2] = "sign"
    BY DEF Requesters
  <2>2. requests'[<<h, "sign">>] = requests[<<h, "sign">>]
    BY <1>1, <2>1
  <2> QED
    BY <1>2, <2>2 DEF ServerInv, ToldInv
<1>6. SessionsInv'
  <2>1. PICK f \in [Int -> Nat] : Issued(f)
    BY DEF ServerInv, SessionsInv
  <2>2. \A r \in Requesters : Timed(requests'[r], f, sessions', now')
    BY <1>1, <1>2, <2>1 DEF Issued, Timed
  <2>3. Issued(f)'
    BY <1>2, <2>1, <2>2 DEF Issued
  <2> QED
    BY <2>3 DEF SessionsInv
<1> QED
  BY <1>2, <1>4, <1>5, <1>6 DEF ServerInv

\* What a request is told when it has a URL, or none.
LEMMA Outcomes ==
  ASSUME NEW r \in Requesters, NEW url \in Urls, NEW x \in {Has(r, url), Failed(r)},
         NEW f, NEW n, NEW t
  PROVE  /\ x \in States /\ Timed(x, f, n, t) /\ x.pc # "answered"
         /\ r[2] = "sign" => x.pc # "idle"
BY DEF Has, Failed, States, Idle, Timed

LEMMA LookupInv ==
  ASSUME ServerInv, NEW r \in Requesters, Lookup(r), UNCHANGED inflightSigns
  PROVE  ServerInv'
<1> DEFINE href == r[1]
           hit == {e \in Entries(href) : e.at > now /\ PRESIGN_CACHE_TTL > 0}
<1>1. href \in Hrefs /\ requests[r].pc = "start" /\ requests[r].pc # "idle"
  BY DEF Requesters, Lookup
<1>2. UNCHANGED <<now, host, sessions, cached_creds, client, making>>
  BY DEF Lookup
<1>3. PICK f \in [Int -> Nat] : Issued(f)
  BY DEF ServerInv, SessionsInv
<1>4. ASSUME NEW x \in States, Step(r, x), Timed(x, f, sessions, now), CacheFit(presign_cache'),
             r[2] = "sign" => x.pc # "idle", x.pc # "answered"
      PROVE  ServerInv'
  <2>1. \A h \in Hrefs : r = <<h, "sign">> => Told(x, inflightSigns[h], now)
    BY <1>1, <1>4, GoesOn
  <2>2. requests' \in [Requesters -> States] /\ ToldInv'
    BY <1>2, <1>4, <2>1, Steps
  <2>3. Of(cached_creds', f, sessions) /\ (client' # None => Of(client'.creds, f, sessions))
    BY <1>2, <1>3 DEF Issued
  <2>4. Issued(f)'
    BY <1>2, <1>3, <1>4, <2>3, IssuedSteps
  <2>5. ServerTyped'
    BY <1>2, <2>2 DEF ServerInv, ServerTyped
  <2> QED
    BY <1>4, <2>2, <2>4, <2>5 DEF ServerInv, SessionsInv
<1>5. CASE href \notin Signable
  <2>1. Step(r, Failed(r)) /\ UNCHANGED presign_cache
    BY <1>5 DEF Lookup
  <2>2. PICK url \in Urls : TRUE
    <3>1. [sound |-> FALSE, end |-> 0] \in Urls
      BY DEF Urls
    <3> QED
      BY <3>1
  <2> QED
    BY <1>4, <2>1, <2>2, Outcomes DEF ServerInv
<1>6. CASE href \in Signable /\ hit # {}
  <2>1. PICK e \in hit : presign_cache' = Append(Without(href), e) /\ Step(r, Has(r, e.url))
    BY <1>6 DEF Lookup
  <2>2. e.url \in Urls
    BY StoredTyped DEF Entries, ServerInv, CacheFit, Stored
  <2>3. CacheFit(presign_cache')
    BY <1>1, <2>1, LookupFits DEF ServerInv
  <2> QED
    BY <1>4, <2>1, <2>2, <2>3, Outcomes
<1>7. CASE href \in Signable /\ hit = {}
  <2> DEFINE x == [pc |-> "client", ttl |-> token_bounded_expires_in,
                   known |-> IF cached_creds = None THEN None ELSE cached_creds.key]
  <2>1. presign_cache' = Without(href) /\ Step(r, x)
    BY <1>7 DEF Lookup
  <2>2. /\ token_bounded_expires_in \in Nat
        /\ cached_creds # None => /\ cached_creds \in Sess
                                  /\ -sessions <= cached_creds.key /\ cached_creds.key <= sessions
                                  /\ \/ token_bounded_expires_in = 0
                                     \/ now + token_bounded_expires_in <= f[cached_creds.key]
    BY <1>3, BoundedWindow DEF ServerInv
  <2>3. x \in States
    BY <2>2 DEF States, Known, Sess
  <2>4. Timed(x, f, sessions, now)
    BY <2>2 DEF Timed
  <2>5. CacheFit(presign_cache')
    BY <1>1, <2>1, LookupFits DEF ServerInv
  <2> QED
    BY <1>4, <2>1, <2>3, <2>4, <2>5
<1> QED
  BY <1>5, <1>6, <1>7

\* A client signs: the URL lapses with its window or with its session, whichever is first.
LEMMA SignsInv ==
  ASSUME ServerInv, NEW r \in Requesters, requests[r].pc \in {"client", "make"},
         NEW f \in [Int -> Nat], Issued(f),
         NEW made \in [creds : Sess \cup {None}, exp : Nat], Of(made.creds, f, sessions),
         Signs(r, made), UNCHANGED <<now, host, sessions, cached_creds, inflightSigns>>,
         making' \in Requesters \cup {None}, client' \in {client, made}
  PROVE  ServerInv'
<1> DEFINE until == now + requests[r].ttl
           url == [sound |-> requests[r].known = made.creds.key,
                   end |-> IF until < made.creds.exp THEN until ELSE made.creds.exp]
<1>1. /\ r[1] \in Hrefs /\ now \in Nat /\ requests[r] \in States /\ requests[r].ttl \in Nat
      /\ requests[r].known \in Known /\ Timed(requests[r], f, sessions, now)
  BY DEF Requesters, ServerInv, ServerTyped, States, Issued
<1>2. ASSUME NEW x \in States, Step(r, x), Timed(x, f, sessions, now), CacheFit(presign_cache'),
             r[2] = "sign" => x.pc # "idle", x.pc # "answered"
      PROVE  ServerInv'
  <2>1. \A h \in Hrefs : r = <<h, "sign">> => Told(x, inflightSigns[h], now)
    BY <1>2, GoesOn
  <2>2. requests' \in [Requesters -> States] /\ ToldInv'
    BY <1>2, <2>1, Steps
  <2>3. Of(cached_creds', f, sessions) /\ (client' # None => Of(client'.creds, f, sessions))
    BY DEF Issued
  <2>4. Issued(f)'
    BY <1>2, <2>3, IssuedSteps
  <2>5. ServerTyped'
    BY <2>2 DEF ServerInv, ServerTyped
  <2> QED
    BY <1>2, <2>2, <2>4, <2>5 DEF ServerInv, SessionsInv
<1>3. CASE made.creds = None
  <2>1. Step(r, Failed(r)) /\ UNCHANGED presign_cache
    BY <1>3 DEF Signs
  <2>2. PICK any \in Urls : TRUE
    <3>1. [sound |-> FALSE, end |-> 0] \in Urls
      BY DEF Urls
    <3> QED
      BY <3>1
  <2> QED
    BY <1>2, <2>1, <2>2, Outcomes DEF ServerInv
<1>4. CASE made.creds # None
  <2>1. presign_cache' = store_cached_presigned_href(r[1], url, requests[r].ttl) /\ Step(r, Has(r, url))
    BY <1>4 DEF Signs
  <2>2. made.creds \in Sess /\ made.creds.exp \in Nat /\ made.creds.key \in Int
        /\ made.creds.exp = f[made.creds.key]
    BY <1>4 DEF Sess, Of
  <2>3. until \in Nat
    BY <1>1
  <2>4. url \in Urls
    <3>1. (requests[r].known = made.creds.key) \in BOOLEAN
      OBVIOUS
    <3>2. (IF until < made.creds.exp THEN until ELSE made.creds.exp) \in Int
      BY <2>2, <2>3
    <3> QED
      BY <3>1, <3>2 DEF Urls
  <2>5. url.sound => requests[r].ttl = 0 \/ now + requests[r].ttl <= url.end
    <3> SUFFICES ASSUME requests[r].known = made.creds.key, requests[r].ttl # 0
                 PROVE  until <= url.end
      OBVIOUS
    <3>1. requests[r].known # None
      BY <2>2, PresignAssumption
    <3>2. until <= made.creds.exp
      BY <1>1, <2>2, <3>1 DEF Timed
    <3> QED
      BY <2>2, <2>3, <3>2
  <2> HIDE DEF url
  <2>6. CacheFit(presign_cache')
    BY <1>1, <2>1, <2>4, <2>5, StoreFits DEF ServerInv
  <2> QED
    BY <1>2, <2>1, <2>4, <2>6, Outcomes
<1> QED
  BY <1>3, <1>4

\* The credentials found are some that the host has, or had.
LEMMA CredentialsFound ==
  ASSUME ServerTyped, NEW f \in [Int -> Nat], Issued(f)
  PROVE  get_aws_credentials \in Sess \cup {None} /\ Of(get_aws_credentials, f, sessions)
<1> DEFINE files == host.files
           lasting == {i \in DOMAIN files : files[i].whole /\ files[i].creds.exp > now + Margin}
           own == {i \in lasting : Account # None /\ files[i].account = Account}
           best == IF own # {} THEN own ELSE lasting
           first == CHOOSE i \in best : \A j \in best : i <= j
<1>1. best \subseteq DOMAIN files /\ DOMAIN files \subseteq 1..3
  BY DEF ServerTyped
<1>2. best # {} => first \in best
  <2> HIDE DEF best
  <2>1. ASSUME best # {}
        PROVE  \E i \in best : \A j \in best : i <= j
    <3>1. best \subseteq {1, 2, 3}
      BY <1>1
    <3>2. CASE 1 \in best
      BY <3>1, <3>2
    <3>3. CASE 1 \notin best /\ 2 \in best
      BY <3>1, <3>3
    <3>4. CASE 1 \notin best /\ 2 \notin best
      <4>1. best = {3}
        BY <2>1, <3>1, <3>4
      <4> QED
        BY <4>1
    <3> QED
      BY <3>2, <3>3, <3>4
  <2> QED
    BY <2>1
<1>3. load_login_session_credentials(host.files) = IF best = {} THEN None ELSE files[first].creds
  BY DEF load_login_session_credentials
<1> HIDE DEF best, first
<1>4. load_login_session_credentials(host.files) \in Sess \cup {None}
      /\ Of(load_login_session_credentials(host.files), f, sessions)
  BY <1>1, <1>2, <1>3 DEF ServerTyped, Issued, Of
<1> QED
  BY <1>4 DEF get_aws_credentials, ServerTyped, Issued

LEMMA UseClientInv ==
  ASSUME ServerInv, NEW r \in Requesters, UseClient(r), UNCHANGED inflightSigns
  PROVE  ServerInv'
<1>1. PICK f \in [Int -> Nat] : Issued(f)
  BY DEF ServerInv, SessionsInv
<1>2. requests[r].pc = "client" /\ requests[r] \in States
      /\ UNCHANGED <<now, host, sessions, client>>
  BY DEF UseClient, ServerInv, ServerTyped
<1>3. CASE client # None /\ client.exp > now + Margin
  <2>1. client \in [creds : Sess \cup {None}, exp : Nat] /\ Of(client.creds, f, sessions)
    BY <1>1, <1>3 DEF ServerInv, ServerTyped, Issued
  <2>2. Signs(r, client) /\ UNCHANGED <<cached_creds, making>>
    BY <1>3 DEF UseClient
  <2>3. making' \in Requesters \cup {None}
    BY <2>2 DEF ServerInv, ServerTyped
  <2> QED
    BY <1>1, <1>2, <2>1, <2>2, <2>3, SignsInv
<1>4. CASE ~(client # None /\ client.exp > now + Margin)
  <2> DEFINE creds == get_aws_credentials
             x == [pc |-> "make", ttl |-> requests[r].ttl, known |-> requests[r].known, creds |-> creds]
  <2>1. /\ making' = r /\ cached_creds' = IF creds = None THEN cached_creds ELSE creds
        /\ Step(r, x) /\ UNCHANGED presign_cache
    BY <1>4 DEF UseClient
  <2>2. creds \in Sess \cup {None} /\ Of(creds, f, sessions)
    BY <1>1, CredentialsFound DEF ServerInv
  <2> HIDE DEF creds
  <2>3. x \in States
    BY <1>2, <2>2 DEF States
  <2>4. Timed(x, f, sessions, now)
    BY <1>1, <1>2, <2>2 DEF Issued, Timed
  <2>5. \A h \in Hrefs : r = <<h, "sign">> => Told(x, inflightSigns[h], now)
    BY <1>2, GoesOn
  <2>6. requests' \in [Requesters -> States] /\ ToldInv'
    BY <1>2, <2>1, <2>3, <2>5, Steps
  <2>7. Of(cached_creds', f, sessions) /\ (client' # None => Of(client'.creds, f, sessions))
    BY <1>1, <1>2, <2>1, <2>2 DEF Issued
  <2>8. Issued(f)'
    BY <1>1, <1>2, <2>1, <2>4, <2>7, IssuedSteps
  <2>9. ServerTyped'
    BY <1>2, <2>1, <2>2, <2>6 DEF ServerInv, ServerTyped
  <2> QED
    BY <2>1, <2>6, <2>8, <2>9 DEF ServerInv, SessionsInv
<1> QED
  BY <1>3, <1>4

LEMMA MakeClientInv ==
  ASSUME ServerInv, NEW r \in Requesters, MakeClient(r), UNCHANGED inflightSigns
  PROVE  ServerInv'
<1>1. PICK f \in [Int -> Nat] : Issued(f)
  BY DEF ServerInv, SessionsInv
<1> DEFINE made == [creds |-> requests[r].creds,
                    exp |-> IF cached_creds = None THEN now + UnknownLife ELSE cached_creds.exp]
<1>2. /\ requests[r].pc = "make" /\ client' = made /\ Signs(r, made) /\ making' = None
      /\ UNCHANGED <<now, host, sessions, cached_creds>>
  BY DEF MakeClient
<1>3. requests[r] \in States /\ requests[r].creds \in Sess \cup {None}
      /\ Of(requests[r].creds, f, sessions)
  BY <1>1, <1>2 DEF ServerInv, ServerTyped, States, Issued, Timed
<1>4. now \in Nat /\ (cached_creds # None => cached_creds.exp \in Nat)
  BY PresignAssumption DEF ServerInv, ServerTyped, Sess
<1>5. made \in [creds : Sess \cup {None}, exp : Nat] /\ made.creds = requests[r].creds
  BY <1>3, <1>4, PresignAssumption
<1> HIDE DEF made
<1> QED
  BY <1>1, <1>2, <1>3, <1>5, SignsInv

\* The window told is that of the entry the cache has of the URL, when it is honest.
LEMMA ReportInv ==
  ASSUME ServerInv, NEW r \in Requesters, Report(r), UNCHANGED inflightSigns
  PROVE  ServerInv'
<1> USE PresignAssumption
<1>1. PICK f \in [Int -> Nat] : Issued(f)
  BY DEF ServerInv, SessionsInv
<1> DEFINE remaining == presigned_remaining(r[1])
           own == \E e \in Entries(r[1]) : e.url = requests[r].url
           url == requests[r].url
           told == IF remaining \notin {None, 0} THEN remaining ELSE token_bounded_expires_in
           honest == own /\ remaining # 0 /\ url.sound
           x == [pc |-> "answered", url |-> url, expires_in |-> told, honest |-> honest]
<1>2. /\ requests[r].pc = "report" /\ Step(r, x)
      /\ UNCHANGED <<now, host, sessions, cached_creds, client, making, presign_cache>>
  BY DEF Report
<1>3. url \in Urls /\ now \in Nat
  BY <1>2 DEF ServerInv, ServerTyped, States
<1>4. \A e \in Entries(r[1]) : e \in Stored /\ e \in ToSet(presign_cache) /\ e.href = r[1]
  BY StoredTyped DEF Entries, ServerInv, CacheFit
<1>5. \A e1, e2 \in Entries(r[1]) : e1 = e2
  BY DEF Entries, ToSet, ServerInv, CacheFit, OneEach
<1>6. remaining \in Nat \cup {None}
  <2>1. CASE PRESIGN_CACHE_TTL <= 0 \/ Entries(r[1]) = {}
    BY <2>1 DEF presigned_remaining
  <2>2. CASE ~(PRESIGN_CACHE_TTL <= 0 \/ Entries(r[1]) = {})
    <3> DEFINE e == CHOOSE e \in Entries(r[1]) : TRUE
    <3>1. e \in Entries(r[1]) /\ e.at \in Int
      BY <1>4, <2>2 DEF Stored
    <3>2. remaining = IF e.at > now THEN e.at - now ELSE 0
      BY <2>2 DEF presigned_remaining
    <3> HIDE DEF e, remaining
    <3> QED
      BY <1>3, <3>1, <3>2
  <2> QED
    BY <2>1, <2>2
<1>7. told \in Nat
  <2>1. token_bounded_expires_in \in Nat
    BY <1>1, BoundedWindow DEF ServerInv
  <2> QED
    BY <1>6, <2>1
<1>8. honest => now + told <= url.end
  <2> SUFFICES ASSUME own, remaining # 0, url.sound
               PROVE  now + told <= url.end
    OBVIOUS
  <2>1. PICK e \in Entries(r[1]) : e.url = url
    OBVIOUS
  <2>2. presign_cache # <<>> /\ PRESIGN_CACHE_TTL > 0
    BY <1>4, <2>1 DEF ToSet, ServerInv, CacheFit
  <2>3. remaining = IF e.at > now THEN e.at - now ELSE 0
    BY <1>5, <2>1, <2>2 DEF presigned_remaining
  <2>4. e.at \in Int /\ e.at <= e.url.end
    BY <1>4, <2>1 DEF Stored, ServerInv, CacheFit, Lasting
  <2>5. remaining \in Nat
    BY <1>3, <2>3, <2>4
  <2>6. told = e.at - now
    BY <1>3, <2>3, <2>4, <2>5
  <2> HIDE DEF told
  <2> QED
    BY <1>3, <2>1, <2>4, <2>6
<1>9. honest \in BOOLEAN
  BY <1>3 DEF Urls
<1> HIDE DEF told, honest, url
<1>10. x \in States
  BY <1>3, <1>7, <1>9 DEF States
<1>11. ASSUME NEW h \in Hrefs, r = <<h, "sign">>
       PROVE  Told(x, inflightSigns[h], now)
  <2>1. Told(requests[r], inflightSigns[h], now)
    BY <1>11 DEF ServerInv, ToldInv
  <2>2. inflightSigns[h] \in Nat /\ inflightSigns[h] <= now
    BY <1>2, <2>1 DEF Told
  <2>3. x.honest => inflightSigns[h] + x.expires_in <= x.url.end
    BY <1>3, <1>7, <1>8, <2>2 DEF Urls
  <2> QED
    BY <2>2, <2>3 DEF Told
<1>12. requests' \in [Requesters -> States] /\ ToldInv'
  BY <1>2, <1>10, <1>11, Steps
<1>13. Issued(f)'
  <2>1. Timed(x, f, sessions, now)
    BY DEF Timed
  <2>2. Of(cached_creds', f, sessions) /\ (client' # None => Of(client'.creds, f, sessions))
    BY <1>1, <1>2 DEF Issued
  <2> QED
    BY <1>1, <1>2, <2>1, <2>2, IssuedSteps
<1>14. ServerTyped'
  BY <1>2, <1>12 DEF ServerInv, ServerTyped
<1> QED
  BY <1>2, <1>12, <1>13, <1>14 DEF ServerInv, SessionsInv

\* A request that finds the credentials reset between two reads fails, and its URL, if it
\* has one by then, stays in the cache.
LEMMA ResetBetweenReadsInv ==
  ASSUME ServerInv, NEW r \in Requesters, ResetBetweenReads(r), UNCHANGED inflightSigns
  PROVE  ServerInv'
<1>1. PICK f \in [Int -> Nat] : Issued(f)
  BY DEF ServerInv, SessionsInv
<1>2. /\ requests[r].pc # "idle" /\ Step(r, Failed(r)) /\ cached_creds' = None /\ r[1] \in Hrefs
      /\ presign_cache' \in {presign_cache, Without(r[1])} /\ making' \in {None, making}
      /\ UNCHANGED <<now, host, sessions, client>>
  BY DEF ResetBetweenReads, ReadsCredentials, Requesters
<1>3. PICK url \in Urls : TRUE
  <2>1. [sound |-> FALSE, end |-> 0] \in Urls
    BY DEF Urls
  <2> QED
    BY <2>1
<1>4. /\ Failed(r) \in States /\ Timed(Failed(r), f, sessions, now) /\ Failed(r).pc # "answered"
      /\ r[2] = "sign" => Failed(r).pc # "idle"
  BY <1>3, Outcomes
<1>5. CacheFit(presign_cache')
  <2>1. CacheFit(Without(r[1]))
    BY <1>2, LookupFits DEF ServerInv
  <2> QED
    BY <1>2, <2>1 DEF ServerInv
<1>6. \A h \in Hrefs : r = <<h, "sign">> => Told(Failed(r), inflightSigns[h], now)
  BY <1>2, <1>4, GoesOn
<1>7. requests' \in [Requesters -> States] /\ ToldInv'
  BY <1>2, <1>4, <1>6, Steps
<1>8. Of(cached_creds', f, sessions) /\ (client' # None => Of(client'.creds, f, sessions))
  BY <1>1, <1>2 DEF Issued, Of
<1>9. Issued(f)'
  BY <1>1, <1>2, <1>4, <1>8, IssuedSteps
<1>10. ServerTyped'
  BY <1>2, <1>7 DEF ServerInv, ServerTyped
<1> QED
  BY <1>5, <1>7, <1>9, <1>10 DEF ServerInv, SessionsInv

LEMMA ServerNextInv == ASSUME ServerInv, ServerNext, UNCHANGED inflightSigns PROVE ServerInv'
BY TickInv, HostChangesInv, ResetInv, SearchSignsInv, LookupInv, UseClientInv, MakeClientInv, ReportInv,
   ResetBetweenReadsInv
   DEF ServerNext

-----------------------------------------------------------------------------
(* The viewer: its signed URLs and its files.                              *)

Phases == {"sign", "header", "open", "failed"}
Opened == [href : Hrefs, url : Urls \cup {None}, phase : Phases]
Promised == [href : Hrefs, id : Nat]
Signed == [url : Urls, expiresAt : Int, honest : BOOLEAN]

\* The signed URLs: who has the window of one from the cache of the server is done with it in time.
SignedFit(x) == x = None \/ (x \in Signed /\ (x.honest => x.expiresAt <= x.url.end))
SignedInv == \A h \in Hrefs : SignedFit(signedUrls[h])

\* The promises q that are cached, of the files o, and those noted as open, n.
Promises(q, o) ==
  /\ q \in Seq(Promised) /\ OneEach(q) /\ Len(q) <= GEOTIFF_SOURCE_CACHE_MAX
  /\ \A e \in ToSet(q) : e.id \in DOMAIN o /\ o[e.id].href = e.href /\ o[e.id].phase # "failed"
Noted(n, q, o) ==
  \A h \in Hrefs : n[h] # None => [href |-> h, id |-> n[h]] \in ToSet(q) /\ o[n[h]].phase = "open"
FilesTyped ==
  /\ opens \in Seq(Opened) /\ geotiffResolved \in [Hrefs -> Nat \cup {None}]
  /\ signedUrls \in [Hrefs -> Signed \cup {None}] /\ inflightSigns \in [Hrefs -> Nat \cup {None}]
  /\ resignAttempted \subseteq Hrefs
FilesInv == FilesTyped /\ Promises(geotiffSources, opens) /\ Noted(geotiffResolved, geotiffSources, opens)

Inv == ServerInv /\ SignedInv /\ FilesInv

LEMMA PromisedTyped ==
  ASSUME NEW q \in Seq(Promised), NEW e \in ToSet(q)
  PROVE  e \in Promised
BY DEF ToSet

\* When opens of an image fail, its promise goes, whichever it is, and its note with it.
LEMMA FailsFits ==
  ASSUME FilesInv, SignedInv, NEW href \in Hrefs, NEW ids \in SUBSET DOMAIN opens,
         \A i \in ids : opens[i].href = href, NEW expired \in BOOLEAN, Fails(ids, href, expired)
  PROVE  /\ Promises(geotiffSources, opens)' /\ Noted(geotiffResolved, geotiffSources, opens)'
         /\ SignedInv' /\ opens' \in Seq(Opened) /\ geotiffResolved' \in [Hrefs -> Nat \cup {None}]
         /\ signedUrls' \in [Hrefs -> Signed \cup {None}] /\ resignAttempted' \subseteq Hrefs
<1>1. /\ opens' = [i \in DOMAIN opens |-> IF i \in ids THEN Settled(i, "failed") ELSE opens[i]]
      /\ geotiffSources' = DeleteEntry(geotiffSources, href)
      /\ geotiffResolved' = [geotiffResolved EXCEPT ![href] = None]
      /\ signedUrls' = IF expired THEN NotSigned(href) ELSE signedUrls
      /\ resignAttempted' \in {resignAttempted \cup {href}, resignAttempted}
  BY DEF Fails, KeptAfterFailure
<1>2. /\ geotiffSources' \in Seq(Promised) /\ OneEach(geotiffSources')
      /\ ToSet(geotiffSources') = {e \in ToSet(geotiffSources) : e.href # href}
      /\ Len(geotiffSources') <= Len(geotiffSources)
  BY <1>1, DeleteFacts DEF FilesInv, Promises
<1>3. /\ opens' \in Seq(Opened) /\ DOMAIN opens' = DOMAIN opens
      /\ \A i \in DOMAIN opens : opens'[i].href = opens[i].href /\ (opens[i].href # href => opens'[i] = opens[i])
  <2>1. \A i \in DOMAIN opens : opens[i] \in Opened
    BY DEF FilesInv, FilesTyped
  <2>2. \A i \in ids : Settled(i, "failed") \in Opened /\ Settled(i, "failed").href = opens[i].href
    BY <2>1 DEF Settled, Opened, Phases
  <2>3. \A i \in DOMAIN opens : opens'[i] \in Opened
    BY <1>1, <2>1, <2>2
  <2>4. DOMAIN opens' = 1..Len(opens) /\ Len(opens) \in Nat
    BY <1>1 DEF FilesInv, FilesTyped
  <2>5. \E n \in Nat : opens' \in [1..n -> Opened]
    BY <1>1, <2>3, <2>4
  <2>6. opens' \in Seq(Opened)
    BY <2>5, SeqDef
  <2> QED
    BY <1>1, <2>2, <2>6
<1>4. Promises(geotiffSources, opens)'
  <2>1. Len(geotiffSources') <= GEOTIFF_SOURCE_CACHE_MAX
    BY <1>2, SourcesAssumption DEF FilesInv, Promises
  <2>2. ASSUME NEW e \in ToSet(geotiffSources')
        PROVE  e.id \in DOMAIN opens' /\ opens'[e.id].href = e.href /\ opens'[e.id].phase # "failed"
    <3>1. e \in ToSet(geotiffSources) /\ e.href # href
      BY <1>2
    <3>2. e.id \in DOMAIN opens /\ opens[e.id].href = e.href /\ opens[e.id].phase # "failed"
      BY <3>1 DEF FilesInv, Promises
    <3> QED
      BY <1>3, <3>1, <3>2
  <2> QED
    BY <1>2, <2>1, <2>2 DEF Promises
<1>5. Noted(geotiffResolved, geotiffSources, opens)'
  <2> SUFFICES ASSUME NEW h \in Hrefs, geotiffResolved'[h] # None
               PROVE  /\ [href |-> h, id |-> geotiffResolved'[h]] \in ToSet(geotiffSources')
                      /\ opens'[geotiffResolved'[h]].phase = "open"
    BY DEF Noted
  <2>1. h # href /\ geotiffResolved'[h] = geotiffResolved[h]
    BY <1>1 DEF FilesInv, FilesTyped
  <2>2. /\ [href |-> h, id |-> geotiffResolved[h]] \in ToSet(geotiffSources)
        /\ opens[geotiffResolved[h]].phase = "open"
    BY <2>1 DEF FilesInv, Noted
  <2>3. geotiffResolved[h] \in DOMAIN opens /\ opens[geotiffResolved[h]].href = h
    BY <2>2 DEF FilesInv, Promises
  <2> QED
    BY <1>2, <1>3, <2>1, <2>2, <2>3
<1>6. signedUrls' \in [Hrefs -> Signed \cup {None}] /\ SignedInv'
  BY <1>1 DEF NotSigned, FilesInv, FilesTyped, SignedInv, SignedFit
<1>7. geotiffResolved' \in [Hrefs -> Nat \cup {None}] /\ resignAttempted' \subseteq Hrefs
  BY <1>1 DEF FilesInv, FilesTyped
<1> QED
  BY <1>3, <1>4, <1>5, <1>6, <1>7

LEMMA FilesInitInv == ASSUME SourcesInit PROVE SignedInv /\ FilesInv
<1>1. FilesTyped /\ SignedInv
  BY DEF SourcesInit, FilesTyped, SignedInv, SignedFit
<1>2. Promises(geotiffSources, opens) /\ Noted(geotiffResolved, geotiffSources, opens)
  BY SourcesAssumption DEF SourcesInit, Promises, Noted, OneEach, ToSet
<1> QED
  BY <1>1, <1>2 DEF FilesInv

\* A request for an image is made or answered.
LEMMA SignStep ==
  ASSUME ServerInv, inflightSigns \in [Hrefs -> Nat \cup {None}], NEW href \in Hrefs, NEW x \in States,
         NEW v \in Nat \cup {None}, Step(<<href, "sign">>, x), inflightSigns' = [inflightSigns EXCEPT ![href] = v],
         Told(x, v, now), x.pc \notin {"client", "make"},
         UNCHANGED <<now, host, sessions, cached_creds, client, making, presign_cache>>
  PROVE  ServerInv'
<1> DEFINE r == <<href, "sign">>
<1>1. requests' = [requests EXCEPT ![r] = x] /\ requests \in [Requesters -> States] /\ r \in Requesters
  BY DEF Step, ServerInv, ServerTyped, Requesters
<1> HIDE DEF r
<1>2. requests' \in [Requesters -> States] /\ ServerTyped'
  BY <1>1 DEF ServerInv, ServerTyped
<1>3. ToldInv'
  <2> SUFFICES ASSUME NEW h \in Hrefs
               PROVE  Told(requests'[<<h, "sign">>], inflightSigns'[h], now)
    BY DEF ToldInv
  <2>1. <<h, "sign">> \in Requesters /\ Told(requests[<<h, "sign">>], inflightSigns[h], now)
    BY DEF Requesters, ServerInv, ToldInv
  <2>2. CASE h = href
    BY <1>1, <2>1, <2>2 DEF r
  <2>3. CASE h # href
    <3>1. <<h, "sign">> # r
      BY <2>3 DEF r
    <3> QED
      BY <1>1, <2>1, <2>3, <3>1
  <2> QED
    BY <2>2, <2>3
<1>4. SessionsInv'
  <2>1. PICK f \in [Int -> Nat] : Issued(f)
    BY DEF ServerInv, SessionsInv
  <2>2. Timed(x, f, sessions, now)
    BY DEF Timed
  <2>3. Of(cached_creds', f, sessions) /\ (client' # None => Of(client'.creds, f, sessions))
    BY <2>1 DEF Issued
  <2>4. Issued(f)'
    BY <1>1, <2>1, <2>2, <2>3, IssuedSteps DEF r
  <2> QED
    BY <2>4 DEF SessionsInv
<1> QED
  BY <1>2, <1>3, <1>4 DEF ServerInv

LEMMA AskInv ==
  ASSUME Inv, NEW href \in Hrefs, Ask(href),
         UNCHANGED <<now, host, sessions, cached_creds, client, making, presign_cache>>
  PROVE  ServerInv' /\ inflightSigns' \in [Hrefs -> Nat \cup {None}]
<1>1. CASE SignedNow(href) # None \/ inflightSigns[href] # None
  <2>1. UNCHANGED <<inflightSigns, requests>>
    BY <1>1 DEF Ask
  <2>2. ServerTyped' /\ CacheFit(presign_cache)' /\ ToldInv'
    BY <2>1 DEF Inv, ServerInv, ServerTyped, ToldInv
  <2>3. PICK f \in [Int -> Nat] : Issued(f)
    BY DEF Inv, ServerInv, SessionsInv
  <2>4. Issued(f)'
    BY <2>1, <2>3 DEF Issued
  <2> QED
    BY <2>1, <2>2, <2>4 DEF ServerInv, SessionsInv, Inv, FilesInv, FilesTyped
<1>2. CASE ~(SignedNow(href) # None \/ inflightSigns[href] # None)
  <2> DEFINE x == [pc |-> "start"]
  <2>1. inflightSigns' = [inflightSigns EXCEPT ![href] = now] /\ Step(<<href, "sign">>, x)
    BY <1>2 DEF Ask
  <2>2. now \in Nat /\ now # None
    BY PresignAssumption DEF Inv, ServerInv, ServerTyped
  <2>3. x \in States /\ x.pc \notin {"client", "make"} /\ Told(x, now, now)
    BY <2>2 DEF States, Told
  <2> HIDE DEF x
  <2>4. inflightSigns \in [Hrefs -> Nat \cup {None}] /\ ServerInv
    BY DEF Inv, FilesInv, FilesTyped
  <2>5. ServerInv'
    BY <2>1, <2>2, <2>3, <2>4, SignStep
  <2> QED
    BY <2>1, <2>2, <2>4, <2>5
<1> QED
  BY <1>1, <1>2

LEMMA SameServer ==
  ASSUME ServerInv, UNCHANGED <<serverVars, inflightSigns>>
  PROVE  ServerInv'
<1>1. ServerTyped' /\ CacheFit(presign_cache)' /\ ToldInv'
  BY DEF serverVars, ServerInv, ServerTyped, ToldInv
<1>2. PICK f \in [Int -> Nat] : Issued(f)
  BY DEF ServerInv, SessionsInv
<1>3. Issued(f)'
  BY <1>2 DEF Issued, serverVars
<1> QED
  BY <1>1, <1>3 DEF ServerInv, SessionsInv

\* A promise that is cached is shared and becomes the most recent; otherwise a file is
\* opened, and those whose promises are dropped are no longer noted.
LEMMA ResolveInv == ASSUME Inv, NEW href \in Hrefs, Resolve(href) PROVE Inv'
<1>1. UNCHANGED <<now, host, sessions, cached_creds, client, making, presign_cache, searches, resets,
                  signedUrls, resignAttempted>>
  BY DEF Resolve
<1>2. SignedInv' /\ signedUrls' \in [Hrefs -> Signed \cup {None}] /\ resignAttempted' \subseteq Hrefs
  BY <1>1 DEF Inv, SignedInv, FilesInv, FilesTyped
<1>3. Promises(geotiffSources, opens) /\ Noted(geotiffResolved, geotiffSources, opens) /\ FilesTyped
  BY DEF Inv, FilesInv
<1>4. CASE CachedOpen(href) # {}
  <2>1. PICK e \in CachedOpen(href) : geotiffSources' = Append(DeleteEntry(geotiffSources, href), e)
    BY <1>4 DEF Resolve
  <2>2. UNCHANGED <<opens, geotiffResolved, inflightSigns, requests>>
    BY <1>4 DEF Resolve
  <2>3. e \in ToSet(geotiffSources) /\ e.href = href /\ e \in Promised
    BY <1>3, PromisedTyped DEF CachedOpen, Promises
  <2> DEFINE d == DeleteEntry(geotiffSources, href)
  <2>4. /\ d \in Seq(Promised) /\ OneEach(d) /\ ToSet(d) = {x \in ToSet(geotiffSources) : x.href # href}
        /\ Len(d) = Len(geotiffSources) - 1
    BY <1>3, <2>3, DeleteFacts DEF Promises
  <2> HIDE DEF d
  <2>5. /\ geotiffSources' \in Seq(Promised) /\ OneEach(geotiffSources')
        /\ Len(geotiffSources') = Len(d) + 1 /\ ToSet(geotiffSources') = ToSet(d) \cup {e}
    BY <2>1, <2>3, <2>4, AppendFacts DEF d
  <2>6. ToSet(geotiffSources') = ToSet(geotiffSources)
    <3>1. ASSUME NEW x \in ToSet(geotiffSources), x.href = href
          PROVE  x = e
      BY <1>3, <2>3, <3>1 DEF Promises, OneEach, ToSet
    <3> QED
      BY <2>3, <2>4, <2>5, <3>1
  <2>7. Len(geotiffSources') <= GEOTIFF_SOURCE_CACHE_MAX
    BY <1>3, <2>4, <2>5 DEF Promises
  <2>8. Promises(geotiffSources', opens') /\ Noted(geotiffResolved', geotiffSources', opens') /\ FilesTyped'
    BY <1>1, <1>3, <2>2, <2>5, <2>6, <2>7 DEF Promises, Noted, FilesTyped
  <2>9. ServerInv'
    BY <1>1, <2>2, SameServer DEF Inv, serverVars
  <2> QED
    BY <1>2, <2>8, <2>9 DEF Inv, FilesInv
<1>5. CASE CachedOpen(href) = {}
  <2> DEFINE id == Len(opens) + 1
             new == [href |-> href, id |-> id]
             all == Append(geotiffSources, new)
             n == IF Len(all) < GEOTIFF_SOURCE_CACHE_MAX THEN Len(all) ELSE GEOTIFF_SOURCE_CACHE_MAX
             kept == Newest(all, n)
             file == [href |-> href, url |-> SignedNow(href),
                      phase |-> IF SignedNow(href) = None THEN "sign" ELSE "header"]
  <2>1. /\ Ask(href) /\ opens' = Append(opens, file) /\ geotiffSources' = kept
        /\ geotiffResolved' = [h \in Hrefs |-> IF \E e \in ToSet(all) \ ToSet(kept) : e.href = h
                                               THEN None ELSE geotiffResolved[h]]
    BY <1>5 DEF Resolve
  <2>2. SignedNow(href) \in Urls \cup {None}
    BY <1>3, PresignAssumption DEF SignedNow, PublicUrl, Forever, Urls, FilesTyped, Signed
  <2>3. file \in Opened /\ file.phase # "failed" /\ file.href = href
    BY <2>2 DEF Opened, Phases
  <2> HIDE DEF file
  <2>4. /\ opens' \in Seq(Opened) /\ id \in DOMAIN opens' /\ opens'[id] = file /\ id \in Nat
        /\ \A i \in DOMAIN opens : i \in DOMAIN opens' /\ opens'[i] = opens[i]
    BY <1>3, <2>1, <2>3 DEF FilesTyped
  <2>5. new \in Promised /\ new.href = href /\ new.id = id
    BY <2>4 DEF Promised
  <2> HIDE DEF new, id
  <2>6. \A x \in ToSet(geotiffSources) : x.href # new.href
    BY <1>5, <2>5 DEF CachedOpen
  <2>7. /\ all \in Seq(Promised) /\ OneEach(all) /\ Len(all) = Len(geotiffSources) + 1
        /\ ToSet(all) = ToSet(geotiffSources) \cup {new}
    BY <1>3, <2>5, <2>6, AppendFacts DEF Promises
  <2> HIDE DEF all
  <2>8. n \in 0..Len(all) /\ n <= GEOTIFF_SOURCE_CACHE_MAX
    BY <2>7, SourcesAssumption
  <2> HIDE DEF n
  <2>9. /\ kept \in Seq(Promised) /\ OneEach(kept) /\ Len(kept) = n /\ ToSet(kept) \subseteq ToSet(all)
    BY <2>7, <2>8, NewestFacts
  <2> HIDE DEF kept
  <2>10. Promises(geotiffSources', opens')
    <3>1. ASSUME NEW e \in ToSet(kept)
          PROVE  e.id \in DOMAIN opens' /\ opens'[e.id].href = e.href /\ opens'[e.id].phase # "failed"
      <4>1. CASE e = new
        BY <2>3, <2>4, <2>5, <4>1
      <4>2. CASE e \in ToSet(geotiffSources)
        BY <1>3, <2>4, <4>2 DEF Promises
      <4> QED
        BY <2>7, <2>9, <4>1, <4>2
    <3> QED
      BY <2>1, <2>8, <2>9, <3>1 DEF Promises
  <2>11. Noted(geotiffResolved', geotiffSources', opens')
    <3> SUFFICES ASSUME NEW h \in Hrefs, geotiffResolved'[h] # None
                 PROVE  /\ [href |-> h, id |-> geotiffResolved'[h]] \in ToSet(kept)
                        /\ opens'[geotiffResolved'[h]].phase = "open"
      BY <2>1 DEF Noted
    <3> DEFINE e == [href |-> h, id |-> geotiffResolved[h]]
    <3>1. geotiffResolved'[h] = geotiffResolved[h] /\ ~\E x \in ToSet(all) \ ToSet(kept) : x.href = h
      BY <2>1
    <3>2. e \in ToSet(geotiffSources) /\ opens[geotiffResolved[h]].phase = "open"
      BY <1>3, <3>1 DEF Noted
    <3>3. geotiffResolved[h] \in DOMAIN opens
      BY <1>3, <3>2 DEF Promises
    <3> QED
      BY <2>4, <2>7, <3>1, <3>2, <3>3
  <2>12. ServerInv' /\ inflightSigns' \in [Hrefs -> Nat \cup {None}]
    BY <1>1, <2>1, AskInv
  <2>13. geotiffResolved' \in [Hrefs -> Nat \cup {None}]
    BY <1>3, <2>1 DEF FilesTyped
  <2> QED
    BY <1>2, <2>4, <2>10, <2>11, <2>12, <2>13 DEF Inv, FilesInv, FilesTyped
<1> QED
  BY <1>4, <1>5

\* The answer of the server: its window counts from the moment it was asked.
LEMMA SignSettlesInv == ASSUME Inv, NEW href \in Hrefs, SignSettles(href) PROVE Inv'
<1> DEFINE r == <<href, "sign">>
           answer == requests[r]
           unsigned == {i \in DOMAIN opens : opens[i].href = href /\ opens[i].phase = "sign"}
<1>1. /\ answer.pc \in {"answered", "failed"}
      /\ inflightSigns' = [inflightSigns EXCEPT ![href] = None] /\ Step(r, Idle)
      /\ UNCHANGED <<now, host, sessions, cached_creds, client, making, presign_cache, searches, resets>>
  BY DEF SignSettles
<1>2. r \in Requesters /\ answer \in States /\ Told(answer, inflightSigns[href], now)
  BY DEF Requesters, Inv, ServerInv, ServerTyped, ToldInv
<1>3. FilesTyped /\ Promises(geotiffSources, opens) /\ Noted(geotiffResolved, geotiffSources, opens)
  BY DEF Inv, FilesInv
<1>4. ServerInv' /\ inflightSigns' \in [Hrefs -> Nat \cup {None}]
  <2>1. Idle \in States /\ Idle.pc \notin {"client", "make"} /\ Told(Idle, None, now)
    BY DEF Idle, States, Told
  <2>2. inflightSigns \in [Hrefs -> Nat \cup {None}] /\ ServerInv
    BY <1>3 DEF FilesTyped, Inv
  <2>3. ServerInv'
    BY <1>1, <2>1, <2>2, SignStep
  <2> QED
    BY <1>1, <2>2, <2>3
<1>5. CASE answer.pc = "failed"
  <2>1. Fails(unsigned, href, FALSE)
    BY <1>5 DEF SignSettles
  <2>2. unsigned \in SUBSET DOMAIN opens /\ \A i \in unsigned : opens[i].href = href
    OBVIOUS
  <2> QED
    BY <1>4, <2>1, <2>2, FailsFits DEF Inv, FilesInv, FilesTyped
<1>6. CASE answer.pc = "answered"
  <2> DEFINE url == [url |-> answer.url, expiresAt |-> ExpiresAt(inflightSigns[href], answer.expires_in),
                     honest |-> answer.honest /\ answer.expires_in > ClientMargin]
  <2>1. /\ signedUrls' = [signedUrls EXCEPT ![href] = url]
        /\ opens' = [i \in DOMAIN opens |-> IF i \in unsigned
                     THEN [opens[i] EXCEPT !.phase = "header", !.url = answer.url] ELSE opens[i]]
        /\ UNCHANGED <<geotiffSources, geotiffResolved, resignAttempted>>
    BY <1>6 DEF SignSettles
  <2>2. answer.url \in Urls /\ answer.expires_in \in Nat /\ answer.honest \in BOOLEAN
    BY <1>2, <1>6 DEF States
  <2>3. inflightSigns[href] \in Nat
    BY <1>2, <1>3, <1>6 DEF Told, FilesTyped
  <2>4. url.expiresAt \in Int /\ (url.honest => url.expiresAt <= url.url.end)
    <3>1. ExpiresAt(inflightSigns[href], answer.expires_in) \in Int
      BY <2>2, <2>3, SourcesAssumption DEF ExpiresAt
    <3>2. ASSUME answer.honest, answer.expires_in > ClientMargin
          PROVE  ExpiresAt(inflightSigns[href], answer.expires_in) <= answer.url.end
      <4>1. inflightSigns[href] + answer.expires_in <= answer.url.end
        BY <1>2, <1>6, <3>2 DEF Told
      <4>2. answer.url.end \in Int
        BY <2>2 DEF Urls
      <4> QED
        BY <2>2, <2>3, <3>2, <4>1, <4>2, SourcesAssumption DEF ExpiresAt
    <3> QED
      BY <3>1, <3>2
  <2>5. url.honest \in BOOLEAN
    BY <2>2
  <2>6. url \in Signed /\ SignedFit(url)
    BY <2>2, <2>4, <2>5 DEF Signed, SignedFit
  <2> HIDE DEF url, answer
  <2>7. signedUrls' \in [Hrefs -> Signed \cup {None}] /\ SignedInv'
    BY <1>3, <2>1, <2>6 DEF FilesTyped, SignedInv, Inv
  <2>8. /\ opens' \in Seq(Opened) /\ DOMAIN opens' = DOMAIN opens
        /\ \A i \in DOMAIN opens : /\ opens'[i].href = opens[i].href
                                   /\ opens[i].phase # "failed" => opens'[i].phase # "failed"
                                   /\ opens[i].phase = "open" => opens'[i].phase = "open"
    <3>1. \A i \in DOMAIN opens : opens[i] \in Opened
      BY <1>3 DEF FilesTyped
    <3>2. ASSUME NEW i \in DOMAIN opens
          PROVE  /\ opens'[i] \in Opened /\ opens'[i].href = opens[i].href
                 /\ opens[i].phase # "failed" => opens'[i].phase # "failed"
                 /\ opens[i].phase = "open" => opens'[i].phase = "open"
      BY <2>1, <2>2, <3>1 DEF Opened, Phases
    <3>3. DOMAIN opens' = 1..Len(opens) /\ Len(opens) \in Nat
      <4>1. DOMAIN opens' = DOMAIN opens
        BY <2>1
      <4>2. opens \in Seq(Opened)
        BY <1>3 DEF FilesTyped
      <4> QED
        BY <4>1, <4>2
    <3>4. \E m \in Nat : opens' \in [1..m -> Opened]
      BY <2>1, <3>2, <3>3
    <3> QED
      BY <2>1, <3>2, <3>4, SeqDef
  <2>9. Promises(geotiffSources, opens)' /\ Noted(geotiffResolved, geotiffSources, opens)'
    <3>1. Promises(geotiffSources, opens)'
      BY <1>3, <2>1, <2>8 DEF Promises
    <3>2. ASSUME NEW h \in Hrefs, geotiffResolved[h] # None
          PROVE  opens'[geotiffResolved[h]].phase = "open"
      <4>1. /\ [href |-> h, id |-> geotiffResolved[h]] \in ToSet(geotiffSources)
            /\ opens[geotiffResolved[h]].phase = "open"
        BY <1>3, <3>2 DEF Noted
      <4>2. geotiffResolved[h] \in DOMAIN opens
        BY <1>3, <4>1 DEF Promises
      <4> QED
        BY <2>8, <4>1, <4>2
    <3> QED
      BY <1>3, <2>1, <3>1, <3>2 DEF Noted
  <2> QED
    BY <1>3, <1>4, <2>1, <2>7, <2>8, <2>9 DEF Inv, FilesInv, FilesTyped
<1> QED
  BY <1>1, <1>5, <1>6

\* A header is read: the file is noted if the cache still holds its own promise.
LEMMA HeaderAnswersInv == ASSUME Inv, NEW id \in DOMAIN opens, HeaderAnswers(id) PROVE Inv'
<1> DEFINE href == opens[id].href
<1>1. FilesTyped /\ Promises(geotiffSources, opens) /\ Noted(geotiffResolved, geotiffSources, opens)
  BY DEF Inv, FilesInv
<1>2. opens[id] \in Opened /\ href \in Hrefs /\ id \in Nat
  <2>1. opens[id] \in Opened /\ id \in Nat
    <3>1. opens \in Seq(Opened)
      BY <1>1 DEF FilesTyped
    <3> QED
      BY <3>1
  <2> QED
    BY <2>1 DEF Opened
<1>3. UNCHANGED <<inflightSigns, serverVars>> /\ ServerInv'
  BY SameServer DEF HeaderAnswers, Inv
<1>4. CASE Fails({id}, href, ~Alive(opens[id].url))
  <2>1. (~Alive(opens[id].url)) \in BOOLEAN /\ {id} \in SUBSET DOMAIN opens /\ \A i \in {id} : opens[i].href = href
    OBVIOUS
  <2>2. FilesInv /\ SignedInv
    BY DEF Inv
  <2> HIDE DEF href
  <2>3. /\ Promises(geotiffSources, opens)' /\ Noted(geotiffResolved, geotiffSources, opens)'
        /\ SignedInv' /\ opens' \in Seq(Opened) /\ geotiffResolved' \in [Hrefs -> Nat \cup {None}]
        /\ signedUrls' \in [Hrefs -> Signed \cup {None}] /\ resignAttempted' \subseteq Hrefs
    BY <1>2, <1>4, <2>1, <2>2, FailsFits
  <2> QED
    BY <1>1, <1>3, <2>3 DEF Inv, FilesInv, FilesTyped
<1>5. CASE /\ opens' = [opens EXCEPT ![id] = Settled(id, "open")]
           /\ geotiffResolved' = ResolvedWith(id)
           /\ UNCHANGED <<geotiffSources, signedUrls, resignAttempted>>
  <2>1. Settled(id, "open") \in Opened /\ Settled(id, "open").href = href /\ Settled(id, "open").phase = "open"
    BY <1>2 DEF Settled, Opened, Phases
  <2>2. /\ opens' \in Seq(Opened) /\ DOMAIN opens' = DOMAIN opens /\ opens'[id].phase = "open"
        /\ \A i \in DOMAIN opens : /\ opens'[i].href = opens[i].href
                                   /\ opens[i].phase # "failed" => opens'[i].phase # "failed"
                                   /\ opens[i].phase = "open" => opens'[i].phase = "open"
    BY <1>1, <1>5, <2>1 DEF FilesTyped
  <2>3. Promises(geotiffSources, opens)'
    BY <1>1, <1>5, <2>2 DEF Promises
  <2>4. Noted(geotiffResolved, geotiffSources, opens)' /\ geotiffResolved' \in [Hrefs -> Nat \cup {None}]
    <3>1. \A h \in Hrefs : geotiffResolved[h] # None =>
            /\ [href |-> h, id |-> geotiffResolved[h]] \in ToSet(geotiffSources)
            /\ opens'[geotiffResolved[h]].phase = "open"
      <4> SUFFICES ASSUME NEW h \in Hrefs, geotiffResolved[h] # None
                   PROVE  /\ [href |-> h, id |-> geotiffResolved[h]] \in ToSet(geotiffSources)
                          /\ opens'[geotiffResolved[h]].phase = "open"
        OBVIOUS
      <4>1. /\ [href |-> h, id |-> geotiffResolved[h]] \in ToSet(geotiffSources)
            /\ opens[geotiffResolved[h]].phase = "open"
        BY <1>1 DEF Noted
      <4>2. geotiffResolved[h] \in DOMAIN opens
        BY <1>1, <4>1 DEF Promises
      <4> QED
        BY <2>2, <4>1, <4>2
    <3>2. CASE [href |-> href, id |-> id] \in ToSet(geotiffSources)
      <4>1. geotiffResolved' = [geotiffResolved EXCEPT ![href] = id]
        BY <1>5, <3>2 DEF ResolvedWith
      <4>2. geotiffResolved \in [Hrefs -> Nat \cup {None}]
        BY <1>1 DEF FilesTyped
      <4> HIDE DEF href
      <4> QED
        BY <1>2, <1>5, <2>2, <3>1, <3>2, <4>1, <4>2 DEF Noted
    <3>3. CASE [href |-> href, id |-> id] \notin ToSet(geotiffSources)
      <4>1. geotiffResolved' = geotiffResolved
        BY <1>5, <3>3 DEF ResolvedWith
      <4> QED
        BY <1>1, <1>5, <3>1, <4>1 DEF Noted, FilesTyped
    <3> QED
      BY <3>2, <3>3
  <2>5. SignedInv'
    BY <1>5 DEF Inv, SignedInv
  <2> QED
    BY <1>1, <1>3, <1>5, <2>2, <2>3, <2>4, <2>5 DEF Inv, FilesInv, FilesTyped
<1> QED
  BY <1>4, <1>5 DEF HeaderAnswers

LEMMA InvNext == Inv /\ [SourcesNext]_sourcesVars => Inv'
<1> SUFFICES ASSUME Inv, [SourcesNext]_sourcesVars
             PROVE  Inv'
  OBVIOUS
<1>1. CASE UNCHANGED clientVars /\ (ServerNext \/ UNCHANGED serverVars)
  <2>1. ServerInv'
    BY <1>1, ServerNextInv, SameServer DEF Inv, clientVars
  <2>2. SignedInv' /\ FilesInv'
    BY <1>1 DEF Inv, clientVars, SignedInv, FilesInv, FilesTyped
  <2> QED
    BY <2>1, <2>2 DEF Inv
<1>2. ASSUME NEW h \in Hrefs, Resolve(h) \/ SignSettles(h)
      PROVE  Inv'
  BY <1>2, ResolveInv, SignSettlesInv
<1>3. ASSUME NEW id \in DOMAIN opens, HeaderAnswers(id)
      PROVE  Inv'
  BY <1>3, HeaderAnswersInv
<1>4. CASE NewSearch
  <2>1. ServerInv'
    BY <1>4, SameServer DEF Inv, NewSearch
  <2>2. SignedInv' /\ FilesInv'
    BY <1>4 DEF Inv, NewSearch, SignedInv, FilesInv, FilesTyped
  <2> QED
    BY <2>1, <2>2 DEF Inv
<1>5. CASE ClearSources
  <2>1. ServerInv'
    BY <1>5, SameServer DEF Inv, ClearSources
  <2>2. SignedInv' /\ FilesTyped'
    BY <1>5 DEF Inv, ClearSources, SignedInv, FilesInv, FilesTyped
  <2>3. Promises(geotiffSources, opens)' /\ Noted(geotiffResolved, geotiffSources, opens)'
    BY <1>5, SourcesAssumption DEF ClearSources, Promises, Noted, OneEach, ToSet
  <2> QED
    BY <2>1, <2>2, <2>3 DEF Inv, FilesInv
<1> QED
  BY <1>1, <1>2, <1>3, <1>4, <1>5 DEF SourcesNext, sourcesVars

LEMMA Invariance == SourcesSpec => []Inv
<1>1. SourcesInit => Inv
  BY ServerInitInv, FilesInitInv DEF Inv
<1> QED
  BY <1>1, InvNext, PTL DEF SourcesSpec

\* No URL lapses in a cache before its entry does, and the viewer stops using one in time,
\* whoever signed and however the credentials changed: no window outlives the session it was
\* fixed from, as time does not pass between the two, and no two sessions have one key.
THEOREM UrlsAreUsedInTime == SourcesSpec => []UrlsLapseUnused
<1>1. Inv => UrlsLapseUnused
  <2> SUFFICES ASSUME Inv
               PROVE  UrlsLapseUnused
    OBVIOUS
  <2>1. \A e \in ToSet(presign_cache) : e.url.sound => e.at <= e.url.end
    BY DEF Inv, ServerInv, CacheFit, Lasting
  <2>2. \A h \in Hrefs : signedUrls[h] # None /\ signedUrls[h].honest
                           => signedUrls[h].expiresAt <= signedUrls[h].url.end
    BY DEF Inv, SignedInv, SignedFit
  <2> QED
    BY <2>1, <2>2 DEF UrlsLapseUnused
<1> QED
  BY <1>1, Invariance, PTL

\* The file noted as open is that of the promise in the cache, and no promise that failed
\* stays there, for any number of images, opens, evictions and failures.
THEOREM SourcesAlwaysAgree == SourcesSpec => []SourcesAgree
<1>1. Inv => SourcesAgree
  <2> SUFFICES ASSUME Inv
               PROVE  SourcesAgree
    OBVIOUS
  <2>1. SourcesTypeOK
    <3>1. /\ now \in 0..MaxTime /\ making \in Requesters \cup {None}
          /\ Len(presign_cache) <= PRESIGN_CACHE_MAXSIZE
          /\ Len(geotiffSources) <= GEOTIFF_SOURCE_CACHE_MAX
          /\ resignAttempted \subseteq Hrefs
      BY DEF Inv, ServerInv, ServerTyped, CacheFit, FilesInv, FilesTyped, Promises
    <3>2. \A r \in Requesters : requests[r].pc \in
            {"idle", "start", "client", "make", "report", "answered", "failed"}
      BY DEF Inv, ServerInv, ServerTyped, States
    <3>3. ASSUME NEW h \in Hrefs
          PROVE  /\ inflightSigns[h] \in Nat \cup {None}
                 /\ (inflightSigns[h] = None) = (requests[<<h, "sign">>] = Idle)
      <4>1. Told(requests[<<h, "sign">>], inflightSigns[h], now) /\ requests[<<h, "sign">>] \in States
        BY DEF Inv, ServerInv, ServerTyped, ToldInv, Requesters
      <4>2. requests[<<h, "sign">>].pc = "idle" <=> requests[<<h, "sign">>] = Idle
        BY <4>1 DEF States, Idle
      <4> QED
        BY <4>1, <4>2 DEF Told
    <3>4. \A i \in DOMAIN opens : opens[i].phase \in {"sign", "header", "open", "failed"}
      <4>1. opens \in Seq(Opened)
        BY DEF Inv, FilesInv, FilesTyped
      <4>2. \A i \in DOMAIN opens : opens[i] \in Opened
        BY <4>1
      <4> QED
        BY <4>2 DEF Opened, Phases
    <3> QED
      BY <3>1, <3>2, <3>3, <3>4 DEF SourcesTypeOK
  <2>2. ASSUME NEW h \in Hrefs, geotiffResolved[h] # None
        PROVE  /\ \E e \in CachedOpen(h) : e.id = geotiffResolved[h]
               /\ opens[geotiffResolved[h]].phase = "open"
    <3>1. /\ [href |-> h, id |-> geotiffResolved[h]] \in ToSet(geotiffSources)
          /\ opens[geotiffResolved[h]].phase = "open"
      BY <2>2 DEF Inv, FilesInv, Noted
    <3>2. [href |-> h, id |-> geotiffResolved[h]] \in CachedOpen(h)
      BY <3>1 DEF CachedOpen
    <3> QED
      BY <3>1, <3>2
  <2>3. \A e \in ToSet(geotiffSources) : opens[e.id].phase # "failed"
    BY DEF Inv, FilesInv, Promises
  <2> QED
    BY <2>1, <2>2, <2>3 DEF SourcesAgree
<1> QED
  BY <1>1, Invariance, PTL

-----------------------------------------------------------------------------
(* The page: what is shown and what is asked for.                          *)

Collected == \A image \in lake : image.collection \in Collections

PageTypes ==
  /\ pageView \in Views /\ {timer, overlay, cog, pending, drifted, failed} \subseteq BOOLEAN
  /\ load \in {"registry", "modules", "collections", "availability", "search", "ready"}
  /\ searchable \subseteq Collections /\ active \in Collections

\* The searches under way.
Searching ==
  /\ \/ search = NoSearch \/ search = [phase |-> "init"]
     \/ search = [phase |-> "fetch", body |-> search.body]
  /\ pending => search # NoSearch

\* A retry of the collections is under way only while attempts are left.
Retrying ==
  /\ \A call \in calls : call.what = "collections" => call = [what |-> "collections", then |-> call.then]
  /\ \A call \in calls : call.what = "availability" => call.then \in {"nothing", "search", "load"}
  /\ retries \in 0..MaxRetries
  /\ [what |-> "collections", then |-> "retry"] \in calls => retries # 0

\* The picture, and the signature of the sources it was last given.
Pictured ==
  /\ footprints = shown.features
  /\ ~overlay => drawn = NoShapes /\ signature = <<>>
  /\ overlay => drawn = (IF cog THEN shown.features ELSE NoShapes)
  /\ overlay /\ cog /\ shown.features # {} => signature = <<shown.features>>
  /\ signature = <<>> \/ signature = <<signature[1]>>
  /\ signature # <<>> /\ signature[1] # {} => revised = signature[1]

OfControls(body) == body.collection = active /\ body.region = region /\ body.year = year
InSight(body) == body.view = pageView \/ Seen[pageView] \subseteq body.box
\* An answer that will ask for a search is awaited.
Awaited == \E call \in calls : call.what = "availability" /\ call.then \in {"search", "load"}

\* Unless another search follows, that under way, or the results of the last, are those of the
\* controls; and of the view, unless the timer is set.
Current ==
  ~drifted /\ ~pending /\ ~Awaited =>
    /\ search.phase = "fetch" => OfControls(search.body) /\ (timer \/ search.body.view = pageView)
    /\ search = NoSearch /\ ~failed => OfControls(shown.body) /\ (timer \/ InSight(shown.body))

PageInv == Collected /\ PageTypes /\ Searching /\ Retrying /\ Pictured /\ Current

LEMMA PageInitInv == SessionInit => PageInv
<1> SUFFICES ASSUME SessionInit PROVE PageInv
  OBVIOUS
<1>1. Collected /\ PageTypes /\ Searching
  BY SessionAssumption DEF SessionInit, Collected, PageTypes, Searching
<1>2. Retrying /\ Pictured /\ Current
  BY SessionAssumption DEF SessionInit, Retrying, Pictured, Current, NoShapes
<1> QED
  BY <1>1, <1>2 DEF PageInv

-----------------------------------------------------------------------------
(* The parts of a step.                                                    *)

\* A search of the controls as they are now is under way, or will be.
LEMMA Queued ==
  ASSUME Searching, NEW on, Queue(active', region', year', pageView', on)
  PROVE  /\ Searching' /\ Current'
         /\ pending \in BOOLEAN /\ drifted \in BOOLEAN => pending' \in BOOLEAN /\ drifted' \in BOOLEAN
<1>1. CASE search # NoSearch
  <2>1. pending' = TRUE /\ search' = search /\ drifted' = drifted
    BY <1>1 DEF Queue
  <2> QED
    BY <1>1, <2>1 DEF Searching, Current
<1>2. CASE search = NoSearch /\ on /\ ~overlay
  <2>1. pending' = FALSE /\ search' = [phase |-> "init"] /\ drifted' = drifted
    BY <1>2 DEF Queue
  <2>2. search'.phase = "init" /\ search' # NoSearch
    BY <2>1 DEF NoSearch
  <2> QED
    BY <2>1, <2>2 DEF Searching, Current
<1>3. CASE search = NoSearch /\ ~(on /\ ~overlay)
  <2>1. /\ pending' = FALSE /\ drifted' = FALSE
        /\ search' = [phase |-> "fetch", body |-> Body(active', region', year', pageView')]
    BY <1>3 DEF Queue
  <2>2. search'.phase = "fetch" /\ search' # NoSearch /\ search'.body = Body(active', region', year', pageView')
    BY <2>1 DEF NoSearch
  <2>3. OfControls(search.body)' /\ search'.body.view = pageView'
    BY <2>2 DEF OfControls, Body
  <2> QED
    BY <2>1, <2>2, <2>3 DEF Searching, Current
<1> QED
  BY <1>1, <1>2, <1>3

\* The picture after its sources were given anew.
LEMMA GivenAnew ==
  ASSUME Pictured, NEW on \in BOOLEAN, NEW features, overlay' = overlay, cog' = on, shown'.features = features,
         updateImagery(overlay, on, features), footprints' = features, overlay \in BOOLEAN
  PROVE  Pictured'
<1>1. CASE ~overlay
  <2>1. drawn' = drawn /\ signature' = signature /\ revised' = revised
    BY <1>1 DEF updateImagery, Draws
  <2> QED
    BY <1>1, <2>1 DEF Pictured
<1>2. CASE overlay /\ ~on
  <2>1. drawn' = NoShapes /\ signature' = <<>> /\ revised' = revised
    BY <1>2 DEF updateImagery, Draws
  <2> QED
    BY <1>2, <2>1 DEF Pictured
<1>3. CASE overlay /\ on
  <2>1. drawn' = features /\ signature' = <<features>>
    BY <1>3 DEF updateImagery, Draws
  <2>2. signature'[1] = features
    BY <2>1
  <2>3. features # {} => revised' = features
    <3>1. CASE signature = <<features>>
      BY <1>3, <3>1 DEF updateImagery, Pictured
    <3>2. CASE signature # <<features>>
      BY <1>3, <3>2 DEF updateImagery
    <3> QED
      BY <3>1, <3>2
  <2> QED
    BY <1>3, <2>1, <2>2, <2>3 DEF Pictured
<1> QED
  BY <1>1, <1>2, <1>3

\* Steps that leave the calls alone.
LEMMA RetryingStays ==
  ASSUME Retrying, UNCHANGED <<calls, retries>>
  PROVE  Retrying'
BY DEF Retrying
LEMMA PicturedStays ==
  ASSUME Pictured, UNCHANGED <<overlay, cog, shown, picture>>
  PROVE  Pictured'
BY DEF Pictured, picture

LEMMA CollectedStays ==
  ASSUME Collected, lake' = lake
  PROVE  Collected'
BY DEF Collected

-----------------------------------------------------------------------------
(* The map and the controls.                                               *)

LEMMA KeptByLoad ==
  ASSUME PageInv, RegistryLoaded
  PROVE  PageInv'
<1>1. UNCHANGED <<lake, pageView, timer, overlay, calls, retries, controls, searching, picture>>
  BY DEF RegistryLoaded
<1>2. PageTypes'
  BY <1>1 DEF RegistryLoaded, PageInv, PageTypes, controls, searching
<1>3. Searching' /\ Current'
  BY <1>1 DEF PageInv, Searching, Current, Awaited, OfControls, InSight, controls, searching
<1>4. Pictured'
  BY <1>1, PicturedStays DEF PageInv, controls, searching
<1> QED
  BY <1>1, <1>2, <1>3, <1>4, CollectedStays, RetryingStays DEF PageInv

LEMMA KeptByMove ==
  ASSUME PageInv, NEW v \in Views, MoveEnd(v)
  PROVE  PageInv'
<1>1. UNCHANGED <<lake, waiting, controls, search, pending, shown, failed, picture>>
  BY DEF MoveEnd
<1>2. pageView' = v /\ (timer' = TRUE \/ drifted' = TRUE) /\ {timer', drifted'} \subseteq BOOLEAN
  BY DEF MoveEnd, PageInv, PageTypes
<1>3. PageTypes'
  BY <1>1, <1>2 DEF PageInv, PageTypes, controls, waiting
<1>4. Searching' /\ Retrying'
  BY <1>1 DEF PageInv, Searching, Retrying, waiting
<1>5. Current'
  <2>1. CASE drifted' = TRUE
    BY <2>1 DEF Current
  <2>2. CASE timer' = TRUE /\ drifted' = drifted
    BY <1>1, <2>2 DEF PageInv, Current, Awaited, OfControls, controls, waiting
  <2> QED
    BY <1>2, <2>1, <2>2 DEF MoveEnd, PageInv, PageTypes
<1>6. Pictured'
  BY <1>1, PicturedStays DEF PageInv, controls, waiting
<1> QED
  BY <1>1, <1>3, <1>4, <1>5, <1>6, CollectedStays DEF PageInv

LEMMA KeptByTimer ==
  ASSUME PageInv, TimerFires
  PROVE  PageInv'
<1>1. UNCHANGED <<lake, pageView, load, overlay, calls, retries, controls, shown, failed, footprints, signature, revised>>
  BY DEF TimerFires
<1>2. timer = TRUE /\ timer' = FALSE
  BY DEF TimerFires, PageInv, PageTypes
<1>3. CASE footprintsCoverViewport(pageView)
  <2>1. /\ drawn' = Draws(overlay, cog, shown.features)
        /\ drifted' = (drifted \/ search # NoSearch)
        /\ UNCHANGED <<search, pending, inits>>
    BY <1>3 DEF TimerFires
  <2>2. PageTypes' /\ Searching'
    BY <1>1, <1>2, <2>1 DEF PageInv, PageTypes, Searching, controls
  <2>3. drawn' = drawn
    BY <2>1 DEF Draws, PageInv, Pictured
  <2>4. Pictured'
    BY <1>1, <2>3, PicturedStays DEF PageInv, controls, picture
  <2>5. Current'
    <3> SUFFICES ASSUME ~drifted', ~pending', ~Awaited' PROVE Current'
      BY DEF Current
    <3>1. ~drifted /\ ~pending /\ ~Awaited /\ search = NoSearch
      BY <1>1, <2>1 DEF Awaited
    <3>2. InSight(shown.body)'
      BY <1>1, <1>3 DEF InSight, footprintsCoverViewport
    <3> QED
      BY <1>1, <2>1, <3>1, <3>2 DEF PageInv, Current, OfControls, controls, NoSearch
  <2> QED
    BY <1>1, <2>2, <2>4, <2>5, CollectedStays, RetryingStays DEF PageInv
<1>4. CASE ~footprintsCoverViewport(pageView)
  <2>1. Queue(active', region', year', pageView', cog) /\ UNCHANGED drawn
    BY <1>1, <1>4 DEF TimerFires, controls
  <2>2. Searching' /\ Current' /\ pending' \in BOOLEAN /\ drifted' \in BOOLEAN
    BY <2>1, Queued DEF PageInv, PageTypes
  <2>3. PageTypes'
    BY <1>1, <1>2, <2>2 DEF PageInv, PageTypes, controls
  <2>4. Pictured'
    BY <1>1, <2>1, PicturedStays DEF PageInv, controls, picture
  <2> QED
    BY <1>1, <2>2, <2>3, <2>4, CollectedStays, RetryingStays DEF PageInv
<1> QED
  BY <1>3, <1>4

LEMMA KeptByPick ==
  ASSUME PageInv, (\E r \in {All} \cup {p[1] : p \in availability} : PickRegion(r))
                    \/ \E y \in {Latest} \cup {p[2] : p \in availability} : PickYear(y)
  PROVE  PageInv'
<1>1. /\ UNCHANGED <<lake, pageView, timer, load, overlay, calls, retries, searchable, active, availability, cog,
                     shown, failed, picture>>
      /\ Queue(active', region', year', pageView', cog)
  BY DEF PickRegion, PickYear
<1>2. Searching' /\ Current' /\ pending' \in BOOLEAN /\ drifted' \in BOOLEAN
  BY <1>1, Queued DEF PageInv, PageTypes
<1>3. PageTypes'
  BY <1>1, <1>2 DEF PageInv, PageTypes
<1> QED
  BY <1>1, <1>2, <1>3, CollectedStays, RetryingStays, PicturedStays DEF PageInv

LEMMA KeptByToggle ==
  ASSUME PageInv, ToggleCog
  PROVE  PageInv'
<1>1. UNCHANGED <<lake, pageView, timer, load, overlay, calls, retries, searchable, active, region, year,
                  availability, shown, failed, footprints>>
  BY DEF ToggleCog
<1>2. cog' = ~cog /\ cog' \in BOOLEAN /\ cog \in BOOLEAN /\ overlay \in BOOLEAN
  BY DEF ToggleCog, PageInv, PageTypes
<1>3. Pictured'
  BY <1>1, <1>2, GivenAnew DEF ToggleCog, PageInv, Pictured
<1>4. Searching' /\ Current' /\ pending' \in BOOLEAN /\ drifted' \in BOOLEAN
  <2>1. CASE cog
    <3>1. UNCHANGED <<search, pending, drifted>>
      BY <2>1 DEF ToggleCog
    <3> QED
      BY <1>1, <3>1 DEF PageInv, PageTypes, Searching, Current, Awaited, OfControls, InSight
  <2>2. CASE ~cog
    <3>1. Queue(active', region', year', pageView', TRUE)
      BY <1>1, <2>2 DEF ToggleCog
    <3> QED
      BY <3>1, Queued DEF PageInv, PageTypes
  <2> QED
    BY <2>1, <2>2
<1>5. PageTypes'
  BY <1>1, <1>2, <1>4 DEF PageInv, PageTypes
<1> QED
  BY <1>1, <1>3, <1>4, <1>5, CollectedStays, RetryingStays DEF PageInv

LEMMA KeptBySelect ==
  ASSUME PageInv, NEW c \in Collections, selectCollection(c)
  PROVE  PageInv'
<1>1. UNCHANGED <<lake, pageView, timer, load, overlay, inits, retries, searchable, region, year,
                  availability, cog, searching, picture>>
  BY DEF selectCollection
<1>2. \/ /\ c \in searchable /\ active' = c
         /\ calls' = Asks(c, region, IF c = active THEN "nothing" ELSE "search")
      \/ calls' = calls \cup {[what |-> "collections", then |-> c]} /\ active' = active
  BY DEF selectCollection
<1>3. PageTypes' /\ Searching'
  BY <1>1, <1>2 DEF PageInv, PageTypes, Searching, searching
<1>4. Retrying'
  <2>1. c # "retry"
    BY SessionAssumption
  <2> QED
    BY <1>1, <1>2, <2>1 DEF PageInv, Retrying, Asks
<1>5. Current'
  <2> SUFFICES ASSUME ~Awaited' PROVE Current'
    BY DEF Current
  <2>1. ~Awaited
    BY <1>2 DEF Awaited, Asks
  <2>2. active' = active
    <3>1. CASE calls' = Asks(c, region, "search")
      <4>1. [what |-> "availability", collection |-> c, region |-> region, then |-> "search"] \in calls'
        BY <3>1 DEF Asks
      <4> QED
        BY <4>1 DEF Awaited
    <3> QED
      BY <1>2, <3>1
  <2> QED
    BY <1>1, <2>1, <2>2 DEF PageInv, Current, OfControls, InSight, searching
<1>6. Pictured'
  BY <1>1, PicturedStays DEF PageInv, searching
<1> QED
  BY <1>1, <1>3, <1>4, <1>5, <1>6, CollectedStays DEF PageInv

LEMMA KeptByIngest ==
  ASSUME PageInv, IngestCompletes
  PROVE  PageInv'
<1>1. /\ UNCHANGED <<pageView, timer, load, overlay, inits, retries, controls, searching, picture>>
      /\ lake' = lake \cup Later /\ calls' = Asks(active, region, "nothing")
  BY DEF IngestCompletes
<1>2. Collected'
  BY <1>1, SessionAssumption DEF PageInv, Collected
<1>3. PageTypes' /\ Searching'
  BY <1>1 DEF PageInv, PageTypes, Searching, searching, controls
<1>4. Retrying'
  BY <1>1 DEF PageInv, Retrying, Asks
<1>5. Current'
  <2>1. Awaited' <=> Awaited
    BY <1>1 DEF Awaited, Asks
  <2> QED
    BY <1>1, <2>1 DEF PageInv, Current, OfControls, InSight, searching, controls
<1>6. Pictured'
  BY <1>1, PicturedStays DEF PageInv, searching, controls
<1> QED
  BY <1>2, <1>3, <1>4, <1>5, <1>6 DEF PageInv

-----------------------------------------------------------------------------
(* The answers.                                                            *)

LEMMA KeptByRetry ==
  ASSUME PageInv, RetryTick
  PROVE  PageInv'
<1>1. /\ UNCHANGED <<lake, pageView, timer, load, overlay, inits, retries, controls, searching, picture>>
      /\ retries > 0 /\ calls' = calls \cup {[what |-> "collections", then |-> "retry"]}
  BY DEF RetryTick
<1>2. PageTypes' /\ Searching'
  BY <1>1 DEF PageInv, PageTypes, Searching, searching, controls
<1>3. Retrying'
  BY <1>1 DEF PageInv, Retrying
<1>4. Current'
  <2>1. Awaited' <=> Awaited
    BY <1>1 DEF Awaited
  <2> QED
    BY <1>1, <2>1 DEF PageInv, Current, OfControls, InSight, searching, controls
<1>5. Pictured'
  BY <1>1, PicturedStays DEF PageInv, searching, controls
<1> QED
  BY <1>1, <1>2, <1>3, <1>4, <1>5, CollectedStays DEF PageInv

LEMMA KeptByCollections ==
  ASSUME PageInv, NEW call \in calls, CollectionsAnswer(call)
  PROVE  PageInv'
<1> DEFINE ids == IF lake = {} THEN {Default} ELSE {i.collection : i \in lake}
           chosen(ok) == IF ok THEN Chosen(ids) ELSE active
           select(ok) == call.then \in Collections /\ call.then \in (IF ok THEN ids ELSE searchable)
           asked(c, then) == [what |-> "availability", collection |-> c, region |-> region, then |-> then]
<1>1. UNCHANGED <<lake, pageView, timer, overlay, inits, region, year, availability, cog,
                  search, pending, shown, failed, picture, events>>
  BY DEF CollectionsAnswer
<1>2. call.what = "collections" /\ call = [what |-> "collections", then |-> call.then]
  BY DEF CollectionsAnswer, PageInv, Retrying
<1>3. ids \subseteq Collections /\ Chosen(ids) \in ids
  <2>1. ids \subseteq Collections /\ ids # {}
    BY SessionAssumption DEF PageInv, Collected
  <2> HIDE DEF ids
  <2> QED
    BY <2>1 DEF Chosen
<1>4. PICK ok \in BOOLEAN :
        /\ searchable' = IF ok THEN ids ELSE searchable
        /\ active' = IF select(ok) THEN call.then ELSE chosen(ok)
        /\ load' = IF call.then = "load" THEN "availability" ELSE load
        /\ calls' = (calls \ {call}) \cup
             (IF select(ok) THEN {asked(call.then, IF call.then = chosen(ok) THEN "nothing" ELSE "search")}
              ELSE IF call.then = "load" THEN {asked(chosen(ok), "load")} ELSE {})
        /\ retries' = IF call.then = "load" /\ ~ok /\ retries = 0 THEN MaxRetries
                      ELSE IF call.then = "retry" THEN IF ok THEN 0 ELSE retries - 1
                      ELSE retries
        /\ drifted' = (drifted \/ (chosen(ok) # active /\ ~(select(ok) /\ call.then # chosen(ok))))
  BY DEF CollectionsAnswer
<1> HIDE DEF ids
<1>5. chosen(ok) \in Collections /\ searchable' \subseteq Collections
  BY <1>3, <1>4 DEF PageInv, PageTypes
<1> HIDE DEF chosen
<1>6. PageTypes' /\ Searching'
  <2>1. active' \in Collections /\ drifted' \in BOOLEAN
    BY <1>4, <1>5 DEF PageInv, PageTypes
  <2>2. load' \in {"registry", "modules", "collections", "availability", "search", "ready"}
    BY <1>4 DEF PageInv, PageTypes
  <2> QED
    BY <1>1, <1>5, <2>1, <2>2 DEF PageInv, PageTypes, Searching
<1>7. Retrying'
  <2>1. calls' \subseteq calls \cup {asked(c, then) : c \in Collections, then \in {"nothing", "search", "load"}}
    BY <1>4, <1>5
  <2>2. \A d \in calls' : \/ d \in calls
                          \/ d.what = "availability" /\ d.then \in {"nothing", "search", "load"}
    BY <2>1
  <2>3. [what |-> "collections", then |-> "retry"] \in calls' =>
          [what |-> "collections", then |-> "retry"] \in calls /\ call.then # "retry"
    <3>1. call.then = "retry" => call = [what |-> "collections", then |-> "retry"]
      BY <1>2
    <3>2. call \notin calls' \/ call.what = "availability"
      BY <1>4
    <3>3. [what |-> "collections", then |-> "retry"].what # "availability"
      OBVIOUS
    <3> QED
      BY <2>2, <3>1, <3>2, <3>3, <1>2
  <2>4. /\ retries \in 0..MaxRetries
        /\ [what |-> "collections", then |-> "retry"] \in calls => retries # 0
    BY DEF PageInv, Retrying
  <2>5. retries' \in 0..MaxRetries
    <3>1. CASE call.then = "retry"
      <4>1. retries # 0 /\ (retries' = 0 \/ retries' = retries - 1)
        BY <1>2, <1>4, <2>4, <3>1
      <4> QED
        BY <2>4, <4>1, SessionAssumption
    <3>2. CASE call.then # "retry"
      <4>1. retries' \in {MaxRetries, retries}
        BY <1>4, <3>2
      <4> QED
        BY <2>4, <4>1, SessionAssumption
    <3> QED
      BY <3>1, <3>2
  <2>6. [what |-> "collections", then |-> "retry"] \in calls' => retries' # 0
    BY <1>4, <2>3, <2>4
  <2> QED
    BY <2>2, <2>5, <2>6 DEF PageInv, Retrying
<1>8. Current'
  <2> SUFFICES ASSUME ~Awaited', ~drifted' PROVE Current'
    BY DEF Current
  <2>1. ~Awaited
    <3> SUFFICES ASSUME NEW d \in calls, d.what = "availability", d.then \in {"search", "load"} PROVE FALSE
      BY DEF Awaited
    <3>1. d \in calls'
      BY <1>2, <1>4
    <3> QED
      BY <3>1 DEF Awaited
  <2>2. active' = active /\ ~drifted
    <3>1. CASE select(ok)
      <4>1. asked(call.then, IF call.then = chosen(ok) THEN "nothing" ELSE "search") \in calls'
        BY <1>4, <3>1
      <4>2. call.then = chosen(ok)
        BY <4>1 DEF Awaited
      <4> QED
        BY <1>4, <3>1, <4>2 DEF PageInv, PageTypes
    <3>2. CASE ~select(ok)
      BY <1>4, <3>2 DEF PageInv, PageTypes
    <3> QED
      BY <3>1, <3>2
  <2> QED
    BY <1>1, <2>1, <2>2 DEF PageInv, Current, OfControls, InSight
<1>9. Pictured'
  BY <1>1, PicturedStays DEF PageInv
<1> QED
  BY <1>1, <1>6, <1>7, <1>8, <1>9, CollectedStays DEF PageInv

LEMMA KeptByAvailability ==
  ASSUME PageInv, NEW call \in calls, AvailabilityAnswers(call)
  PROVE  PageInv'
<1>1. /\ UNCHANGED <<lake, pageView, timer, overlay, retries, searchable, active, cog, shown, failed, picture>>
      /\ calls' = calls \ {call}
  BY DEF AvailabilityAnswers
<1>2. /\ Searching' /\ Current' /\ pending' \in BOOLEAN /\ drifted' \in BOOLEAN
  <2>1. CASE call.then = "nothing"
    <3>1. /\ drifted' = (drifted \/ region' # region \/ year' # year)
          /\ UNCHANGED <<search, pending, inits>>
      BY <2>1 DEF AvailabilityAnswers
    <3>2. Searching' /\ pending' \in BOOLEAN /\ drifted' \in BOOLEAN
      BY <3>1 DEF PageInv, PageTypes, Searching
    <3>3. Current'
      <4> SUFFICES ASSUME ~Awaited', ~drifted' PROVE Current'
        BY DEF Current
      <4>1. ~Awaited /\ ~drifted /\ region' = region /\ year' = year
        BY <1>1, <2>1, <3>1 DEF Awaited
      <4> QED
        BY <1>1, <3>1, <4>1 DEF PageInv, Current, OfControls, InSight
    <3> QED
      BY <3>2, <3>3
  <2>2. CASE call.then # "nothing"
    <3>1. Queue(active', region', year', pageView', cog)
      BY <1>1, <2>2 DEF AvailabilityAnswers
    <3> QED
      BY <3>1, Queued DEF PageInv, PageTypes
  <2> QED
    BY <2>1, <2>2
<1>3. PageTypes'
  <2>1. load' \in {load, "search", "ready"}
    BY DEF AvailabilityAnswers
  <2> QED
    BY <1>1, <1>2, <2>1 DEF PageInv, PageTypes
<1>4. Retrying'
  BY <1>1 DEF PageInv, Retrying
<1> QED
  BY <1>1, <1>2, <1>3, <1>4, CollectedStays, PicturedStays DEF PageInv

LEMMA KeptByNoAvailability ==
  ASSUME PageInv, NEW call \in calls, AvailabilityFails(call)
  PROVE  PageInv'
<1>1. /\ UNCHANGED <<lake, pageView, timer, overlay, retries, searchable, active, cog,
                     search, pending, shown, failed, picture>>
      /\ calls' = calls \ {call} /\ drifted' = TRUE /\ load' \in {load, "ready"}
  BY DEF AvailabilityFails
<1>2. PageTypes' /\ Searching' /\ Retrying'
  BY <1>1 DEF PageInv, PageTypes, Searching, Retrying
<1>3. Current'
  BY <1>1 DEF Current
<1> QED
  BY <1>1, <1>2, <1>3, CollectedStays, PicturedStays DEF PageInv

LEMMA KeptByModules ==
  ASSUME PageInv, NEW call \in inits, InitSettles(call)
  PROVE  PageInv'
<1>1. UNCHANGED <<lake, pageView, timer, retries, controls, pending, shown, failed, footprints>>
  BY DEF InitSettles
<1> DEFINE begins == search' = [phase |-> "fetch", body |-> Body(active, region, year, pageView)] /\ drifted' = FALSE
<1>2. PICK outcome \in {"loaded", "starved", "failed"} :
        /\ overlay' = (overlay \/ outcome = "loaded")
        /\ IF outcome = "loaded" /\ shown.features # {}
           THEN updateImagery(TRUE, cog, shown.features) ELSE UNCHANGED <<drawn, signature, revised>>
        /\ begins \/ UNCHANGED <<search, drifted>>
        /\ \/ load' = "collections" /\ calls' = calls \cup {[what |-> "collections", then |-> "load"]}
           \/ UNCHANGED <<load, calls>>
  BY DEF InitSettles
<1>0. load' \in {load, "collections"} /\ calls' \in {calls, calls \cup {[what |-> "collections", then |-> "load"]}}
  BY <1>2
<1>3. overlay \in BOOLEAN /\ cog \in BOOLEAN /\ cog' = cog /\ overlay' \in BOOLEAN
  BY <1>1, <1>2 DEF PageInv, PageTypes, controls
<1>4. Pictured'
  <2>1. CASE outcome = "loaded" /\ shown.features # {}
    <3>1. /\ overlay' = TRUE /\ footprints' = shown'.features /\ shown'.features = shown.features
          /\ drawn' = IF cog THEN shown.features ELSE NoShapes
          /\ signature' = IF cog THEN <<shown.features>> ELSE <<>>
          /\ revised' = IF cog /\ shown.features # {} /\ signature # <<shown.features>> THEN shown.features ELSE revised
      BY <1>1, <1>2, <1>3, <2>1 DEF updateImagery, Draws, PageInv, Pictured
    <3>2. CASE cog
      <4>1. signature' = <<shown.features>> /\ signature'[1] = shown.features
        BY <3>1, <3>2
      <4>2. revised' = shown.features
        BY <2>1, <3>1, <3>2 DEF PageInv, Pictured
      <4> QED
        BY <1>3, <3>1, <3>2, <4>1, <4>2 DEF Pictured
    <3>3. CASE ~cog
      BY <1>3, <3>1, <3>3 DEF Pictured
    <3> QED
      BY <3>2, <3>3
  <2>2. CASE ~(outcome = "loaded" /\ shown.features # {})
    BY <1>1, <1>2, <1>3, <2>2 DEF PageInv, Pictured, NoShapes
  <2> QED
    BY <2>1, <2>2
<1>5. Searching' /\ Current' /\ drifted' \in BOOLEAN
  <2>1. CASE begins
    <3>1. /\ search'.phase = "fetch" /\ search' # NoSearch /\ search'.body = Body(active, region, year, pageView)
          /\ drifted' = FALSE /\ search' = [phase |-> "fetch", body |-> search'.body]
      BY <2>1 DEF NoSearch
    <3> HIDE DEF begins
    <3>2. OfControls(search.body)' /\ search'.body.view = pageView'
      BY <1>1, <3>1 DEF OfControls, Body, controls
    <3> QED
      BY <3>1, <3>2 DEF Searching, Current
  <2>2. CASE UNCHANGED <<search, drifted>>
    <3>1. Awaited' <=> Awaited
      BY <1>0 DEF Awaited
    <3> QED
      BY <1>1, <2>2, <3>1 DEF PageInv, PageTypes, Searching, Current, OfControls, InSight, controls
  <2> QED
    BY <1>2, <2>1, <2>2
<1>6. PageTypes'
  BY <1>0, <1>1, <1>3, <1>5 DEF PageInv, PageTypes, controls
<1>7. Retrying'
  BY <1>0, <1>1 DEF PageInv, Retrying
<1> QED
  BY <1>1, <1>4, <1>5, <1>6, <1>7, CollectedStays DEF PageInv

LEMMA KeptBySearch ==
  ASSUME PageInv, SearchSettles
  PROVE  PageInv'
<1>1. UNCHANGED <<lake, pageView, timer, overlay, calls, retries, controls>> /\ search.phase = "fetch" /\ pending' = FALSE
  BY DEF SearchSettles
<1> DEFINE found == \E features : /\ shown' = [features |-> features, body |-> search.body]
                                  /\ footprints' = features
                                  /\ updateImagery(overlay, cog, features)
                                  /\ failed' = FALSE
           none == failed' = TRUE /\ UNCHANGED <<shown, picture>>
<1>2. found \/ none
  BY DEF SearchSettles
<1>3. failed' \in BOOLEAN /\ (~failed' => shown'.body = search.body)
  <2>1. CASE found
    <3>1. PICK features : shown' = [features |-> features, body |-> search.body] /\ failed' = FALSE
      BY <2>1
    <3> QED
      BY <3>1
  <2>2. CASE none
    BY <2>2
  <2> QED
    BY <1>2, <2>1, <2>2
<1>4. Pictured'
  <2>1. CASE found
    <3>1. PICK features : /\ shown' = [features |-> features, body |-> search.body]
                          /\ footprints' = features /\ updateImagery(overlay, cog, features)
      BY <2>1
    <3>2. shown'.features = features /\ overlay' = overlay /\ cog' = cog /\ overlay \in BOOLEAN /\ cog \in BOOLEAN
      BY <1>1, <3>1 DEF PageInv, PageTypes, controls
    <3> QED
      BY <3>1, <3>2, GivenAnew DEF PageInv
  <2>2. CASE none
    BY <1>1, <2>2, PicturedStays DEF PageInv, controls
  <2> QED
    BY <1>2, <2>1, <2>2
<1> HIDE DEF found, none
<1>5. Searching' /\ Current' /\ drifted' \in BOOLEAN
  <2>1. CASE ~pending
    <3>1. search' = NoSearch /\ drifted' = drifted
      BY <2>1 DEF SearchSettles
    <3>2. Searching' /\ drifted' \in BOOLEAN /\ search'.phase = "none"
      BY <1>1, <3>1 DEF Searching, PageInv, PageTypes, NoSearch
    <3>3. Current'
      <4> SUFFICES ASSUME ~drifted', ~Awaited', ~failed'
                   PROVE  OfControls(shown.body)' /\ (timer' \/ InSight(shown.body)')
        BY <3>2 DEF Current
      <4>1. ~drifted /\ ~Awaited
        BY <1>1, <3>1 DEF Awaited
      <4>2. OfControls(search.body) /\ (timer \/ search.body.view = pageView)
        BY <1>1, <2>1, <4>1 DEF PageInv, Current
      <4> QED
        BY <1>1, <1>3, <4>2 DEF OfControls, InSight, controls
    <3> QED
      BY <3>2, <3>3
  <2>2. CASE pending /\ cog /\ ~overlay
    <3>1. search' = [phase |-> "init"] /\ drifted' = drifted
      BY <2>2 DEF SearchSettles
    <3>2. search'.phase = "init" /\ search' # NoSearch
      BY <3>1 DEF NoSearch
    <3> QED
      BY <1>1, <3>1, <3>2 DEF Searching, Current, PageInv, PageTypes
  <2>3. CASE pending /\ ~(cog /\ ~overlay)
    <3>1. search' = [phase |-> "fetch", body |-> Body(active, region, year, pageView)] /\ drifted' = FALSE
      BY <2>3 DEF SearchSettles
    <3>2. search'.phase = "fetch" /\ search' # NoSearch /\ search'.body = Body(active, region, year, pageView)
      BY <3>1 DEF NoSearch
    <3>3. OfControls(search.body)' /\ search'.body.view = pageView'
      BY <1>1, <3>2 DEF OfControls, Body, controls
    <3> QED
      BY <1>1, <3>1, <3>2, <3>3 DEF Searching, Current
  <2> QED
    BY <2>1, <2>2, <2>3
<1>6. PageTypes'
  <2>1. load' \in {load, "ready"}
    BY DEF SearchSettles
  <2> QED
    BY <1>1, <1>3, <1>5, <2>1 DEF PageInv, PageTypes, controls
<1> QED
  BY <1>1, <1>4, <1>5, <1>6, CollectedStays, RetryingStays DEF PageInv

-----------------------------------------------------------------------------
LEMMA PageStep == PageInv /\ [SessionNext]_sessionVars => PageInv'
<1> SUFFICES ASSUME PageInv, [SessionNext]_sessionVars PROVE PageInv'
  OBVIOUS
<1>1. CASE UNCHANGED sessionVars
  <2>1. UNCHANGED <<lake, pageView, timer, waiting, controls, searching, picture>>
    BY <1>1 DEF sessionVars
  <2>2. PageTypes' /\ Searching' /\ Current'
    BY <2>1 DEF PageInv, PageTypes, Searching, Current, Awaited, OfControls, InSight, controls, searching, waiting
  <2>3. Pictured' /\ Retrying'
    BY <2>1, PicturedStays, RetryingStays DEF PageInv, controls, searching, waiting
  <2> QED
    BY <2>1, <2>2, <2>3, CollectedStays DEF PageInv
<1>2. CASE SessionNext
  BY <1>2, KeptByLoad, KeptByTimer, KeptByRetry, KeptBySearch, KeptByIngest, KeptByToggle, KeptByMove, KeptByPick,
     KeptBySelect, KeptByCollections, KeptByAvailability, KeptByNoAvailability, KeptByModules DEF SessionNext
<1> QED
  BY <1>1, <1>2

\* For any lake, map and collections, any clicks and moves and any order and outcome of the
\* answers: what is drawn is what the last search found, and whenever the page rests, neither
\* failed nor drifted, that search was of the controls and the view as they are (queueSearch,
\* runSearch, the moveend handler and selectCollection).
THEOREM PictureStaysCurrent == SessionSpec => []PictureIsCurrent
<1>1. PageInv => PictureIsCurrent
  <2> SUFFICES ASSUME PageInv PROVE PictureIsCurrent
    OBVIOUS
  <2>1. SessionTypeOK
    BY DEF PageInv, PageTypes, Searching, Retrying, SessionTypeOK, NoSearch
  <2>2. PictureIsResults
    <3>1. overlay /\ cog /\ shown.features # {} => revised = shown.features
      BY DEF PageInv, Pictured
    <3> QED
      BY <3>1 DEF PageInv, Pictured, PictureIsResults
  <2>3. AtRestCurrent
    <3> SUFFICES ASSUME AtRest, ~drifted, ~failed
                 PROVE  OfControls(shown.body) /\ InSight(shown.body)
      BY DEF AtRestCurrent, OfControls, InSight
    <3>1. ~pending /\ ~Awaited /\ search = NoSearch /\ ~timer
      BY DEF AtRest, Awaited, PageInv, PageTypes, Searching
    <3> QED
      BY <3>1 DEF PageInv, Current
  <2> QED
    BY <2>1, <2>2, <2>3 DEF PictureIsCurrent
<1> QED
  BY <1>1, PageInitInv, PageStep, PTL DEF SessionSpec

-----------------------------------------------------------------------------
(* The overlays of footprints.                                             *)

\* The outlines t of the key k, while p is asked with the number n among the calls C.
Outlines(on, v, t, k, p, n, C, e) ==
  /\ n \in Nat /\ t = k /\ {k, p} \subseteq Near \cup {Nothing}
  /\ C \subseteq [seq : 1..n, key : Near]
  /\ \A c \in C : c.seq = n => p = c.key
  /\ p # Nothing => [seq |-> n, key |-> p] \in C
  /\ ~on \/ v \notin Near => k = Nothing /\ p = Nothing
  /\ on /\ v \in Near => "outlines" \in e \/ v = IF p = Nothing THEN k ELSE p
\* The buildings h of the key k, with the calls C, the newest of number n.
Houses(h, k, n, C, e) ==
  /\ n \in Nat /\ {h, k} \subseteq Places \cup {Nothing}
  /\ C \subseteq [seq : 1..n, key : Places]
  /\ h = k \/ "houses" \in e \/ \E c \in C : c.seq = n
Acts ==
  /\ view \in Places /\ {outlines, terrain, buildings} \subseteq BOOLEAN
  /\ excused \subseteq {"outlines", "houses"} /\ steps \in 0..MaxSteps

OutlinesNow == Outlines(outlines, view, tiles, tilesKey, tilesPending, tilesSeq, tilesCalls, excused)
HousesNow == Houses(houses, housesKey, housesSeq, housesCalls, excused)
OverlaysInv == Acts /\ OutlinesNow /\ HousesNow

-----------------------------------------------------------------------------
(* The refreshes.                                                          *)

LEMMA RefreshOutlines ==
  ASSUME OverlaysInv, NEW on \in BOOLEAN, NEW v \in Places,
         on = outlines \/ v = view,
         refreshS1MFootprintsLayer(on, v)
  PROVE  /\ Outlines(on, v, tiles', tilesKey', tilesPending', tilesSeq', tilesCalls', excused')
         /\ excused' \subseteq {"outlines", "houses"}
         /\ ("houses" \in excused) <=> ("houses" \in excused')
<1> USE FootprintsAssumption
<1>0. Outlines(outlines, view, tiles, tilesKey, tilesPending, tilesSeq, tilesCalls, excused)
      /\ excused \subseteq {"outlines", "houses"}
  BY DEF OverlaysInv, OutlinesNow, Acts
<1>1. CASE ~on \/ v \notin Near
  <2>1. /\ tilesSeq' = tilesSeq + 1 /\ tiles' = Nothing /\ tilesKey' = Nothing /\ tilesPending' = Nothing
        /\ UNCHANGED <<tilesCalls, excused>>
    BY <1>1 DEF refreshS1MFootprintsLayer
  <2>2. tilesCalls' \subseteq [seq : 1..tilesSeq', key : Near]
    BY <1>0, <2>1 DEF Outlines
  <2>3. \A c \in tilesCalls' : c.seq # tilesSeq'
    BY <1>0, <2>1 DEF Outlines
  <2> QED
    BY <1>0, <1>1, <2>1, <2>2, <2>3 DEF Outlines
<1>2. CASE on /\ v \in Near /\ v \in {tilesKey, tilesPending}
  <2>1. UNCHANGED <<tilesSeq, tiles, tilesKey, tilesPending, tilesCalls>>
    BY <1>2 DEF refreshS1MFootprintsLayer
  <2>2. excused' = IF v = tilesKey /\ tilesPending # Nothing THEN excused \cup {"outlines"} ELSE excused
    BY <1>2 DEF refreshS1MFootprintsLayer
  <2>3. "outlines" \in excused' \/ v = IF tilesPending = Nothing THEN tilesKey ELSE tilesPending
    BY <1>2, <2>2
  <2> QED
    BY <1>0, <1>2, <2>1, <2>2, <2>3 DEF Outlines
<1>3. CASE on /\ v \in Near /\ v \notin {tilesKey, tilesPending}
  <2> DEFINE call == [seq |-> tilesSeq + 1, key |-> v]
  <2>1. /\ tilesSeq' = tilesSeq + 1 /\ tilesPending' = v /\ tilesCalls' = tilesCalls \cup {call}
        /\ excused' = excused \ {"outlines"} /\ UNCHANGED <<tiles, tilesKey>>
    BY <1>3 DEF refreshS1MFootprintsLayer
  <2>2. tilesCalls' \subseteq [seq : 1..tilesSeq', key : Near]
    BY <1>0, <1>3, <2>1 DEF Outlines
  <2>3. \A c \in tilesCalls' : c.seq = tilesSeq' => tilesPending' = c.key
    BY <1>0, <2>1 DEF Outlines
  <2> QED
    BY <1>0, <1>3, <2>1, <2>2, <2>3 DEF Outlines
<1> QED
  BY <1>1, <1>2, <1>3

LEMMA RefreshHouses ==
  ASSUME OverlaysInv, NEW on, NEW up, refreshBuildingFootprints(on, up)
  PROVE  HousesNow' /\ excused' \in {excused, excused \ {"houses"}}
<1>0. Houses(houses, housesKey, housesSeq, housesCalls, excused) /\ view \in Places
  BY DEF OverlaysInv, HousesNow, Acts
<1>1. CASE ~on \/ ~up
  BY <1>0, <1>1 DEF refreshBuildingFootprints, clearBuildingFootprints, Houses, HousesNow
<1>2. CASE on /\ up /\ view = housesKey
  BY <1>0, <1>2 DEF refreshBuildingFootprints, Houses, HousesNow, houseVars
<1>3. CASE on /\ up /\ view # housesKey
  <2> DEFINE call == [seq |-> housesSeq + 1, key |-> view]
  <2>1. /\ housesKey' = view /\ housesSeq' = housesSeq + 1 /\ housesCalls' = housesCalls \cup {call}
        /\ UNCHANGED <<houses, excused>>
    BY <1>3 DEF refreshBuildingFootprints
  <2>2. housesCalls' \subseteq [seq : 1..housesSeq', key : Places]
    BY <1>0, <2>1 DEF Houses
  <2>3. call \in housesCalls' /\ call.seq = housesSeq'
    BY <2>1
  <2>4. housesSeq' \in Nat /\ {houses', housesKey'} \subseteq Places \cup {Nothing}
    BY <1>0, <2>1 DEF Houses
  <2> HIDE DEF call
  <2>5. HousesNow'
    BY <2>2, <2>3, <2>4 DEF Houses, HousesNow
  <2> QED
    BY <2>1, <2>5
<1> QED
  BY <1>1, <1>2, <1>3

\* The outlines do not depend on what excuses the buildings, nor the buildings on the other.
LEMMA OutlinesStay ==
  ASSUME OverlaysInv, UNCHANGED <<view, outlineVars>>, excused' \in {excused, excused \ {"houses"}, excused \cup {"houses"}}
  PROVE  OutlinesNow'
BY DEF OverlaysInv, OutlinesNow, Outlines, outlineVars
LEMMA HousesStay ==
  ASSUME OverlaysInv, UNCHANGED houseVars, ("houses" \in excused) <=> ("houses" \in excused')
  PROVE  HousesNow'
BY DEF OverlaysInv, HousesNow, Houses, houseVars

-----------------------------------------------------------------------------
(* The steps.                                                              *)

LEMMA InvInit == ASSUME FootprintsInit PROVE OverlaysInv
<1>1. steps \in 0..MaxSteps
  BY FootprintsAssumption DEF FootprintsInit
<1>2. Acts
  BY <1>1 DEF FootprintsInit, Acts
<1>3. OutlinesNow
  <2>1. outlines = FALSE /\ tiles = Nothing /\ tilesKey = Nothing /\ tilesPending = Nothing /\ tilesSeq = 0 /\ tilesCalls = {}
    BY DEF FootprintsInit
  <2>2. 0 \in Nat
    OBVIOUS
  <2> QED
    BY <2>1, <2>2, Zenon DEF OutlinesNow, Outlines
<1>4. HousesNow
  BY DEF FootprintsInit, HousesNow, Houses
<1> QED
  BY <1>2, <1>3, <1>4 DEF OverlaysInv

LEMMA UserSteps == ASSUME OverlaysInv, User PROVE steps' \in 0..MaxSteps
BY FootprintsAssumption DEF OverlaysInv, Acts, User

LEMMA InvMove == ASSUME OverlaysInv, NEW v \in Places, Move(v) PROVE OverlaysInv'
<1>1. /\ steps' \in 0..MaxSteps /\ view' = v
      /\ refreshS1MFootprintsLayer(outlines, v)
      /\ UNCHANGED <<outlines, terrain, buildings, houseVars>>
  BY UserSteps DEF Move
<1>2. /\ Outlines(outlines, v, tiles', tilesKey', tilesPending', tilesSeq', tilesCalls', excused')
      /\ excused' \subseteq {"outlines", "houses"}
      /\ ("houses" \in excused) <=> ("houses" \in excused')
  <2>1. outlines \in BOOLEAN
    BY DEF OverlaysInv, Acts
  <2> QED
    BY <1>1, <2>1, RefreshOutlines
<1>3. OutlinesNow' /\ HousesNow'
  BY <1>1, <1>2, HousesStay DEF OutlinesNow
<1> QED
  BY <1>1, <1>2, <1>3 DEF OverlaysInv, Acts

LEMMA InvToggleOutlines == ASSUME OverlaysInv, ToggleOutlines PROVE OverlaysInv'
<1>1. /\ steps' \in 0..MaxSteps /\ outlines' \in BOOLEAN
      /\ refreshS1MFootprintsLayer(outlines', view)
      /\ UNCHANGED <<view, terrain, buildings, houseVars>>
  BY UserSteps DEF ToggleOutlines
<1>2. /\ Outlines(outlines', view, tiles', tilesKey', tilesPending', tilesSeq', tilesCalls', excused')
      /\ excused' \subseteq {"outlines", "houses"}
      /\ ("houses" \in excused) <=> ("houses" \in excused')
  <2>1. view \in Places
    BY DEF OverlaysInv, Acts
  <2> QED
    BY <1>1, <2>1, RefreshOutlines
<1>3. OutlinesNow' /\ HousesNow'
  BY <1>1, <1>2, HousesStay DEF OutlinesNow
<1> QED
  BY <1>1, <1>2, <1>3 DEF OverlaysInv, Acts

\* The acts that may refresh or clear the buildings.
LEMMA InvHousesActs ==
  ASSUME OverlaysInv, ToggleBuildings \/ TerrainEnabled \/ TerrainFound \/ TerrainCleared
  PROVE  OverlaysInv'
<1>1. UNCHANGED <<view, outlineVars>> /\ {outlines', terrain', buildings'} \subseteq BOOLEAN
      /\ steps' \in 0..MaxSteps
  <2>1. UNCHANGED <<view, outlineVars>>
    BY DEF ToggleBuildings, TerrainEnabled, TerrainFound, TerrainCleared
  <2>2. steps' \in 0..MaxSteps
    BY UserSteps DEF ToggleBuildings, TerrainEnabled, TerrainFound, TerrainCleared, OverlaysInv, Acts
  <2>3. {outlines', terrain', buildings'} \subseteq BOOLEAN
    BY <2>1 DEF ToggleBuildings, TerrainEnabled, TerrainFound, TerrainCleared, OverlaysInv, Acts, outlineVars
  <2> QED
    BY <2>1, <2>2, <2>3
<1>2. HousesNow' /\ excused' \in {excused, excused \ {"houses"}}
  <2>1. CASE ToggleBuildings
    BY <2>1, RefreshHouses DEF ToggleBuildings
  <2>2. CASE TerrainFound
    BY <2>2, RefreshHouses DEF TerrainFound
  <2>3. CASE TerrainCleared
    BY <2>3, RefreshHouses DEF TerrainCleared, refreshBuildingFootprints
  <2>4. CASE TerrainEnabled
    BY <2>4, HousesStay DEF TerrainEnabled
  <2> QED
    BY <2>1, <2>2, <2>3, <2>4
<1>3. OutlinesNow'
  BY <1>1, <1>2, OutlinesStay
<1> QED
  BY <1>1, <1>2, <1>3 DEF OverlaysInv, Acts

\* An answer to the newest request is of the key that is asked; another changes nothing.
LEMMA InvTilesSettle ==
  ASSUME OverlaysInv, NEW c \in tilesCalls, TilesAnswered(c) \/ TilesFailed(c)
  PROVE  OverlaysInv'
<1> USE FootprintsAssumption
<1>0. Outlines(outlines, view, tiles, tilesKey, tilesPending, tilesSeq, tilesCalls, excused)
  BY DEF OverlaysInv, OutlinesNow
<1>1. /\ tilesCalls' = tilesCalls \ {c}
      /\ UNCHANGED <<view, outlines, tilesSeq, terrain, buildings, houseVars, steps>>
      /\ excused' \in {excused, excused \cup {"outlines"}}
  BY DEF TilesAnswered, TilesFailed
<1>2. CASE c.seq # tilesSeq
  <2>1. UNCHANGED <<tiles, tilesKey, tilesPending, excused>>
    BY <1>2 DEF TilesAnswered, TilesFailed
  <2>2. tilesPending # Nothing => [seq |-> tilesSeq, key |-> tilesPending] \in tilesCalls'
    BY <1>0, <1>1, <1>2 DEF Outlines
  <2> QED
    BY <1>0, <1>1, <2>1, <2>2 DEF Outlines, OutlinesNow, OverlaysInv, Acts, HousesNow, houseVars
<1>3. CASE c.seq = tilesSeq /\ TilesAnswered(c)
  <2>1. tiles' = c.key /\ tilesKey' = c.key /\ tilesPending' = Nothing /\ excused' = excused
    BY <1>3 DEF TilesAnswered
  <2>2. c.key = tilesPending /\ c.key \in Near /\ tilesPending # Nothing
    BY <1>0, <1>3 DEF Outlines
  <2>3. tilesCalls' \subseteq [seq : 1..tilesSeq', key : Near] /\ \A d \in tilesCalls' : d.seq # tilesSeq'
    <3>1. ASSUME NEW d \in tilesCalls', d.seq = tilesSeq'
          PROVE  FALSE
      BY <1>0, <1>1, <1>3, <2>2, <3>1 DEF Outlines
    <3> QED
      BY <1>0, <1>1, <3>1 DEF Outlines
  <2>4. OutlinesNow'
    BY <1>0, <1>1, <2>1, <2>2, <2>3 DEF Outlines, OutlinesNow
  <2> QED
    BY <1>1, <2>1, <2>4, HousesStay DEF OverlaysInv, Acts
<1>4. CASE c.seq = tilesSeq /\ TilesFailed(c)
  <2>1. tiles' = Nothing /\ tilesKey' = Nothing /\ tilesPending' = Nothing /\ excused' = excused \cup {"outlines"}
    BY <1>4 DEF TilesFailed
  <2>2. c.key = tilesPending
    BY <1>0, <1>4 DEF Outlines
  <2>3. tilesCalls' \subseteq [seq : 1..tilesSeq', key : Near] /\ \A d \in tilesCalls' : d.seq # tilesSeq'
    <3>1. ASSUME NEW d \in tilesCalls', d.seq = tilesSeq'
          PROVE  FALSE
      BY <1>0, <1>1, <1>4, <2>2, <3>1 DEF Outlines
    <3> QED
      BY <1>0, <1>1, <3>1 DEF Outlines
  <2>4. OutlinesNow'
    BY <1>0, <1>1, <2>1, <2>3 DEF Outlines, OutlinesNow
  <2> QED
    BY <1>1, <2>1, <2>4, HousesStay DEF OverlaysInv, Acts
<1> QED
  BY <1>2, <1>3, <1>4

LEMMA InvHousesSettle ==
  ASSUME OverlaysInv, NEW c \in housesCalls, HousesAnswered(c) \/ HousesFailed(c)
  PROVE  OverlaysInv'
<1>0. Houses(houses, housesKey, housesSeq, housesCalls, excused)
  BY DEF OverlaysInv, HousesNow
<1>1. /\ housesCalls' = housesCalls \ {c}
      /\ UNCHANGED <<view, outlineVars, terrain, buildings, housesKey, housesSeq, steps>>
      /\ excused' \in {excused, excused \ {"houses"}, excused \cup {"houses"}}
  BY DEF HousesAnswered, HousesFailed
<1>2. housesCalls' \subseteq [seq : 1..housesSeq', key : Places]
  BY <1>0, <1>1 DEF Houses
<1>3. houses' \in Places \cup {Nothing}
  BY <1>0 DEF HousesAnswered, HousesFailed, Houses
<1>4. houses' = housesKey' \/ "houses" \in excused' \/ \E d \in housesCalls' : d.seq = housesSeq'
  <2>1. CASE c.seq = housesSeq
    BY <1>1, <2>1 DEF HousesAnswered, HousesFailed
  <2>2. CASE c.seq # housesSeq
    BY <1>0, <1>1, <2>2 DEF HousesAnswered, HousesFailed, Houses
  <2> QED
    BY <2>1, <2>2
<1>5. HousesNow'
  BY <1>0, <1>1, <1>2, <1>3, <1>4 DEF Houses, HousesNow
<1>6. OutlinesNow'
  BY <1>1, OutlinesStay
<1> QED
  BY <1>1, <1>5, <1>6 DEF OverlaysInv, Acts, outlineVars

-----------------------------------------------------------------------------
LEMMA OverlaysInvariance == FootprintsSpec => []OverlaysInv
<1>1. FootprintsInit => OverlaysInv
  BY InvInit
<1>2. OverlaysInv /\ [FootprintsNext]_footprintVars => OverlaysInv'
  <2> SUFFICES ASSUME OverlaysInv, [FootprintsNext]_footprintVars
               PROVE  OverlaysInv'
    OBVIOUS
  <2>1. CASE UNCHANGED footprintVars
    BY <2>1 DEF footprintVars, outlineVars, houseVars, OverlaysInv, Acts, OutlinesNow, HousesNow
  <2> QED
    BY <2>1, InvMove, InvToggleOutlines, InvHousesActs, InvTilesSettle, InvHousesSettle DEF FootprintsNext
<1> QED
  BY <1>1, <1>2, PTL DEF FootprintsSpec

\* However the answers come in, what the overlays show follows the view: no outlines while
\* they are off or too far; with no answer to wait for, the outlines of the view and the
\* buildings of the view they were last asked for.  The newest request is always that of
\* the key that is asked (refreshS1MFootprintsLayer, refreshBuildingFootprints).
THEOREM OverlaysFollow == FootprintsSpec => []FootprintsFollow
<1>1. OverlaysInv => FootprintsFollow
  <2> SUFFICES ASSUME OverlaysInv
               PROVE  FootprintsFollow
    OBVIOUS
  <2>1. FootprintsTypeOK
    BY FootprintsAssumption DEF OverlaysInv, Acts, OutlinesNow, Outlines, HousesNow, Houses, FootprintsTypeOK
  <2> QED
    BY <2>1, FootprintsAssumption DEF OverlaysInv, Acts, OutlinesNow, Outlines, HousesNow, Houses, FootprintsFollow
<1> QED
  BY <1>1, OverlaysInvariance, PTL

-----------------------------------------------------------------------------
(* The terrain.                                                            *)

MemoryOK(m) ==
  /\ DOMAIN m = DOMAIN Empty
  /\ IsFiniteSet(DOMAIN m.builds)
  /\ \A b \in DOMAIN m.builds : {"state", "asked"} \subseteq DOMAIN m.builds[b] /\ IsFiniteSet(m.builds[b].asked)
  /\ \E S : m.drapes \in Seq(S)
  /\ \A i \in DOMAIN m.drapes : m.drapes[i].build \in DOMAIN m.builds
Bare(m) == DOMAIN m.tiles = {} /\ m.drapes = <<>>

LEMMA Fields == DOMAIN Empty = {"tiles", "drapes", "builds", "entries", "orphans", "ratchet"}
BY DEF Empty

LEMMA SameBuilds ==
  ASSUME NEW m, MemoryOK(m), NEW n, DOMAIN n = DOMAIN m, n.builds = m.builds, n.drapes = m.drapes
  PROVE  MemoryOK(n)
BY DEF MemoryOK


\* Every set of naturals that is not empty has a least element.
LEMMA LeastNat ==
  ASSUME NEW S \in SUBSET Nat, S # {}
  PROVE  \E m \in S : \A k \in S : m <= k
<1> DEFINE F == {0..n - 1 : n \in S}
           R == StrictSubsetOrdering(Nat)
<1>1. IsWellFoundedOn(R, FiniteSubsetsOf(Nat))
  BY FS_StrictSubsetOrderingWellFounded
<1>2. F \subseteq FiniteSubsetsOf(Nat)
  <2> SUFFICES ASSUME NEW n \in S PROVE 0..n - 1 \in FiniteSubsetsOf(Nat)
    OBVIOUS
  <2>1. n \in Nat /\ 0 \in Int /\ n - 1 \in Int
    OBVIOUS
  <2>2. IsFiniteSet(0..n - 1)
    BY <2>1, FS_Interval
  <2>3. 0..n - 1 \in SUBSET Nat
    OBVIOUS
  <2> QED
    BY <2>2, <2>3 DEF FiniteSubsetsOf
<1>3. F # {}
  OBVIOUS
<1>4. PICK T \in F : \A U \in F : <<U, T>> \notin R
  <2> HIDE DEF F, R
  <2> QED
    BY <1>1, <1>2, <1>3, WFMin
<1>5. PICK m \in S : T = 0..m - 1
  OBVIOUS
<1>6. ASSUME NEW k \in S, k < m PROVE FALSE
  <2>1. 0..k - 1 \subseteq 0..m - 1 /\ k \in 0..m - 1 /\ k \notin 0..k - 1
    BY <1>6
  <2>2. <<0..k - 1, 0..m - 1>> \in R
    BY <2>1 DEF StrictSubsetOrdering
  <2> QED
    BY <2>2, <1>4, <1>5
<1> QED
  BY <1>6

\* Induction up to a bound, for a property given by the set of those that have it.
LEMMA UpTo ==
  ASSUME NEW m \in Nat, NEW P, 0 \in P, \A n \in 1..m : n - 1 \in P => n \in P
  PROVE  0..m \subseteq P
<1> SUFFICES ASSUME (0..m) \ P # {} PROVE FALSE
  OBVIOUS
<1> DEFINE S == (0..m) \ P
<1>1. S \in SUBSET Nat /\ S # {}
  OBVIOUS
<1>2. PICK n \in S : \A k \in S : n <= k
  <2> HIDE DEF S
  <2> QED
    BY <1>1, LeastNat
<1> QED
  BY <1>2

\* What is spared is of what was there.
LEMMA SparedFacts ==
  ASSUME NEW S, NEW drapes \in Seq(S), NEW keys
  PROVE  /\ Spared(drapes, keys) \in Seq({drapes[i] : i \in DOMAIN drapes})
         /\ drapes = <<>> => Spared(drapes, keys) = <<>>
<1> DEFINE m == Len(drapes)
           T == {drapes[i] : i \in DOMAIN drapes}
           more(n, q) == IF drapes[n].key \in keys THEN q ELSE Append(q, drapes[n])
           isKept(g) == g = [n \in 0..m |-> IF n = 0 THEN <<>> ELSE more(n, g[n - 1])]
           kept == CHOOSE g : isKept(g)
           upTo(k, g) == g \in [0..k -> Seq(T)] /\ g = [n \in 0..k |-> IF n = 0 THEN <<>> ELSE more(n, g[n - 1])]
           P == {k \in 0..m : \E g : upTo(k, g)}
<1>1. m \in Nat /\ DOMAIN drapes = 1..m /\ \A n \in 1..m : drapes[n] \in T
  OBVIOUS
<1>2. \A n \in 1..m, q \in Seq(T) : more(n, q) \in Seq(T)
  <2> HIDE DEF T, m
  <2> QED
    BY <1>1
<1> HIDE DEF T, m, more
<1>3. 0 \in P
  <2>1. upTo(0, [n \in 0..0 |-> <<>>])
    OBVIOUS
  <2> HIDE DEF upTo
  <2> QED
    BY <1>1, <2>1
<1>4. \A k \in 1..m : k - 1 \in P => k \in P
  <2> SUFFICES ASSUME NEW k \in 1..m, k - 1 \in P PROVE k \in P
    OBVIOUS
  <2>1. PICK f : upTo(k - 1, f)
    OBVIOUS
  <2> DEFINE g == [n \in 0..k |-> IF n = k THEN more(k, f[k - 1]) ELSE f[n]]
  <2>2. more(k, f[k - 1]) \in Seq(T)
    BY <1>2, <2>1
  <2>3. g \in [0..k -> Seq(T)]
    BY <2>1, <2>2
  <2>4. \A n \in 0..k : g[n] = IF n = 0 THEN <<>> ELSE more(n, g[n - 1])
    <3> SUFFICES ASSUME NEW n \in 0..k PROVE g[n] = IF n = 0 THEN <<>> ELSE more(n, g[n - 1])
      OBVIOUS
    <3>1. CASE n = k
      <4>1. n - 1 \in 0..k /\ n - 1 # k /\ n # 0
        BY <3>1, <1>1
      <4> QED
        BY <3>1, <4>1
    <3>2. CASE n # k /\ n # 0
      <4>1. n - 1 \in 0..k /\ n - 1 # k /\ n \in 0..k - 1
        BY <3>2, <1>1
      <4> QED
        BY <3>2, <4>1, <2>1
    <3>3. CASE n # k /\ n = 0
      BY <3>3, <2>1
    <3> QED
      BY <3>1, <3>2, <3>3
  <2>5. upTo(k, g)
    BY <2>3, <2>4
  <2> HIDE DEF upTo, g
  <2> QED
    BY <2>5
<1>5. m \in P
  <2> HIDE DEF P
  <2>1. 0..m \subseteq P
    BY <1>1, <1>3, <1>4, UpTo
  <2> QED
    BY <1>1, <2>1
<1>6. \E f : upTo(m, f)
  BY <1>5
<1>7. isKept(kept) /\ \A g : isKept(g) => isKept(kept)
  BY <1>6
<1>8. Spared(drapes, keys) = kept[m]
  BY DEF Spared, m, more
<1>9. kept = [n \in 0..m |-> IF n = 0 THEN <<>> ELSE more(n, kept[n - 1])]
  BY <1>7
<1> DEFINE Q == {k \in 0..m : kept[k] \in Seq(T)}
<1> HIDE DEF kept
<1>10. 0 \in Q
  BY <1>1, <1>9
<1>11. \A k \in 1..m : k - 1 \in Q => k \in Q
  <2> SUFFICES ASSUME NEW k \in 1..m, kept[k - 1] \in Seq(T) PROVE kept[k] \in Seq(T)
    BY <1>1
  <2>1. kept[k] = more(k, kept[k - 1])
    BY <1>1, <1>9
  <2> QED
    BY <1>2, <2>1
<1>12. 0..m \subseteq Q
  <2> HIDE DEF Q
  <2> QED
    BY <1>1, <1>10, <1>11, UpTo
<1>13. drapes = <<>> => kept[m] = <<>>
  <2> SUFFICES ASSUME drapes = <<>> PROVE kept[m] = <<>>
    OBVIOUS
  <2>1. m = 0
    BY DEF m
  <2> QED
    BY <2>1, <1>9
<1> QED
  BY <1>1, <1>8, <1>12, <1>13 DEF T

LEMMA DropFacts ==
  ASSUME NEW m, MemoryOK(m), NEW keys
  PROVE  /\ MemoryOK(Drop(m, keys)) /\ DOMAIN Drop(m, keys).tiles = DOMAIN m.tiles
         /\ Drop(m, keys).builds = m.builds
         /\ Bare(m) => Bare(Drop(m, keys))
<1> DEFINE d == Drop(m, keys)
           q == Spared(m.drapes, keys)
<1>1. PICK S : m.drapes \in Seq(S)
  BY DEF MemoryOK
<1>2. /\ q \in Seq({m.drapes[i] : i \in DOMAIN m.drapes}) /\ (m.drapes = <<>> => q = <<>>)
  BY <1>1, SparedFacts
<1>3. /\ DOMAIN d = DOMAIN m /\ d.drapes = q /\ d.builds = m.builds /\ d.tiles = m.tiles
  BY Fields DEF MemoryOK, Drop
<1> HIDE DEF d, q
<1>4. \A i \in DOMAIN q : \E j \in DOMAIN m.drapes : q[i] = m.drapes[j]
  BY <1>2
<1>5. MemoryOK(d)
  BY <1>2, <1>3, <1>4 DEF MemoryOK
<1> QED
  BY <1>2, <1>3, <1>5 DEF Bare, d

LEMMA PruneFacts ==
  ASSUME NEW m, MemoryOK(m)
  PROVE  /\ MemoryOK(pruneS1MDrapeCache(m)) /\ DOMAIN pruneS1MDrapeCache(m).tiles = DOMAIN m.tiles
         /\ pruneS1MDrapeCache(m).builds = m.builds
         /\ Bare(m) => Bare(pruneS1MDrapeCache(m))
<1>1. \E keys : pruneS1MDrapeCache(m) = Drop(m, keys)
  BY DEF pruneS1MDrapeCache
<1> QED
  BY <1>1, DropFacts

LEMMA DetachFacts ==
  ASSUME NEW m, MemoryOK(m), NEW gone
  PROVE  /\ MemoryOK(Detach(m, gone))
         /\ Detach(m, gone).tiles = m.tiles /\ Detach(m, gone).drapes = m.drapes
<1> DEFINE d == Detach(m, gone)
           moved(l) == IF l.sub \in gone THEN [l EXCEPT !.sub = Absent] ELSE l
<1>1. /\ DOMAIN d = DOMAIN m /\ d.drapes = m.drapes /\ d.tiles = m.tiles
      /\ DOMAIN d.builds = DOMAIN m.builds
      /\ \A b \in DOMAIN m.builds : d.builds[b] = [m.builds[b] EXCEPT !.asked = {moved(l) : l \in m.builds[b].asked}]
  BY Fields DEF MemoryOK, Detach
<1>2. ASSUME NEW b \in DOMAIN m.builds
      PROVE  {"state", "asked"} \subseteq DOMAIN d.builds[b] /\ IsFiniteSet(d.builds[b].asked)
  <2> DEFINE A == m.builds[b].asked
  <2>1. IsFiniteSet(A) /\ {"state", "asked"} \subseteq DOMAIN m.builds[b]
    BY DEF MemoryOK
  <2>2. DOMAIN d.builds[b] = DOMAIN m.builds[b] /\ d.builds[b].asked = {moved(l) : l \in A}
    BY <1>1, <2>1
  <2>3. IsFiniteSet({moved(l) : l \in A})
    <3> DEFINE f == [l \in A |-> moved(l)]
    <3> HIDE DEF A, moved
    <3>1. f \in Surjection(A, {moved(l) : l \in A})
      BY DEF Surjection
    <3> QED
      BY <3>1, <2>1, FS_Surjection
  <2> QED
    BY <2>1, <2>2, <2>3
<1> HIDE DEF d, moved
<1>3. MemoryOK(d)
  BY <1>1, <1>2 DEF MemoryOK
<1> QED
  BY <1>1, <1>3 DEF d

LEMMA DisposeFacts ==
  ASSUME NEW m, MemoryOK(m), NEW gone
  PROVE  /\ MemoryOK(disposeS1MTileCache(m, gone))
         /\ DOMAIN disposeS1MTileCache(m, gone).tiles = DOMAIN m.tiles \ gone
<1> DEFINE subs == {s \in Subs(m) : s[1] \in gone}
           keys == {Sub(m, s).drape : s \in subs} \cup {Sub(m, s).waits : s \in subs}
           a == Drop(m, keys)
           b == Detach(a, subs)
           d == disposeS1MTileCache(m, gone)
<1>1. d = [b EXCEPT !.tiles = Dropping(@, gone)]
  BY DEF disposeS1MTileCache
<1> HIDE DEF keys, subs
<1>2. MemoryOK(a) /\ DOMAIN a.tiles = DOMAIN m.tiles
  BY DropFacts
<1> HIDE DEF a
<1>3. MemoryOK(b) /\ b.tiles = a.tiles
  BY <1>2, DetachFacts
<1> HIDE DEF b, d
<1>4. DOMAIN d = DOMAIN b /\ d.builds = b.builds /\ d.drapes = b.drapes /\ d.tiles = Dropping(b.tiles, gone)
  BY <1>1, <1>3, Fields DEF MemoryOK
<1>5. MemoryOK(d)
  BY <1>3, <1>4, SameBuilds
<1>6. DOMAIN d.tiles = DOMAIN m.tiles \ gone
  BY <1>2, <1>3, <1>4 DEF Dropping
<1> QED
  BY <1>5, <1>6 DEF d

LEMMA ForgetFacts ==
  ASSUME NEW m, MemoryOK(m)
  PROVE  /\ MemoryOK(Forget(m)) /\ DOMAIN Forget(m).tiles = DOMAIN m.tiles /\ Forget(m).drapes = <<>>
         /\ MemoryOK(releaseS1MDrapeMemory(m)) /\ DOMAIN releaseS1MDrapeMemory(m).tiles = DOMAIN m.tiles
         /\ releaseS1MDrapeMemory(m).drapes = <<>>
<1> DEFINE f == Forget(m)
           r == releaseS1MDrapeMemory(m)
<1>1. DOMAIN f = DOMAIN m /\ f.builds = m.builds /\ f.drapes = <<>> /\ DOMAIN f.tiles = DOMAIN m.tiles
  BY Fields DEF MemoryOK, Forget
<1>2. r = [f EXCEPT !.ratchet = [d \in Datasets |-> 0]]
  BY DEF releaseS1MDrapeMemory
<1> HIDE DEF f, r
<1>3. DOMAIN r = DOMAIN f /\ r.builds = f.builds /\ r.drapes = f.drapes /\ r.tiles = f.tiles
  BY <1>1, <1>2, Fields DEF MemoryOK
<1>4. <<>> \in Seq({}) /\ DOMAIN <<>> = {}
  OBVIOUS
<1>5. MemoryOK(f)
  BY <1>1, <1>4 DEF MemoryOK
<1>6. MemoryOK(r)
  BY <1>3, <1>5, SameBuilds
<1> QED
  BY <1>1, <1>3, <1>5, <1>6 DEF f, r

LEMMA TidyFacts ==
  ASSUME NEW m, MemoryOK(m)
  PROVE  MemoryOK(Tidy(m)) /\ Tidy(m).tiles = m.tiles /\ Tidy(m).drapes = m.drapes
<1> DEFINE t == Tidy(m)
           held == {m.drapes[i].build : i \in DOMAIN m.drapes}
           gone == {b \in DOMAIN m.builds : m.builds[b].state # "run" /\ m.builds[b].asked = {} /\ b \notin held}
<1>1. /\ DOMAIN t = DOMAIN m /\ t.drapes = m.drapes /\ t.tiles = m.tiles
      /\ t.builds = Dropping(m.builds, gone)
  BY Fields DEF MemoryOK, Tidy
<1>2. \A i \in DOMAIN m.drapes : m.drapes[i].build \notin gone
  OBVIOUS
<1> HIDE DEF t, gone
<1>3. DOMAIN t.builds = DOMAIN m.builds \ gone /\ \A b \in DOMAIN t.builds : t.builds[b] = m.builds[b]
  BY <1>1 DEF Dropping
<1>4. IsFiniteSet(DOMAIN t.builds)
  <2>1. DOMAIN t.builds \in SUBSET DOMAIN m.builds
    BY <1>3
  <2> QED
    BY <2>1, FS_Subset DEF MemoryOK
<1>5. MemoryOK(t)
  BY <1>1, <1>2, <1>3, <1>4 DEF MemoryOK
<1> QED
  BY <1>1, <1>5 DEF t

LEMMA AskersFinite ==
  ASSUME NEW m, MemoryOK(m), NEW n, NEW b, NEW A, DOMAIN n = DOMAIN m, n.drapes = m.drapes,
         n.builds = [m.builds EXCEPT ![b].asked = A], b \in DOMAIN m.builds => IsFiniteSet(A)
  PROVE  MemoryOK(n)
<1>1. DOMAIN n.builds = DOMAIN m.builds
  OBVIOUS
<1>2. ASSUME NEW c \in DOMAIN n.builds
      PROVE  {"state", "asked"} \subseteq DOMAIN n.builds[c] /\ IsFiniteSet(n.builds[c].asked)
  <2>1. {"state", "asked"} \subseteq DOMAIN m.builds[c] /\ IsFiniteSet(m.builds[c].asked)
    BY <1>1, <1>2 DEF MemoryOK
  <2>2. CASE c = b
    BY <1>1, <2>1, <2>2
  <2>3. CASE c # b
    BY <1>1, <2>1, <2>3
  <2> QED
    BY <2>2, <2>3
<1> QED
  BY <1>1, <1>2 DEF MemoryOK

PaintOK(p) == DOMAIN p = {"m", "again", "drawn", "missed"} /\ MemoryOK(p.m) /\ p.missed \in BOOLEAN

LEMMA SourcesFacts ==
  ASSUME NEW p, PaintOK(p), NEW d, NEW s
  PROVE  PaintOK(s1mDrapeSourcesForBbox(p, d, s))
<1> DEFINE q == s1mDrapeSourcesForBbox(p, d, s)
<1>1. q = p \/ \E w, a : q = [p EXCEPT !.m.entries[d] = w, !.again = a]
  BY DEF s1mDrapeSourcesForBbox
<1>2. CASE q = p
  BY <1>2
<1>3. ASSUME NEW w, NEW a, q = [p EXCEPT !.m.entries[d] = w, !.again = a] PROVE PaintOK(q)
  <2> HIDE DEF q
  <2>1. /\ DOMAIN q = DOMAIN p /\ q.missed = p.missed
        /\ q.m = [p.m EXCEPT !.entries[d] = w]
    BY <1>3 DEF PaintOK
  <2>2. DOMAIN q.m = DOMAIN p.m /\ q.m.builds = p.m.builds /\ q.m.drapes = p.m.drapes
    BY <2>1, Fields DEF PaintOK, MemoryOK
  <2> QED
    BY <2>1, <2>2, SameBuilds DEF PaintOK
<1> QED
  BY <1>1, <1>2, <1>3

LEMMA EnsureFacts ==
  ASSUME NEW p0, PaintOK(p0), NEW t, NEW n, NEW s
  PROVE  PaintOK(ensureSubTileDrape(p0, t, n, s))
<1> DEFINE p == s1mDrapeSourcesForBbox(p0, t[1], s)
           e == p.m.entries[t[1]]
           sub == p.m.tiles[t][n]
           key == Key(t, n, e.pool)
           held == {i \in DOMAIN p.m.drapes : p.m.drapes[i].key = key}
           b == IF held # {} THEN p.m.drapes[CHOOSE i \in held : TRUE].build
                ELSE CHOOSE i \in 1..(Cardinality(DOMAIN p.m.builds) + 1) : i \notin DOMAIN p.m.builds
           more == [p.m EXCEPT !.builds = With(@, b, [state |-> "run", key |-> key, asked |-> {}]),
                               !.drapes = Append(@, [key |-> key, build |-> b])]
           built == IF held # {} THEN p.m ELSE pruneS1MDrapeCache(more)
           waits == IF sub.waits = <<"sources">> THEN Absent ELSE sub.waits
           who == [sub |-> <<t, n>>, old |-> sub.drape, seq |-> s]
           asking == [built EXCEPT !.tiles[t][n].waits = key, !.builds[b].asked = @ \cup {who}]
           q == ensureSubTileDrape(p0, t, n, s)
<1>1. \/ \E w : q = [p EXCEPT !.m.tiles[t][n].waits = w]
      \/ q = [p EXCEPT !.m = asking]
  BY DEF ensureSubTileDrape
<1>2. PaintOK(p)
  BY SourcesFacts
<1> HIDE DEF p, key, b, who, q
<1>3. ASSUME NEW w, q = [p EXCEPT !.m.tiles[t][n].waits = w] PROVE PaintOK(q)
  <2>1. DOMAIN q = DOMAIN p /\ q.missed = p.missed /\ q.m = [p.m EXCEPT !.tiles[t][n].waits = w]
    BY <1>2, <1>3 DEF PaintOK
  <2>2. DOMAIN q.m = DOMAIN p.m /\ q.m.builds = p.m.builds /\ q.m.drapes = p.m.drapes
    BY <2>1, <1>2, Fields DEF PaintOK, MemoryOK
  <2> QED
    BY <1>2, <2>1, <2>2, SameBuilds DEF PaintOK
<1>4. MemoryOK(more)
  <2> DEFINE x == [state |-> "run", key |-> key, asked |-> {}]
             d == [key |-> key, build |-> b]
  <2>1. MemoryOK(p.m)
    BY <1>2 DEF PaintOK
  <2>2. DOMAIN more = DOMAIN p.m /\ more.builds = With(p.m.builds, b, x) /\ more.drapes = Append(p.m.drapes, d)
    BY <2>1, Fields DEF MemoryOK
  <2>3. {"state", "asked"} \subseteq DOMAIN x /\ x.asked = {} /\ IsFiniteSet(x.asked) /\ d.build = b
    BY FS_EmptySet
  <2> HIDE DEF more, x, d
  <2>4. /\ DOMAIN more.builds = DOMAIN p.m.builds \cup {b}
        /\ \A c \in DOMAIN more.builds : more.builds[c] = IF c = b THEN x ELSE p.m.builds[c]
    BY <2>2 DEF With
  <2>5. IsFiniteSet(DOMAIN more.builds)
    BY <2>1, <2>4, FS_AddElement DEF MemoryOK
  <2>6. ASSUME NEW c \in DOMAIN more.builds
        PROVE  {"state", "asked"} \subseteq DOMAIN more.builds[c] /\ IsFiniteSet(more.builds[c].asked)
    <3>1. CASE c = b
      BY <2>3, <2>4, <3>1
    <3>2. CASE c # b
      BY <2>1, <2>4, <3>2 DEF MemoryOK
    <3> QED
      BY <3>1, <3>2
  <2>7. PICK S : p.m.drapes \in Seq(S)
    BY <2>1 DEF MemoryOK
  <2>8. more.drapes \in Seq(S \cup {d})
    BY <2>2, <2>7
  <2>9. ASSUME NEW i \in DOMAIN more.drapes PROVE more.drapes[i].build \in DOMAIN more.builds
    <3>1. more.drapes[i] = d \/ (i \in DOMAIN p.m.drapes /\ more.drapes[i] = p.m.drapes[i])
      BY <2>2, <2>7
    <3> QED
      BY <3>1, <2>1, <2>3, <2>4 DEF MemoryOK
  <2> QED
    BY <2>1, <2>2, <2>5, <2>6, <2>8, <2>9 DEF MemoryOK
<1>5. MemoryOK(built)
  <2> HIDE DEF more
  <2> QED
    BY <1>2, <1>4, PruneFacts DEF PaintOK
<1> HIDE DEF built
<1>6. MemoryOK(asking)
  <2> DEFINE A == built.builds[b].asked \cup {who}
  <2>1. /\ DOMAIN asking = DOMAIN built /\ asking.drapes = built.drapes
        /\ asking.builds = [built.builds EXCEPT ![b].asked = A]
    BY <1>5, Fields DEF MemoryOK
  <2>2. b \in DOMAIN built.builds => IsFiniteSet(A)
    BY <1>5, FS_AddElement DEF MemoryOK
  <2> HIDE DEF asking, A
  <2> QED
    BY <1>5, <2>1, <2>2, AskersFinite
<1>7. ASSUME q = [p EXCEPT !.m = asking] PROVE PaintOK(q)
  <2> HIDE DEF asking
  <2> QED
    BY <1>2, <1>6, <1>7 DEF PaintOK
<1> QED
  BY <1>1, <1>3, <1>7 DEF q

LEMMA ToldFacts ==
  ASSUME NEW p, PaintOK(p), NEW b, NEW l
  PROVE  /\ PaintOK(SubTileTold(p, b, l))
         /\ Bare(p.m) => Bare(SubTileTold(p, b, l).m)
<1> DEFINE there == l.sub # Absent
           x == l.sub
           key == p.m.builds[b].key
           done == p.m.builds[b].state = "done"
           freed == IF there /\ Sub(p.m, x).waits = key THEN [p.m EXCEPT !.tiles[x[1]][x[2]].waits = Absent] ELSE p.m
           textured == IF there /\ done THEN [freed EXCEPT !.tiles[x[1]][x[2]].drape = key] ELSE freed
           dropped == IF done /\ l.old \notin {Absent, key} THEN Drop(textured, {l.old}) ELSE textured
           pruned == IF done THEN pruneS1MDrapeCache(dropped) ELSE dropped
           told == [pruned EXCEPT !.builds[b].asked = @ \ {l}]
           q == SubTileTold(p, b, l)
           Kept(m, n) == MemoryOK(n) /\ (Bare(m) => Bare(n))
<1> HIDE DEF there, x, key, done
<1>1. MemoryOK(p.m)
  BY DEF PaintOK
<1>2. Kept(p.m, freed)
  <2>1. ASSUME freed = [p.m EXCEPT !.tiles[x[1]][x[2]].waits = Absent] PROVE Kept(p.m, freed)
    <3>1. /\ DOMAIN freed = DOMAIN p.m /\ freed.builds = p.m.builds /\ freed.drapes = p.m.drapes
          /\ DOMAIN freed.tiles = DOMAIN p.m.tiles
      BY <1>1, <2>1, Fields DEF MemoryOK
    <3> HIDE DEF freed
    <3> QED
      BY <1>1, <3>1, SameBuilds DEF Bare
  <2> QED
    BY <1>1, <2>1
<1> HIDE DEF freed
<1>3. Kept(p.m, textured)
  <2>1. ASSUME textured = [freed EXCEPT !.tiles[x[1]][x[2]].drape = key] PROVE Kept(p.m, textured)
    <3>1. /\ DOMAIN textured = DOMAIN freed /\ textured.builds = freed.builds /\ textured.drapes = freed.drapes
          /\ DOMAIN textured.tiles = DOMAIN freed.tiles
      BY <1>2, <2>1, Fields DEF MemoryOK
    <3> HIDE DEF textured
    <3> QED
      BY <1>2, <3>1, SameBuilds DEF Bare
  <2> QED
    BY <1>2, <2>1
<1> HIDE DEF textured
<1>4. Kept(p.m, dropped)
  BY <1>3, DropFacts
<1> HIDE DEF dropped
<1>5. Kept(p.m, pruned)
  BY <1>4, PruneFacts
<1> HIDE DEF pruned
<1>6. Kept(p.m, told)
  <2> DEFINE A == pruned.builds[b].asked \ {l}
  <2>1. /\ DOMAIN told = DOMAIN pruned /\ told.drapes = pruned.drapes /\ told.tiles = pruned.tiles
        /\ told.builds = [pruned.builds EXCEPT ![b].asked = A]
    BY <1>5, Fields DEF MemoryOK
  <2>2. b \in DOMAIN pruned.builds => IsFiniteSet(A)
    BY <1>5, FS_RemoveElement DEF MemoryOK
  <2> HIDE DEF told, A
  <2>3. MemoryOK(told)
    BY <1>5, <2>1, <2>2, AskersFinite
  <2> QED
    BY <1>5, <2>1, <2>3 DEF Bare
<1>7. q = [p EXCEPT !.m = told, !.again = @ \/ (done /\ s1mActive /\ l.seq = seq),
                    !.missed = @ \/ (there /\ (~done \/ l.seq # seq))]
  BY DEF SubTileTold, there, x, key, done, freed, textured, dropped, pruned
<1> HIDE DEF told, q
<1>8. DOMAIN q = DOMAIN p /\ q.m = told /\ q.missed = (p.missed \/ (there /\ (~done \/ l.seq # seq)))
  BY <1>7 DEF PaintOK
<1>9. q.missed \in BOOLEAN
  BY <1>8
<1> QED
  BY <1>6, <1>8, <1>9 DEF PaintOK, q

LEMMA FewTellings == ASSUME NEW m, MemoryOK(m) PROVE Cardinality(Tellings(m)) \in Nat
<1> DEFINE settled == {c \in DOMAIN m.builds : m.builds[c].state # "run"}
           of == [b \in settled |-> {<<b, l>> : l \in m.builds[b].asked}]
           sets == {{<<b, l>> : l \in m.builds[b].asked} : b \in settled}
<1>1. IsFiniteSet(settled)
  <2>1. settled \in SUBSET DOMAIN m.builds
    OBVIOUS
  <2> QED
    BY <2>1, FS_Subset DEF MemoryOK
<1>2. IsFiniteSet(sets)
  <2>1. of \in Surjection(settled, sets)
    <3> HIDE DEF settled
    <3> QED
      BY DEF Surjection
  <2> HIDE DEF settled, of, sets
  <2> QED
    BY <1>1, <2>1, FS_Surjection
<1>3. ASSUME NEW b \in settled PROVE IsFiniteSet({<<b, l>> : l \in m.builds[b].asked})
  <2> DEFINE A == m.builds[b].asked
             f == [l \in A |-> <<b, l>>]
  <2>1. IsFiniteSet(A)
    BY DEF MemoryOK
  <2> HIDE DEF A
  <2>2. f \in Surjection(A, {<<b, l>> : l \in A})
    BY DEF Surjection
  <2>3. IsFiniteSet({<<b, l>> : l \in A})
    <3> HIDE DEF f
    <3> QED
      BY <2>1, <2>2, FS_Surjection
  <2> QED
    BY <2>3 DEF A
<1>4. IsFiniteSet(UNION sets)
  <2>1. \A T \in sets : IsFiniteSet(T)
    BY <1>3
  <2> HIDE DEF sets
  <2> QED
    BY <1>2, <2>1, FS_UNION
<1> QED
  BY <1>4, FS_CardinalityType DEF Tellings

LEMMA TellOneFacts ==
  ASSUME NEW p, PaintOK(p)
  PROVE  PaintOK(TellOne(p)) /\ (Bare(p.m) => Bare(TellOne(p).m))
<1> DEFINE x == CHOOSE y \in Tellings(p.m) : TRUE
<1>1. TellOne(p) = SubTileTold(p, x[1], x[2])
  BY DEF TellOne
<1> HIDE DEF x
<1> QED
  BY <1>1, ToldFacts

LEMMA TellFacts ==
  ASSUME NEW p, PaintOK(p)
  PROVE  PaintOK(Tell(p)) /\ (Bare(p.m) => Bare(Tell(p).m))
<1> DEFINE m == Cardinality(Tellings(p.m))
           goes(k, f) == f = [n \in 0..k |-> IF n = 0 THEN p ELSE TellOne(f[n - 1])]
           P == {k \in 0..m : \E f : goes(k, f)}
           told == CHOOSE f : goes(m, f)
           q == told[m]
<1>1. m \in Nat
  BY FewTellings DEF PaintOK
<1>2. Tell(p) = [q EXCEPT !.m = Tidy(@)]
  BY DEF Tell
<1> HIDE DEF m
<1>3. 0 \in P
  <2>1. goes(0, [n \in 0..0 |-> p])
    OBVIOUS
  <2> HIDE DEF goes
  <2> QED
    BY <1>1, <2>1
<1>4. \A k \in 1..m : k - 1 \in P => k \in P
  <2> SUFFICES ASSUME NEW k \in 1..m, k - 1 \in P PROVE k \in P
    OBVIOUS
  <2>1. PICK f : goes(k - 1, f)
    OBVIOUS
  <2> DEFINE g == [n \in 0..k |-> IF n = k THEN TellOne(f[k - 1]) ELSE f[n]]
  <2>2. \A n \in 0..k : g[n] = IF n = 0 THEN p ELSE TellOne(g[n - 1])
    <3> SUFFICES ASSUME NEW n \in 0..k PROVE g[n] = IF n = 0 THEN p ELSE TellOne(g[n - 1])
      OBVIOUS
    <3>1. CASE n = k
      <4>1. n - 1 \in 0..k /\ n - 1 # k /\ n # 0
        BY <3>1, <1>1
      <4> QED
        BY <3>1, <4>1
    <3>2. CASE n # k /\ n # 0
      <4>1. n - 1 \in 0..k /\ n - 1 # k /\ n \in 0..k - 1
        BY <3>2, <1>1
      <4> QED
        BY <3>2, <4>1, <2>1
    <3>3. CASE n # k /\ n = 0
      BY <3>3, <2>1
    <3> QED
      BY <3>1, <3>2, <3>3
  <2>3. goes(k, g)
    BY <2>2
  <2> HIDE DEF goes, g
  <2> QED
    BY <2>3
<1>5. m \in P
  <2> HIDE DEF P
  <2>1. 0..m \subseteq P
    BY <1>1, <1>3, <1>4, UpTo
  <2> QED
    BY <1>1, <2>1
<1>6. goes(m, told)
  BY <1>5
<1> HIDE DEF told
<1>7. told[0] = p /\ \A n \in 1..m : told[n] = TellOne(told[n - 1])
  BY <1>1, <1>6
<1> DEFINE Q == {k \in 0..m : PaintOK(told[k]) /\ (Bare(p.m) => Bare(told[k].m))}
<1>8. 0..m \subseteq Q
  <2>1. 0 \in Q
    BY <1>1, <1>7
  <2>2. \A k \in 1..m : k - 1 \in Q => k \in Q
    BY <1>1, <1>7, TellOneFacts
  <2> HIDE DEF Q
  <2> QED
    BY <1>1, <2>1, <2>2, UpTo
<1>9. PaintOK(q) /\ (Bare(p.m) => Bare(q.m))
  BY <1>1, <1>8
<1> HIDE DEF q
<1>10. DOMAIN Tell(p) = DOMAIN q /\ Tell(p).m = Tidy(q.m) /\ Tell(p).missed = q.missed
  BY <1>2, <1>9 DEF PaintOK
<1> QED
  BY <1>9, <1>10, TidyFacts DEF PaintOK, Bare

LEMMA BuildLayersFacts ==
  ASSUME NEW p, PaintOK(p), NEW t, NEW c, NEW s
  PROVE  PaintOK(s1mBuildTileLayers(p, t, c, s))
<1> DEFINE n == Subdivision(p.m, c[1])
           stale == {x \in Subs(p.m) : x[1] = c /\ x[2] # n /\ Sub(p.m, x) = Plain}
           kept == Dropping(p.m.tiles[c], {x[2] : x \in stale})
           a == Detach(p.m, stale)
           fresh == IF n \in DOMAIN kept THEN kept ELSE With(kept, n, Plain)
           cut == [a EXCEPT !.tiles[c] = fresh]
           pc == [p EXCEPT !.m = cut]
           q == ensureSubTileDrape(pc, c, n, s)
           own == q.m.tiles[c][n].drape
           others == {x \in Subs(q.m) : x[1][1] = c[1] /\ x # <<c, n>> /\ Sub(q.m, x).drape # Absent}
           shaded == IF own # Absent \/ others = {} THEN {<<c, n, own>>}
                    ELSE {<<x[1], x[2], Sub(q.m, x).drape>> : x \in others}
           lower == {x \in DOMAIN q.m.tiles : x[1] = c[1] /\ x # t}
           r == s1mBuildTileLayers(p, t, c, s)
<1> HIDE DEF n, stale, fresh
<1>1. MemoryOK(a)
  BY DetachFacts DEF PaintOK
<1>2. DOMAIN cut = DOMAIN a /\ cut.builds = a.builds /\ cut.drapes = a.drapes
  BY <1>1, Fields DEF MemoryOK
<1>3. MemoryOK(cut)
  <2> HIDE DEF cut, a
  <2> QED
    BY <1>1, <1>2, SameBuilds
<1>4. PaintOK(pc)
  <2> HIDE DEF cut
  <2> QED
    BY <1>3 DEF PaintOK
<1>5. PaintOK(q)
  <2> HIDE DEF pc
  <2> QED
    BY <1>4, EnsureFacts
<1>6. r = [q EXCEPT !.drawn = @ \cup shaded,
                    !.m = IF c = t /\ own # Absent THEN disposeS1MTileCache(@, lower) ELSE @]
  BY DEF s1mBuildTileLayers, n, stale, fresh
<1> HIDE DEF q, own, shaded, lower, r
<1>7. DOMAIN r = DOMAIN q /\ r.missed = q.missed /\ (r.m = q.m \/ r.m = disposeS1MTileCache(q.m, lower))
  BY <1>5, <1>6 DEF PaintOK
<1> QED
  BY <1>5, <1>7, DisposeFacts DEF PaintOK, r

LEMMA PaintTileFacts ==
  ASSUME NEW p, PaintOK(p), NEW t, NEW s
  PROVE  PaintOK(PaintTile(p, t, s))
<1> DEFINE q == PaintTile(p, t, s)
<1>1. q = p \/ (\E c : q = s1mBuildTileLayers(p, t, c, s)) \/ \E w : q = [p EXCEPT !.drawn = w]
  BY DEF PaintTile
<1>2. ASSUME NEW w, q = [p EXCEPT !.drawn = w] PROVE PaintOK(q)
  BY <1>2 DEF PaintOK
<1> QED
  BY <1>1, <1>2, BuildLayersFacts

LEMMA PaintFacts ==
  ASSUME NEW memory0, MemoryOK(memory0), NEW S, NEW needed \in Seq(S), NEW s
  PROVE  PaintOK(Paint(memory0, needed, s))
<1> DEFINE m == Len(needed)
           goes(k, f) == f = [n \in 0..k |-> IF n = 0 THEN Fresh(memory0) ELSE PaintTile(f[n - 1], needed[n], s)]
           P == {k \in 0..m : \E f : goes(k, f)}
           painted == CHOOSE f : goes(m, f)
           q == painted[m]
<1>1. m \in Nat
  OBVIOUS
<1>2. Paint(memory0, needed, s) = Tell(q)
  BY DEF Paint
<1> HIDE DEF m
<1>3. 0 \in P
  <2>1. goes(0, [n \in 0..0 |-> Fresh(memory0)])
    OBVIOUS
  <2> HIDE DEF goes
  <2> QED
    BY <1>1, <2>1
<1>4. \A k \in 1..m : k - 1 \in P => k \in P
  <2> SUFFICES ASSUME NEW k \in 1..m, k - 1 \in P PROVE k \in P
    OBVIOUS
  <2>1. PICK f : goes(k - 1, f)
    OBVIOUS
  <2> DEFINE g == [n \in 0..k |-> IF n = k THEN PaintTile(f[k - 1], needed[k], s) ELSE f[n]]
  <2>2. \A n \in 0..k : g[n] = IF n = 0 THEN Fresh(memory0) ELSE PaintTile(g[n - 1], needed[n], s)
    <3> SUFFICES ASSUME NEW n \in 0..k
                 PROVE  g[n] = IF n = 0 THEN Fresh(memory0) ELSE PaintTile(g[n - 1], needed[n], s)
      OBVIOUS
    <3>1. CASE n = k
      <4>1. n - 1 \in 0..k /\ n - 1 # k /\ n # 0
        BY <3>1, <1>1
      <4> QED
        BY <3>1, <4>1
    <3>2. CASE n # k /\ n # 0
      <4>1. n - 1 \in 0..k /\ n - 1 # k /\ n \in 0..k - 1
        BY <3>2, <1>1
      <4> QED
        BY <3>2, <4>1, <2>1
    <3>3. CASE n # k /\ n = 0
      BY <3>3, <2>1
    <3> QED
      BY <3>1, <3>2, <3>3
  <2>3. goes(k, g)
    BY <2>2
  <2> HIDE DEF goes, g
  <2> QED
    BY <2>3
<1>5. m \in P
  <2> HIDE DEF P
  <2>1. 0..m \subseteq P
    BY <1>1, <1>3, <1>4, UpTo
  <2> QED
    BY <1>1, <2>1
<1>6. goes(m, painted)
  BY <1>5
<1> HIDE DEF painted
<1>7. painted[0] = Fresh(memory0) /\ \A n \in 1..m : painted[n] = PaintTile(painted[n - 1], needed[n], s)
  BY <1>1, <1>6
<1> DEFINE Q == {k \in 0..m : PaintOK(painted[k])}
<1>8. 0..m \subseteq Q
  <2>1. 0 \in Q
    <3>1. PaintOK(Fresh(memory0))
      <4>1. /\ DOMAIN Fresh(memory0) = {"m", "again", "drawn", "missed"}
            /\ Fresh(memory0).m = memory0 /\ Fresh(memory0).missed = FALSE
        BY DEF Fresh
      <4> QED
        BY <4>1 DEF PaintOK
    <3> QED
      BY <1>1, <1>7, <3>1
  <2>2. \A k \in 1..m : k - 1 \in Q => k \in Q
    BY <1>1, <1>7, PaintTileFacts
  <2> HIDE DEF Q
  <2> QED
    BY <1>1, <2>1, <2>2, UpTo
<1>9. PaintOK(q)
  BY <1>1, <1>8
<1> QED
  BY <1>2, <1>9, TellFacts

RefreshOK(r) ==
  /\ DOMAIN r = {"phase", "box", "desired", "missing", "reading", "queued", "frames"}
  /\ r.phase \in {"tiles", "reading", "done"} /\ r.frames \in Nat
  /\ r.box \in Seq(Datasets) /\ \E S : r.desired \in Seq(S)
RefreshesOK(rs, n) == DOMAIN rs \subseteq 1..n /\ \A s \in DOMAIN rs : RefreshOK(rs[s])

Flags == {small, surface, s1mActive, handled, due, missed} \subseteq BOOLEAN
Counts ==
  /\ acts \in Nat /\ faults \in Nat /\ acts + faults <= MaxActs
  /\ revision \in Nat /\ revision <= acts
  /\ button \in {"free", "loading"} \cup {ToString(s) : s \in 1..seq}
Cleared == ~s1mActive => Bare(memory) /\ layers = {} /\ wanted = <<>> /\ seq \notin DOMAIN refreshes

TerrainInv ==
  /\ position \in Positions /\ Flags /\ Counts
  /\ seq \in Nat /\ RefreshesOK(refreshes, seq)
  /\ MemoryOK(memory)
  /\ Cleared

LEMMA GoingFacts ==
  ASSUME NEW n, NEW rs, RefreshesOK(rs, n), NEW s
  PROVE  RefreshesOK(Going(rs, s), n) /\ DOMAIN Going(rs, s) \subseteq DOMAIN rs
BY DEF RefreshesOK, Going, Dropping

LEMMA WithFacts ==
  ASSUME NEW n \in Nat, NEW rs, RefreshesOK(rs, n), NEW k \in Nat, n <= k, NEW s \in 1..k, NEW r, RefreshOK(r)
  PROVE  RefreshesOK(With(rs, s, r), k) /\ DOMAIN With(rs, s, r) = DOMAIN rs \cup {s}
BY DEF RefreshesOK, With

LEMMA EndingFacts ==
  ASSUME TerrainInv, NEW s \in DOMAIN refreshes, NEW r, RefreshOK(r)
  PROVE  RefreshesOK(Ending(s, r), seq) /\ DOMAIN Ending(s, r) \subseteq DOMAIN refreshes
<1>1. s \in 1..seq /\ seq \in Nat /\ RefreshesOK(refreshes, seq)
  BY DEF TerrainInv, RefreshesOK
<1>2. RefreshesOK(With(refreshes, s, r), seq) /\ DOMAIN With(refreshes, s, r) = DOMAIN refreshes \cup {s}
  BY <1>1, WithFacts
<1> QED
  BY <1>2, GoingFacts DEF Ending

LEMMA AskedFacts ==
  ASSUME NEW r, RefreshOK(r), NEW again
  PROVE  RefreshOK(Asked(r, again))
BY DEF RefreshOK, Asked

LEMMA RefreshFacts ==
  ASSUME TerrainInv, NEW on, Refresh(on)
  PROVE  /\ seq' \in Nat /\ seq <= seq' /\ RefreshesOK(refreshes', seq')
         /\ ~on => UNCHANGED <<seq, refreshes>>
         /\ on => seq' = seq + 1
<1>1. CASE ~on
  BY <1>1 DEF Refresh, TerrainInv
<1>2. CASE on
  <2> DEFINE r == [phase |-> "tiles", box |-> Covers[position], desired |-> <<>>, missing |-> <<>>,
                   reading |-> {}, queued |-> FALSE, frames |-> 0]
  <2>1. seq' = seq + 1 /\ refreshes' = With(Going(refreshes, seq'), seq', r)
    BY <1>2 DEF Refresh
  <2>2. RefreshOK(r)
    <3>1. <<>> \in Seq({})
      OBVIOUS
    <3> QED
      BY <3>1, TerrainAssumption DEF TerrainInv, RefreshOK
  <2> HIDE DEF r
  <2>3. RefreshesOK(Going(refreshes, seq'), seq) /\ seq \in Nat
    BY GoingFacts DEF TerrainInv
  <2>4. seq' \in Nat /\ seq <= seq' /\ seq' \in 1..seq'
    BY <2>1, <2>3
  <2> QED
    BY <1>2, <2>1, <2>2, <2>3, <2>4, WithFacts
<1> QED
  BY <1>1, <1>2

LEMMA ButtonStays ==
  ASSUME TerrainInv, seq' \in Nat, seq <= seq', UNCHANGED button
  PROVE  button' \in {"free", "loading"} \cup {ToString(s) : s \in 1..seq'}
<1>1. \A s \in 1..seq : s \in 1..seq'
  BY DEF TerrainInv
<1> QED
  BY <1>1 DEF TerrainInv, Counts

LEMMA TerrainInitInv == TerrainInit => TerrainInv
<1> SUFFICES ASSUME TerrainInit PROVE TerrainInv
  OBVIOUS
<1>1. DOMAIN memory = DOMAIN Empty /\ memory.builds = <<>> /\ memory.drapes = <<>> /\ memory.tiles = <<>>
  BY DEF TerrainInit, Empty
<1>2. <<>> \in Seq({}) /\ DOMAIN <<>> = {}
  OBVIOUS
<1>3. MemoryOK(memory) /\ Bare(memory)
  BY <1>1, <1>2, FS_EmptySet DEF MemoryOK, Bare
<1>4. RefreshesOK(refreshes, seq)
  BY <1>2 DEF TerrainInit, RefreshesOK
<1>5. Counts
  BY TerrainAssumption DEF TerrainInit, Counts
<1> QED
  BY <1>2, <1>3, <1>4, <1>5, TerrainAssumption DEF TerrainInit, TerrainInv, Flags, Cleared

LEMMA ActCounts ==
  ASSUME TerrainInv
  PROVE  /\ Acting => acts' \in Nat /\ acts' = acts + 1 /\ UNCHANGED faults /\ acts' + faults' <= MaxActs
         /\ Fault => faults' \in Nat /\ acts + faults' <= MaxActs
<1>1. acts \in Nat /\ faults \in Nat
  BY DEF TerrainInv, Counts
<1>2. MaxActs \in Nat
  BY TerrainAssumption
<1> QED
  BY <1>1, <1>2 DEF Acting, Fault

\* What the user does, and what it asks for.
LEMMA KeptByUser ==
  ASSUME TerrainInv,
         ImageryChanges \/ CollectionChanges \/ PickSurface \/ rebuildS1MLayers \/ (\E v \in Positions : MoveTerrain(v))
  PROVE  TerrainInv'
<1>1. Acting
  BY DEF ImageryChanges, CollectionChanges, PickSurface, rebuildS1MLayers, MoveTerrain
<1>2. acts' \in Nat /\ acts' = acts + 1 /\ UNCHANGED faults /\ acts' + faults' <= MaxActs
  BY <1>1, ActCounts
<1>3. CASE ImageryChanges
  <2>1. MemoryOK(memory') /\ (Bare(memory) => Bare(memory'))
    BY <1>3, ForgetFacts, TidyFacts DEF ImageryChanges, Bare, TerrainInv
  <2> DEFINE on == s1mActive /\ drapeImageryActive
  <2>2. Refresh(on)
    BY <1>3 DEF ImageryChanges
  <2>3. /\ seq' \in Nat /\ seq <= seq' /\ RefreshesOK(refreshes', seq')
        /\ ~on => UNCHANGED <<seq, refreshes>>
    <3> HIDE DEF on
    <3> QED
      BY <2>2, RefreshFacts
  <2>4. button' \in {"free", "loading"} \cup {ToString(s) : s \in 1..seq'}
    BY <1>3, <2>3, ButtonStays DEF ImageryChanges
  <2>5. Counts'
    BY <1>2, <1>3, <2>4 DEF ImageryChanges, TerrainInv, Counts
  <2>6. Cleared'
    BY <1>3, <2>1, <2>3 DEF ImageryChanges, TerrainInv, Cleared
  <2>7. Flags' /\ position' \in Positions
    BY <1>3 DEF ImageryChanges, TerrainInv, Flags
  <2> QED
    BY <2>1, <2>3, <2>5, <2>6, <2>7 DEF TerrainInv
<1>4. CASE CollectionChanges
  <2>1. MemoryOK(memory') /\ (Bare(memory) => Bare(memory'))
    BY <1>4, ForgetFacts, TidyFacts DEF CollectionChanges, Bare, TerrainInv
  <2>2. Counts' /\ Cleared'
    BY <1>2, <1>4, <2>1 DEF CollectionChanges, TerrainInv, Counts, Cleared
  <2>3. Flags' /\ position' \in Positions /\ seq' \in Nat /\ RefreshesOK(refreshes', seq')
    BY <1>4 DEF CollectionChanges, TerrainInv, Flags
  <2> QED
    BY <2>1, <2>2, <2>3 DEF TerrainInv
<1>5. CASE PickSurface
  <2>1. Refresh(s1mActive)
    BY <1>5 DEF PickSurface
  <2>2. /\ seq' \in Nat /\ seq <= seq' /\ RefreshesOK(refreshes', seq')
        /\ ~s1mActive => UNCHANGED <<seq, refreshes>>
    BY <2>1, RefreshFacts
  <2>3. button' \in {"free", "loading"} \cup {ToString(s) : s \in 1..seq'}
    BY <1>5, <2>2, ButtonStays DEF PickSurface
  <2>4. Counts'
    BY <1>2, <1>5, <2>3 DEF PickSurface, TerrainInv, Counts
  <2>5. Cleared'
    BY <1>5, <2>2 DEF PickSurface, TerrainInv, Cleared
  <2>6. surface' \in BOOLEAN
    BY <1>5 DEF PickSurface
  <2>7. Flags' /\ position' \in Positions
    BY <1>5, <2>6 DEF PickSurface, TerrainInv, Flags
  <2> QED
    BY <1>5, <2>2, <2>4, <2>5, <2>7 DEF TerrainInv, PickSurface
<1>6. CASE rebuildS1MLayers
  <2>1. Counts' /\ Cleared' /\ Flags'
    BY <1>2, <1>6 DEF rebuildS1MLayers, TerrainInv, Counts, Cleared, Flags
  <2> QED
    BY <1>6, <2>1 DEF rebuildS1MLayers, TerrainInv
<1>7. ASSUME NEW v \in Positions, MoveTerrain(v) PROVE TerrainInv'
  <2>1. due' \in BOOLEAN
    BY <1>7 DEF MoveTerrain
  <2>2. Counts' /\ Cleared' /\ Flags'
    BY <1>2, <1>7, <2>1 DEF MoveTerrain, TerrainInv, Counts, Cleared, Flags
  <2> QED
    BY <1>7, <2>2 DEF MoveTerrain, TerrainInv
<1> QED
  BY <1>3, <1>4, <1>5, <1>6, <1>7

\* Refreshes that were due, and the terrain switched on and off.
LEMMA KeptBySwitches ==
  ASSUME TerrainInv, RefreshDue \/ Enable \/ Enabled \/ clearS1MTerrain
  PROVE  TerrainInv'
<1>1. CASE RefreshDue
  <2>1. Refresh(s1mActive)
    BY <1>1 DEF RefreshDue
  <2>2. /\ seq' \in Nat /\ seq <= seq' /\ RefreshesOK(refreshes', seq')
        /\ ~s1mActive => UNCHANGED <<seq, refreshes>>
    BY <2>1, RefreshFacts
  <2>3. button' \in {"free", "loading"} \cup {ToString(s) : s \in 1..seq'}
    BY <1>1, <2>2, ButtonStays DEF RefreshDue
  <2>4. Counts' /\ Cleared' /\ Flags'
    BY <1>1, <2>2, <2>3 DEF RefreshDue, TerrainInv, Counts, Cleared, Flags
  <2> QED
    BY <1>1, <2>2, <2>4 DEF RefreshDue, TerrainInv
<1>2. CASE Enable
  <2>1. Counts' /\ Cleared' /\ Flags'
    BY <1>2 DEF Enable, TerrainInv, Counts, Cleared, Flags
  <2> QED
    BY <1>2, <2>1 DEF Enable, TerrainInv
<1>3. CASE Enabled
  <2>1. /\ seq' \in Nat /\ seq <= seq' /\ RefreshesOK(refreshes', seq')
        /\ s1mActive' \in BOOLEAN /\ handled' \in BOOLEAN
        /\ button' \in {"free", "loading"} \cup {ToString(s) : s \in 1..seq'}
        /\ faults' \in Nat /\ acts + faults' <= MaxActs
        /\ s1mActive' = TRUE \/ UNCHANGED <<s1mActive, seq, refreshes>>
    <3>1. CASE s1mActive' = TRUE /\ handled' = TRUE /\ Refresh(TRUE) /\ button' = ToString(seq') /\ UNCHANGED faults
      <4>1. seq' \in Nat /\ seq <= seq' /\ RefreshesOK(refreshes', seq') /\ seq' = seq + 1
        BY <3>1, RefreshFacts
      <4>2. seq' \in 1..seq'
        BY <4>1 DEF TerrainInv
      <4> QED
        BY <3>1, <4>1, <4>2 DEF TerrainInv, Counts
    <3>2. CASE Fault /\ button' = "free" /\ UNCHANGED <<s1mActive, handled, seq, refreshes>>
      <4>1. faults' \in Nat /\ acts + faults' <= MaxActs
        BY <3>2, ActCounts
      <4> QED
        BY <3>2, <4>1 DEF TerrainInv, Flags
    <3> QED
      BY <1>3, <3>1, <3>2 DEF Enabled
  <2>2. Counts'
    BY <1>3, <2>1 DEF Enabled, TerrainInv, Counts
  <2>3. Cleared' /\ Flags'
    BY <1>3, <2>1 DEF Enabled, TerrainInv, Cleared, Flags
  <2> QED
    BY <1>3, <2>1, <2>2, <2>3 DEF Enabled, TerrainInv
<1>4. CASE clearS1MTerrain
  <2> DEFINE a == disposeS1MTileCache(memory, DOMAIN memory.tiles)
             b == releaseS1MDrapeMemory(a)
  <2>1. memory' = Tidy(b)
    BY <1>4 DEF clearS1MTerrain
  <2>2. MemoryOK(a) /\ DOMAIN a.tiles = {}
    BY DisposeFacts DEF TerrainInv
  <2> HIDE DEF a
  <2>3. MemoryOK(b) /\ Bare(b)
    BY <2>2, ForgetFacts DEF Bare
  <2> HIDE DEF b
  <2>4. MemoryOK(memory') /\ Bare(memory')
    BY <2>1, <2>3, TidyFacts DEF Bare
  <2>5. seq' \in Nat /\ seq' = seq + 1 /\ seq <= seq'
    BY <1>4 DEF clearS1MTerrain, TerrainInv
  <2>6. RefreshesOK(refreshes', seq) /\ DOMAIN refreshes' \subseteq DOMAIN refreshes
    BY <1>4, GoingFacts DEF clearS1MTerrain, TerrainInv
  <2>7. RefreshesOK(refreshes', seq') /\ seq' \notin DOMAIN refreshes'
    BY <2>5, <2>6 DEF RefreshesOK, TerrainInv
  <2>8. button' \in {"free", "loading"} \cup {ToString(s) : s \in 1..seq'}
    BY <1>4, <2>5, ButtonStays DEF clearS1MTerrain
  <2>9. acts' \in Nat /\ acts' = acts + 1 /\ acts' + faults' <= MaxActs /\ UNCHANGED faults
    BY <1>4, ActCounts DEF clearS1MTerrain
  <2>10. Counts'
    BY <1>4, <2>8, <2>9 DEF clearS1MTerrain, TerrainInv, Counts
  <2>11. Cleared' /\ Flags'
    BY <1>4, <2>4, <2>7 DEF clearS1MTerrain, TerrainInv, Cleared, Flags
  <2> QED
    BY <1>4, <2>4, <2>5, <2>7, <2>10, <2>11 DEF clearS1MTerrain, TerrainInv
<1> QED
  BY <1>1, <1>2, <1>3, <1>4

\* A refresh goes on: overtaken, it only ends.
LEMMA RefreshEnds ==
  ASSUME TerrainInv, NEW s \in DOMAIN refreshes, NEW r, RefreshOK(r), refreshes' = Ending(s, r),
         UNCHANGED <<position, small, surface, s1mActive, handled, due, button, revision, seq, acts>>,
         UNCHANGED faults \/ Fault,
         MemoryOK(memory'), missed' \in BOOLEAN,
         s = seq \/ UNCHANGED <<wanted, memory, layers>>
  PROVE  TerrainInv'
<1>1. RefreshesOK(refreshes', seq) /\ DOMAIN refreshes' \subseteq DOMAIN refreshes
  BY EndingFacts
<1>2. faults' \in Nat /\ acts + faults' <= MaxActs
  <2>1. CASE UNCHANGED faults
    BY <2>1 DEF TerrainInv, Counts
  <2>2. CASE Fault
    BY <2>2, ActCounts
  <2> QED
    BY <2>1, <2>2
<1>3. Counts' /\ Flags'
  BY <1>2 DEF TerrainInv, Counts, Flags
<1>4. Cleared'
  BY <1>1 DEF TerrainInv, Cleared
<1> QED
  BY <1>1, <1>3, <1>4 DEF TerrainInv

LEMMA PaintedFacts ==
  ASSUME TerrainInv, NEW r, RefreshOK(r), NEW m, MemoryOK(m), NEW s, Painted(r, m, s)
  PROVE  /\ MemoryOK(memory') /\ missed' \in BOOLEAN
         /\ \E x : RefreshOK(x) /\ refreshes' = Ending(s, x)
<1> DEFINE p == Paint(m, r.desired, s)
           x == Asked([r EXCEPT !.queued = FALSE], p.again)
<1>1. memory' = p.m /\ missed' = p.missed /\ refreshes' = Ending(s, x)
  BY DEF Painted
<1>2. PaintOK(p)
  BY PaintFacts DEF RefreshOK
<1>3. RefreshOK([r EXCEPT !.queued = FALSE])
  BY DEF RefreshOK
<1>4. RefreshOK(x)
  BY <1>3, AskedFacts
<1> QED
  BY <1>1, <1>2, <1>4 DEF PaintOK

LEMMA ReadersGoOn ==
  ASSUME NEW r, RefreshOK(r), NEW t
  PROVE  RefreshOK(Taken(r, t)) /\ RefreshOK(Left(r, t))
BY DEF RefreshOK, Taken, Left

LEMMA KeptByTilesAnswer ==
  ASSUME TerrainInv, NEW s \in DOMAIN refreshes, TilesAnswer(s)
  PROVE  TerrainInv'
<1>1. RefreshOK(refreshes[s])
  BY DEF TerrainInv, RefreshesOK
<1>2. missed' \in BOOLEAN
  BY DEF TilesAnswer, TerrainInv, Flags
<1>3. CASE s # seq
  <2> DEFINE r == [refreshes[s] EXCEPT !.phase = "done"]
  <2>1. refreshes' = Ending(s, r) /\ UNCHANGED <<wanted, memory, layers>>
    BY <1>3 DEF TilesAnswer
  <2>2. RefreshOK(r)
    BY <1>1 DEF RefreshOK
  <2>3. MemoryOK(memory')
    BY <2>1 DEF TerrainInv
  <2> HIDE DEF r
  <2> QED
    BY <1>2, <2>1, <2>2, <2>3, RefreshEnds DEF TilesAnswer
<1>4. CASE s = seq
  <2> DEFINE needed == [i \in DOMAIN refreshes[s].box |-> <<refreshes[s].box[i], Lod[position]>>]
             away == {t \in DOMAIN memory.tiles : t[1] \notin ToSet(refreshes[s].box)}
             missing == SelectSeq(needed, LAMBDA t : t \notin DOMAIN memory.tiles)
             first == Smaller(Readers, Len(missing))
             kept == disposeS1MTileCache(memory, away)
             cut == [kept EXCEPT !.ratchet = [d \in Datasets |-> IF \E t \in away : t[1] = d THEN 0 ELSE @[d]]]
             r == [refreshes[s] EXCEPT
                     !.phase = IF missing = <<>> THEN "done" ELSE "reading",
                     !.desired = needed, !.reading = {missing[i] : i \in 1..first},
                     !.missing = SubSeq(missing, first + 1, Len(missing))]
  <2>1. memory' = Tidy(pruneS1MDrapeCache(cut)) /\ refreshes' = Ending(s, Asked(r, TRUE))
    BY <1>4 DEF TilesAnswer
  <2>2. MemoryOK(memory')
    <3>1. MemoryOK(kept)
      BY DisposeFacts DEF TerrainInv
    <3>2. DOMAIN cut = DOMAIN kept /\ cut.builds = kept.builds /\ cut.drapes = kept.drapes
      BY <3>1, Fields DEF MemoryOK
    <3> HIDE DEF kept, cut
    <3>3. MemoryOK(cut)
      BY <3>1, <3>2, SameBuilds
    <3> QED
      BY <2>1, <3>3, PruneFacts, TidyFacts
  <2>3. RefreshOK(r)
    <3>1. needed \in Seq({needed[i] : i \in DOMAIN needed})
      BY <1>1 DEF RefreshOK
    <3> HIDE DEF needed, missing, first
    <3> QED
      BY <1>1, <3>1 DEF RefreshOK
  <2> HIDE DEF r
  <2>4. RefreshOK(Asked(r, TRUE))
    BY <2>3, AskedFacts
  <2> QED
    BY <1>2, <1>4, <2>1, <2>2, <2>4, RefreshEnds DEF TilesAnswer
<1> QED
  BY <1>3, <1>4

LEMMA KeptByRefresh ==
  ASSUME TerrainInv, NEW s \in DOMAIN refreshes,
         TilesFail(s) \/ Frame(s) \/ \E t \in refreshes[s].reading : TileRead(s, t) \/ TileReadFails(s, t)
  PROVE  TerrainInv'
<1>1. RefreshOK(refreshes[s]) /\ MemoryOK(memory) /\ missed \in BOOLEAN
  BY DEF TerrainInv, RefreshesOK, Flags
<1>2. CASE TilesFail(s)
  <2> DEFINE r == [refreshes[s] EXCEPT !.phase = "done"]
  <2>1. refreshes' = Ending(s, r) /\ UNCHANGED <<wanted, memory, layers>> /\ missed' \in BOOLEAN /\ Fault
    BY <1>2 DEF TilesFail
  <2>2. RefreshOK(r) /\ MemoryOK(memory')
    BY <1>1, <2>1 DEF RefreshOK
  <2> HIDE DEF r
  <2> QED
    BY <1>2, <2>1, <2>2, RefreshEnds DEF TilesFail
<1>3. CASE Frame(s)
  <2> DEFINE r == [refreshes[s] EXCEPT !.frames = @ - 1, !.queued = FALSE]
  <2>1. RefreshOK(r)
    BY <1>1, <1>3 DEF RefreshOK, Frame
  <2>2. CASE s = seq
    <3>1. Painted(r, memory, s)
      BY <1>3, <2>2 DEF Frame
    <3> HIDE DEF r
    <3> QED
      BY <1>1, <1>3, <2>1, <2>2, <3>1, PaintedFacts, RefreshEnds DEF Frame
  <2>3. CASE s # seq
    <3>1. refreshes' = Ending(s, r) /\ UNCHANGED <<memory, layers, missed>>
      BY <1>3, <2>3 DEF Frame
    <3> HIDE DEF r
    <3> QED
      BY <1>1, <1>3, <2>1, <3>1, RefreshEnds DEF Frame
  <2> QED
    BY <2>2, <2>3
<1>4. ASSUME NEW t \in refreshes[s].reading, TileRead(s, t) PROVE TerrainInv'
  <2>1. CASE s = seq
    <3> DEFINE more == [memory EXCEPT !.tiles = With(@, t, <<>>)]
               m == pruneS1MDrapeCache(more)
    <3>1. Painted(Taken(refreshes[s], t), m, s)
      BY <1>4, <2>1 DEF TileRead
    <3>2. DOMAIN more = DOMAIN memory /\ more.builds = memory.builds /\ more.drapes = memory.drapes
      BY <1>1, Fields DEF MemoryOK
    <3> HIDE DEF more
    <3>3. MemoryOK(m)
      BY <1>1, <3>2, SameBuilds, PruneFacts
    <3> HIDE DEF m
    <3>4. RefreshOK(Taken(refreshes[s], t))
      BY <1>1, ReadersGoOn
    <3> QED
      BY <1>4, <2>1, <3>1, <3>3, <3>4, PaintedFacts, RefreshEnds DEF TileRead
  <2>2. CASE s # seq
    <3>1. RefreshOK(Left(refreshes[s], t))
      BY <1>1, ReadersGoOn
    <3> QED
      BY <1>1, <1>4, <2>2, <3>1, RefreshEnds DEF TileRead
  <2> QED
    BY <2>1, <2>2
<1>5. ASSUME NEW t \in refreshes[s].reading, TileReadFails(s, t) PROVE TerrainInv'
  <2>1. RefreshOK(Taken(refreshes[s], t)) /\ RefreshOK(Left(refreshes[s], t))
    BY <1>1, ReadersGoOn
  <2>2. \E r : RefreshOK(r) /\ refreshes' = Ending(s, r)
    BY <1>5, <2>1 DEF TileReadFails
  <2> QED
    BY <1>1, <1>5, <2>2, RefreshEnds DEF TileReadFails
<1> QED
  BY <1>2, <1>3, <1>4, <1>5

LEMMA PaintsForFacts ==
  ASSUME TerrainInv, NEW seqs, PaintsFor(seqs)
  PROVE  RefreshesOK(refreshes', seq) /\ DOMAIN refreshes' = DOMAIN refreshes
<1>1. CASE seq \in seqs \cap DOMAIN refreshes
  <2>1. refreshes' = [refreshes EXCEPT ![seq] = Asked(@, TRUE)]
    BY <1>1 DEF PaintsFor
  <2>2. RefreshOK(Asked(refreshes[seq], TRUE))
    BY <1>1, AskedFacts DEF TerrainInv, RefreshesOK
  <2> QED
    BY <2>1, <2>2 DEF TerrainInv, RefreshesOK
<1>2. CASE ~(seq \in seqs \cap DOMAIN refreshes)
  BY <1>2 DEF PaintsFor, TerrainInv
<1> QED
  BY <1>1, <1>2

\* Answers of searches and builds: nothing of what is empty is filled.
LEMMA AnswerComes ==
  ASSUME TerrainInv, NEW seqs, PaintsFor(seqs), UNCHANGED faults \/ Fault, missed' \in BOOLEAN,
         MemoryOK(memory'), Bare(memory) => Bare(memory'),
         UNCHANGED <<position, small, surface, s1mActive, handled, due, button, revision, seq, wanted, layers, acts>>
  PROVE  TerrainInv'
<1>1. RefreshesOK(refreshes', seq) /\ DOMAIN refreshes' = DOMAIN refreshes
  BY PaintsForFacts
<1>2. faults' \in Nat /\ acts + faults' <= MaxActs
  <2>1. CASE UNCHANGED faults
    BY <2>1 DEF TerrainInv, Counts
  <2>2. CASE Fault
    BY <2>2, ActCounts
  <2> QED
    BY <2>1, <2>2
<1>3. Counts' /\ Flags'
  BY <1>2 DEF TerrainInv, Counts, Flags
<1>4. Cleared'
  BY <1>1 DEF TerrainInv, Cleared
<1> QED
  BY <1>1, <1>3, <1>4 DEF TerrainInv

LEMMA KeptByImageSearch ==
  ASSUME TerrainInv, NEW d, NEW state, NEW pool, DrapeSearchSettles(d, state, pool)
  PROVE  TerrainInv'
<1>1. MemoryOK(memory) /\ missed \in BOOLEAN
  BY DEF TerrainInv, Flags
<1> DEFINE w == [state |-> state, pool |-> pool,
                 by |-> IF state = "failed" THEN memory.entries[d].by ELSE 0, seqs |-> {}]
<1>2. memory' = [memory EXCEPT !.entries[d] = w]
  BY DEF DrapeSearchSettles
<1> HIDE DEF w
<1>3. DOMAIN memory' = DOMAIN memory /\ memory'.builds = memory.builds /\ memory'.drapes = memory.drapes
      /\ memory'.tiles = memory.tiles
  BY <1>1, <1>2, Fields DEF MemoryOK
<1>4. MemoryOK(memory') /\ (Bare(memory) => Bare(memory'))
  BY <1>1, <1>3, SameBuilds DEF Bare
<1>5. UNCHANGED faults \/ Fault
  BY DEF DrapeSearchSettles
<1> QED
  BY <1>1, <1>4, <1>5, AnswerComes DEF DrapeSearchSettles

LEMMA KeptByOrphan ==
  ASSUME TerrainInv, NEW seqs \in memory.orphans, OrphanSettles(seqs)
  PROVE  TerrainInv'
<1>1. MemoryOK(memory) /\ missed \in BOOLEAN
  BY DEF TerrainInv, Flags
<1>2. DOMAIN memory' = DOMAIN memory /\ memory'.builds = memory.builds /\ memory'.drapes = memory.drapes
      /\ memory'.tiles = memory.tiles
  BY <1>1, Fields DEF MemoryOK, OrphanSettles
<1>3. MemoryOK(memory') /\ (Bare(memory) => Bare(memory'))
  BY <1>1, <1>2, SameBuilds DEF Bare
<1> QED
  BY <1>1, <1>3, AnswerComes DEF OrphanSettles

LEMMA KeptByBuilds ==
  ASSUME TerrainInv, NEW b \in DOMAIN memory.builds, NEW state, BuildSettles(b, state)
  PROVE  TerrainInv'
<1> DEFINE key == memory.builds[b].key
           m == [memory EXCEPT !.builds[b].state = state,
                               !.ratchet[key[1]] = IF state = "done" THEN Larger(@, key[2]) ELSE @]
           p == Tell(Fresh(m))
<1>1. MemoryOK(memory) /\ missed \in BOOLEAN
  BY DEF TerrainInv, Flags
<1>2. /\ \E q \in {p} : /\ memory' = q.m /\ missed' = (missed \/ q.missed)
                        /\ PaintsFor(IF q.again THEN {seq} ELSE {})
      /\ UNCHANGED faults \/ Fault
      /\ UNCHANGED <<position, small, surface, s1mActive, handled, due, button, revision, seq, wanted, layers, acts>>
  <2>1. \E q \in {p} : /\ memory' = q.m /\ missed' = (missed \/ q.missed)
                       /\ PaintsFor(IF q.again THEN {seq} ELSE {})
    BY Zenon DEF BuildSettles
  <2>2. UNCHANGED faults \/ Fault
    BY Zenon DEF BuildSettles
  <2>3. UNCHANGED <<position, small, surface, s1mActive, handled, due, button, revision, seq, wanted, layers, acts>>
    BY Zenon DEF BuildSettles
  <2> HIDE DEF p
  <2> QED
    BY Zenon, <2>1, <2>2, <2>3
<1>3. /\ DOMAIN m = DOMAIN memory /\ m.drapes = memory.drapes /\ m.tiles = memory.tiles
      /\ m.builds = [memory.builds EXCEPT ![b].state = state]
  BY <1>1, Fields DEF MemoryOK
<1> HIDE DEF m
<1>4. MemoryOK(m)
  <2>1. DOMAIN m.builds = DOMAIN memory.builds
    BY <1>3
  <2>2. ASSUME NEW c \in DOMAIN m.builds
        PROVE  {"state", "asked"} \subseteq DOMAIN m.builds[c] /\ IsFiniteSet(m.builds[c].asked)
    <3>1. {"state", "asked"} \subseteq DOMAIN memory.builds[c] /\ IsFiniteSet(memory.builds[c].asked)
      BY <1>1, <2>1 DEF MemoryOK
    <3>2. CASE c = b
      BY <1>3, <3>1, <3>2
    <3>3. CASE c # b
      BY <1>3, <2>1, <3>1, <3>3
    <3> QED
      BY <3>2, <3>3
  <2> QED
    BY <1>1, <1>3, <2>1, <2>2 DEF MemoryOK
<1>5. PaintOK(Fresh(m)) /\ Fresh(m).m = m
  <2>1. /\ DOMAIN Fresh(m) = {"m", "again", "drawn", "missed"}
        /\ Fresh(m).m = m /\ Fresh(m).missed = FALSE
    BY DEF Fresh
  <2> QED
    BY <1>4, <2>1 DEF PaintOK
<1>6. PaintOK(p) /\ (Bare(m) => Bare(p.m))
  BY <1>5, TellFacts
<1> HIDE DEF p
<1>7. /\ memory' = p.m /\ missed' = (missed \/ p.missed)
      /\ PaintsFor(IF p.again THEN {seq} ELSE {})
  BY <1>2
<1>8. MemoryOK(memory') /\ (Bare(memory) => Bare(memory')) /\ missed' \in BOOLEAN
  BY <1>1, <1>3, <1>6, <1>7 DEF PaintOK, Bare
<1>9. UNCHANGED faults \/ Fault
  BY <1>2
<1> QED
  BY <1>2, <1>7, <1>8, <1>9, AnswerComes

LEMMA TerrainStep == TerrainInv /\ [TerrainNext]_terrainVars => TerrainInv'
<1> SUFFICES ASSUME TerrainInv, [TerrainNext]_terrainVars PROVE TerrainInv'
  OBVIOUS
<1>1. CASE UNCHANGED terrainVars
  BY <1>1 DEF terrainVars, TerrainInv, Flags, Counts, Cleared
<1>2. CASE \/ ImageryChanges \/ CollectionChanges \/ PickSurface \/ rebuildS1MLayers
           \/ \E v \in Positions : MoveTerrain(v)
  BY <1>2, KeptByUser
<1>3. CASE RefreshDue \/ Enable \/ Enabled \/ clearS1MTerrain
  BY <1>3, KeptBySwitches
<1>4. ASSUME NEW s \in DOMAIN refreshes,
             \/ TilesAnswer(s) \/ TilesFail(s) \/ Frame(s)
             \/ \E t \in refreshes[s].reading : TileRead(s, t) \/ TileReadFails(s, t)
      PROVE  TerrainInv'
  BY <1>4, KeptByTilesAnswer, KeptByRefresh
<1>5. ASSUME NEW d \in Datasets,
             \/ DrapeSearchSettles(d, "ready", "images")
             \/ DrapeSearchSettles(d, "ready", "none")
             \/ DrapeSearchSettles(d, "ready", "fallback")
             \/ DrapeSearchSettles(d, "failed", "none")
      PROVE  TerrainInv'
  BY <1>5, KeptByImageSearch
<1>6. ASSUME NEW seqs \in memory.orphans, OrphanSettles(seqs) PROVE TerrainInv'
  BY <1>6, KeptByOrphan
<1>7. ASSUME NEW b \in DOMAIN memory.builds, BuildSettles(b, "done") \/ BuildSettles(b, "failed")
      PROVE  TerrainInv'
  BY <1>7, KeptByBuilds
<1>8. CASE TerrainNext
  BY <1>2, <1>3, <1>4, <1>5, <1>6, <1>7, <1>8 DEF TerrainNext
<1> QED
  BY <1>1, <1>8

\* Terrain that was cleared stays cleared, for any data sets, moves and refreshes and any
\* order of the answers: a tile that was being read, a texture being built, a search or a
\* frame under way brings nothing back, and a texture that is kept has its build.
THEOREM ClearedTerrainRests == TerrainSpec => []ClearedStaysCleared
<1>1. TerrainInv => ClearedStaysCleared
  <2> SUFFICES ASSUME TerrainInv PROVE ClearedStaysCleared
    OBVIOUS
  <2>1. revision \in 0..MaxActs /\ acts + faults \in 0..MaxActs
    <3>1. acts \in Nat /\ faults \in Nat /\ acts + faults <= MaxActs /\ revision \in Nat /\ revision <= acts
      BY DEF TerrainInv, Counts
    <3>2. MaxActs \in Nat
      BY TerrainAssumption
    <3> QED
      BY <3>1, <3>2
  <2>2. TerrainTypeOK
    BY <2>1 DEF TerrainInv, TerrainTypeOK, Flags, Counts, RefreshesOK, RefreshOK, MemoryOK
  <2> QED
    BY <2>2 DEF TerrainInv, Cleared, Bare, ClearedStaysCleared
<1> QED
  BY <1>1, TerrainInitInv, TerrainStep, PTL DEF TerrainSpec

-----------------------------------------------------------------------------
(* The textures of the terrain.                                            *)

\* The sums of the beginnings of a sequence.
Sums(f, q, m) == f \in [0..m -> Int] /\ f[0] = 0 /\ \A n \in 1..m : f[n] = f[n - 1] + q[n]

LEMMA SummedIs ==
  ASSUME NEW q \in Seq(Int)
  PROVE  /\ \E f : Sums(f, q, Len(q)) /\ Summed(q) = f[Len(q)]
         /\ \A f : Sums(f, q, Len(q)) => Summed(q) = f[Len(q)]
<1> DEFINE m == Len(q)
           goes(k, f) == f \in [0..k -> Int] /\ f = [n \in 0..k |-> IF n = 0 THEN 0 ELSE f[n - 1] + q[n]]
           P == {k \in 0..m : \E f : goes(k, f)}
           is(f) == f = [n \in 0..m |-> IF n = 0 THEN 0 ELSE f[n - 1] + q[n]]
           sum == CHOOSE f : is(f)
<1>1. m \in Nat /\ \A n \in 1..m : q[n] \in Int
  OBVIOUS
<1>2. Summed(q) = sum[m]
  BY DEF Summed
<1> HIDE DEF m
<1>3. 0 \in P
  <2>1. goes(0, [n \in 0..0 |-> 0])
    OBVIOUS
  <2> HIDE DEF goes
  <2> QED
    BY <1>1, <2>1
<1>4. \A k \in 1..m : k - 1 \in P => k \in P
  <2> SUFFICES ASSUME NEW k \in 1..m, k - 1 \in P PROVE k \in P
    OBVIOUS
  <2>1. PICK f : goes(k - 1, f)
    OBVIOUS
  <2> DEFINE g == [n \in 0..k |-> IF n = k THEN f[k - 1] + q[k] ELSE f[n]]
  <2>2. f[k - 1] \in Int /\ q[k] \in Int
    BY <1>1, <2>1
  <2>3. g \in [0..k -> Int]
    BY <2>1, <2>2
  <2>4. \A n \in 0..k : g[n] = IF n = 0 THEN 0 ELSE g[n - 1] + q[n]
    <3> SUFFICES ASSUME NEW n \in 0..k PROVE g[n] = IF n = 0 THEN 0 ELSE g[n - 1] + q[n]
      OBVIOUS
    <3>1. CASE n = k
      <4>1. n - 1 \in 0..k /\ n - 1 # k /\ n # 0
        BY <3>1, <1>1
      <4> QED
        BY <3>1, <4>1
    <3>2. CASE n # k /\ n # 0
      <4>1. n - 1 \in 0..k /\ n - 1 # k /\ n \in 0..k - 1
        BY <3>2, <1>1
      <4> QED
        BY <3>2, <4>1, <2>1
    <3>3. CASE n # k /\ n = 0
      BY <3>3, <2>1
    <3> QED
      BY <3>1, <3>2, <3>3
  <2>5. goes(k, g)
    BY <2>3, <2>4
  <2> HIDE DEF goes, g
  <2> QED
    BY <2>5
<1>5. m \in P
  <2> HIDE DEF P
  <2>1. 0..m \subseteq P
    BY <1>1, <1>3, <1>4, UpTo
  <2> QED
    BY <1>1, <2>1
<1>6. PICK s : goes(m, s)
  BY <1>5
<1>7. is(sum)
  BY <1>6
<1> HIDE DEF sum
<1>8. Sums(s, q, m)
  BY <1>1, <1>6 DEF Sums
<1>9. ASSUME NEW f, Sums(f, q, m) PROVE sum[m] = f[m]
  <2> DEFINE Q == {k \in 0..m : sum[k] = f[k]}
  <2>1. 0 \in Q
    BY <1>1, <1>7, <1>9 DEF Sums
  <2>2. \A k \in 1..m : k - 1 \in Q => k \in Q
    <3> SUFFICES ASSUME NEW k \in 1..m, sum[k - 1] = f[k - 1] PROVE sum[k] = f[k]
      BY <1>1
    <3>1. sum[k] = sum[k - 1] + q[k]
      BY <1>1, <1>7
    <3>2. f[k] = f[k - 1] + q[k]
      BY <1>9 DEF Sums
    <3> QED
      BY <3>1, <3>2
  <2> HIDE DEF Q
  <2>3. 0..m \subseteq Q
    BY <1>1, <2>1, <2>2, UpTo
  <2> QED
    BY <1>1, <2>3 DEF Q
<1> QED
  BY <1>2, <1>8, <1>9 DEF m

LEMMA SummedType ==
  ASSUME NEW q \in Seq(Int) PROVE Summed(q) \in Int
BY SummedIs DEF Sums

LEMMA SummedEmpty == Summed(<<>>) = 0
<1>1. <<>> \in Seq(Int) /\ Len(<<>>) = 0
  OBVIOUS
<1> QED
  BY <1>1, SummedIs DEF Sums

LEMMA SummedAppend ==
  ASSUME NEW q \in Seq(Int), NEW x \in Int
  PROVE  Summed(Append(q, x)) = Summed(q) + x
<1> DEFINE a == Append(q, x)
           m == Len(q)
<1>1. PICK f : Sums(f, q, m) /\ Summed(q) = f[m]
  BY SummedIs
<1>2. a \in Seq(Int) /\ Len(a) = m + 1 /\ m \in Nat /\ a[m + 1] = x /\ \A n \in 1..m : a[n] = q[n]
  OBVIOUS
<1> DEFINE g == [n \in 0..m + 1 |-> IF n = m + 1 THEN f[m] + x ELSE f[n]]
<1> HIDE DEF a, m
<1>3. f \in [0..m -> Int] /\ f[0] = 0 /\ \A n \in 1..m : f[n] = f[n - 1] + q[n]
  BY <1>1 DEF Sums
<1>4. g \in [0..m + 1 -> Int] /\ g[0] = 0 /\ g[m + 1] = f[m] + x
  BY <1>2, <1>3
<1>5. ASSUME NEW n \in 1..m + 1 PROVE g[n] = g[n - 1] + a[n]
  <2>1. CASE n = m + 1
    BY <1>2, <1>3, <2>1
  <2>2. CASE n # m + 1
    <3>1. n \in 1..m /\ n - 1 # m + 1 /\ n - 1 \in 0..m + 1 /\ n \in 0..m + 1
      BY <1>2, <2>2
    <3> QED
      BY <1>2, <1>3, <2>2, <3>1
  <2> QED
    BY <2>1, <2>2
<1>6. Sums(g, a, m + 1)
  BY <1>4, <1>5 DEF Sums
<1> HIDE DEF g
<1>7. Summed(a) = g[m + 1]
  BY <1>2, <1>6, SummedIs
<1> QED
  BY <1>1, <1>4, <1>7 DEF a

LEMMA SummedRemoveAt ==
  ASSUME NEW q \in Seq(Int), NEW k \in DOMAIN q
  PROVE  Summed(RemoveAt(q, k)) = Summed(q) - q[k]
<1> DEFINE a == RemoveAt(q, k)
           m == Len(q)
<1>1. PICK f : Sums(f, q, m) /\ Summed(q) = f[m]
  BY SummedIs
<1>2. /\ a \in Seq(Int) /\ Len(a) = m - 1 /\ m \in Nat /\ k \in 1..m
      /\ \A j \in 1..m - 1 : a[j] = IF j < k THEN q[j] ELSE q[j + 1]
      /\ \A j \in 1..m : q[j] \in Int
  BY RemoveAtFacts
<1> DEFINE g == [n \in 0..m - 1 |-> IF n < k THEN f[n] ELSE f[n + 1] - q[k]]
<1> HIDE DEF a, m
<1>3. f \in [0..m -> Int] /\ f[0] = 0 /\ \A n \in 1..m : f[n] = f[n - 1] + q[n]
  BY <1>1 DEF Sums
<1>4. g \in [0..m - 1 -> Int] /\ g[0] = 0
  <2>1. \A n \in 0..m - 1 : n \in 0..m /\ n + 1 \in 0..m /\ f[n] \in Int /\ f[n + 1] \in Int
    <3>1. m \in Nat /\ f \in [0..m -> Int]
      BY <1>2, <1>3
    <3> HIDE <1>2, <1>3
    <3> TAKE n \in 0..m - 1
    <3>2. n \in 0..m /\ n + 1 \in 0..m
      BY <3>1
    <3> QED
      BY <3>1, <3>2
  <2>2. q[k] \in Int /\ 0 \in 0..m - 1 /\ 0 < k
    BY <1>2
  <2> QED
    BY <2>1, <2>2, <1>3
<1>5. \A n \in 0..m - 1 : g[n] = IF n < k THEN f[n] ELSE f[n + 1] - q[k]
  OBVIOUS
<1> HIDE DEF g
<1>6. ASSUME NEW n \in 1..m - 1 PROVE g[n] = g[n - 1] + a[n]
  <2>1. /\ n - 1 \in 0..m - 1 /\ n \in 0..m - 1 /\ n \in 1..m /\ n + 1 \in 1..m /\ (n + 1) - 1 = n /\ (n - 1) + 1 = n
        /\ n \in 0..m /\ n - 1 \in 0..m /\ n + 1 \in 0..m
    BY <1>2
  <2>2. /\ f[n] = f[n - 1] + q[n] /\ f[n + 1] = f[n] + q[n + 1]
        /\ f[n - 1] \in Int /\ f[n] \in Int /\ f[n + 1] \in Int
    <3> HIDE <1>2
    <3> QED
      BY <1>3, <2>1
  <2>3. q[n] \in Int /\ q[n + 1] \in Int /\ q[k] \in Int
    BY <1>2, <2>1
  <2>4. /\ g[n] = IF n < k THEN f[n] ELSE f[n + 1] - q[k]
        /\ g[n - 1] = IF n - 1 < k THEN f[n - 1] ELSE f[n] - q[k]
        /\ a[n] = IF n < k THEN q[n] ELSE q[n + 1]
    BY <1>2, <1>5, <2>1
  <2> DEFINE x == f[n - 1]
             y == f[n]
             z == f[n + 1]
             u == q[n]
             v == q[n + 1]
             w == q[k]
  <2>5. /\ x \in Int /\ y \in Int /\ z \in Int /\ u \in Int /\ v \in Int /\ w \in Int
        /\ y = x + u /\ z = y + v /\ (n = k => u = w)
    BY <2>2, <2>3
  <2>6. /\ g[n] = IF n < k THEN y ELSE z - w
        /\ g[n - 1] = IF n - 1 < k THEN x ELSE y - w
        /\ a[n] = IF n < k THEN u ELSE v
    BY <2>4
  <2> HIDE DEF x, y, z, u, v, w
  <2>7. n \in Int /\ k \in Int
    BY <1>2
  <2>8. CASE n < k
    BY <2>5, <2>6, <2>7, <2>8
  <2>9. CASE n = k
    <3>1. g[n] = z - w /\ g[n - 1] = x /\ a[n] = v /\ u = w
      BY <2>5, <2>6, <2>7, <2>9
    <3> QED
      BY <2>5, <3>1
  <2>10. CASE n > k
    <3>1. g[n] = z - w /\ g[n - 1] = y - w /\ a[n] = v
      BY <2>6, <2>7, <2>10
    <3> QED
      BY <2>5, <3>1
  <2> QED
    BY <2>7, <2>8, <2>9, <2>10
<1>7. g \in [0..m - 1 -> Int] /\ g[0] = 0
  BY <1>4
<1>8. Sums(g, a, m - 1)
  BY <1>6, <1>7 DEF Sums
<1>9. g[m - 1] = f[m] - q[k]
  <2>1. m - 1 \in 0..m - 1 /\ m - 1 + 1 = m /\ m \in 1..m /\ k <= m
    BY <1>2
  <2>2. CASE k = m
    <3>1. f[m] = f[m - 1] + q[m] /\ f[m - 1] \in Int /\ q[m] \in Int /\ m - 1 < k
      BY <1>2, <1>3, <2>1, <2>2
    <3>2. g[m - 1] = f[m - 1]
      BY <1>5, <2>1, <3>1
    <3> QED
      BY <2>2, <3>1, <3>2
  <2>3. CASE k # m
    <3>1. ~(m - 1 < k)
      BY <1>2, <2>3
    <3> QED
      BY <1>5, <2>1, <3>1
  <2> QED
    BY <2>2, <2>3
<1>10. Summed(a) = g[m - 1]
  BY <1>2, <1>8, SummedIs
<1> QED
  BY <1>1, <1>9, <1>10 DEF a

LEMMA SummedUpdate ==
  ASSUME NEW q \in Seq(Int), NEW a \in Seq(Int), Len(a) = Len(q), NEW k \in DOMAIN q,
         \A j \in DOMAIN q : j # k => a[j] = q[j]
  PROVE  Summed(a) = Summed(q) - q[k] + a[k]
<1> DEFINE m == Len(q)
<1>1. PICK f : Sums(f, q, m) /\ Summed(q) = f[m]
  BY SummedIs
<1>2. /\ m \in Nat /\ k \in 1..m /\ Len(a) = m
      /\ \A j \in 1..m : q[j] \in Int /\ a[j] \in Int /\ (j # k => a[j] = q[j])
  OBVIOUS
<1> DEFINE g == [n \in 0..m |-> IF n < k THEN f[n] ELSE f[n] - q[k] + a[k]]
<1> HIDE DEF m
<1>3. f \in [0..m -> Int] /\ f[0] = 0 /\ \A n \in 1..m : f[n] = f[n - 1] + q[n]
  BY <1>1 DEF Sums
<1>4. g \in [0..m -> Int] /\ g[0] = 0 /\ g[m] = f[m] - q[k] + a[k]
  <2>1. q[k] \in Int /\ a[k] \in Int /\ 0 \in 0..m /\ 0 < k /\ m \in 0..m /\ ~(m < k)
    BY <1>2
  <2> QED
    BY <1>3, <2>1
<1>5. \A n \in 0..m : g[n] = IF n < k THEN f[n] ELSE f[n] - q[k] + a[k]
  OBVIOUS
<1> HIDE DEF g
<1>6. ASSUME NEW n \in 1..m PROVE g[n] = g[n - 1] + a[n]
  <2>1. n - 1 \in 0..m /\ n \in 0..m
    BY <1>2
  <2>2. f[n] = f[n - 1] + q[n] /\ f[n - 1] \in Int /\ f[n] \in Int
    BY <1>3, <2>1
  <2>3. q[n] \in Int /\ a[n] \in Int /\ q[k] \in Int /\ a[k] \in Int /\ (n # k => a[n] = q[n])
    BY <1>2
  <2>4. /\ g[n] = IF n < k THEN f[n] ELSE f[n] - q[k] + a[k]
        /\ g[n - 1] = IF n - 1 < k THEN f[n - 1] ELSE f[n - 1] - q[k] + a[k]
    BY <1>5, <2>1
  <2> DEFINE x == f[n - 1]
             y == f[n]
             u == q[n]
             v == a[n]
             w == q[k]
             z == a[k]
  <2>5. /\ x \in Int /\ y \in Int /\ z \in Int /\ u \in Int /\ v \in Int /\ w \in Int
        /\ y = x + u /\ (n = k => u = w /\ v = z) /\ (n # k => v = u)
    BY <2>2, <2>3
  <2>6. /\ g[n] = IF n < k THEN y ELSE y - w + z
        /\ g[n - 1] = IF n - 1 < k THEN x ELSE x - w + z
        /\ a[n] = v
    BY <2>4
  <2> HIDE DEF x, y, z, u, v, w
  <2>7. n \in Int /\ k \in Int
    BY <1>2
  <2>8. CASE n < k
    BY <2>5, <2>6, <2>7, <2>8
  <2>9. CASE n = k
    <3>0. ~(n < k) /\ n - 1 < k
      BY <2>7, <2>9
    <3>1. g[n] = y - w + z /\ g[n - 1] = x /\ a[n] = z /\ u = w
      BY <2>5, <2>6, <2>9, <3>0, Zenon
    <3> QED
      BY <2>5, <3>1
  <2>10. CASE n > k
    <3>0. ~(n < k) /\ ~(n - 1 < k) /\ n # k
      BY <2>7, <2>10
    <3>1. g[n] = y - w + z /\ g[n - 1] = x - w + z /\ a[n] = u
      BY <2>5, <2>6, <3>0, Zenon
    <3> QED
      BY <2>5, <3>1
  <2> QED
    BY <2>7, <2>8, <2>9, <2>10
<1>7. Sums(g, a, m)
  BY <1>4, <1>6 DEF Sums
<1>8. Summed(a) = g[m]
  BY <1>2, <1>7, SummedIs
<1> QED
  BY <1>1, <1>4, <1>8

-----------------------------------------------------------------------------
(* The images of a texture: ranking those near it by what comes before each. *)

NearRegion(r) == {i \in mostRecentImagerySources : Overlap[i][r] # Clear}
Before(r, i) == {j \in NearRegion(r) : Overlap[j][r] > Overlap[i][r] \/ (Overlap[j][r] = Overlap[i][r] /\ j < i)}

LEMMA SourcesAreImages ==
  ASSUME NEW r \in Regions
  PROVE  Sources(r) \in Seq(DOMAIN Pool)
<1> DEFINE n == Cardinality(NearRegion(r))
           rank == [i \in NearRegion(r) |-> Cardinality(Before(r, i)) + 1]
<1>1. /\ NearRegion(r) \subseteq DOMAIN Pool /\ Len(Pool) \in Nat /\ DOMAIN Pool = 1..Len(Pool)
      /\ \A i \in NearRegion(r) : i \in Int /\ Overlap[i][r] \in Int
  BY DrapeAssumption DEF NearRegion, mostRecentImagerySources
<1>2. IsFiniteSet(NearRegion(r)) /\ n \in Nat
  <2>1. IsFiniteSet(1..Len(Pool))
    BY <1>1, FS_Interval
  <2> QED
    BY <1>1, <2>1, FS_Subset, FS_CardinalityType
<1>3. ASSUME NEW i \in NearRegion(r)
      PROVE  Before(r, i) \subseteq NearRegion(r) /\ i \notin Before(r, i) /\ IsFiniteSet(Before(r, i))
             /\ Cardinality(Before(r, i)) \in 0..n - 1
  <2>1. Before(r, i) \subseteq NearRegion(r) /\ i \notin Before(r, i)
    BY <1>1 DEF Before
  <2>2. IsFiniteSet(Before(r, i)) /\ Cardinality(Before(r, i)) \in Nat /\ Cardinality(Before(r, i)) <= n
    BY <1>2, <2>1, FS_Subset, FS_CardinalityType
  <2>3. Cardinality(Before(r, i)) # n
    BY <1>2, <2>1, FS_Subset
  <2> QED
    BY <1>2, <2>1, <2>2, <2>3
<1>4. ASSUME NEW i \in NearRegion(r), NEW j \in NearRegion(r), i \in Before(r, j)
      PROVE  Cardinality(Before(r, i)) < Cardinality(Before(r, j))
  <2>1. Before(r, i) \subseteq Before(r, j)
    BY <1>1, <1>4 DEF Before
  <2>2. Before(r, i) # Before(r, j)
    BY <1>3, <1>4
  <2>3. /\ Cardinality(Before(r, i)) <= Cardinality(Before(r, j))
        /\ Cardinality(Before(r, i)) # Cardinality(Before(r, j))
    BY <1>3, <2>1, <2>2, FS_Subset
  <2> QED
    BY <1>2, <1>3, <2>3
<1>5. \A i, j \in NearRegion(r) : i = j \/ i \in Before(r, j) \/ j \in Before(r, i)
  BY <1>1 DEF Before
<1>6. rank \in Injection(NearRegion(r), 1..n)
  <2>1. rank \in [NearRegion(r) -> 1..n]
    <3> SUFFICES ASSUME NEW i \in NearRegion(r) PROVE Cardinality(Before(r, i)) + 1 \in 1..n
      OBVIOUS
    <3> QED
      BY <1>2, <1>3
  <2>2. ASSUME NEW i \in NearRegion(r), NEW j \in NearRegion(r), rank[i] = rank[j] PROVE i = j
    <3>1. /\ Cardinality(Before(r, i)) \in Int /\ Cardinality(Before(r, j)) \in Int
          /\ Cardinality(Before(r, i)) + 1 = Cardinality(Before(r, j)) + 1
      BY <1>3, <2>2
    <3>2. Cardinality(Before(r, i)) = Cardinality(Before(r, j))
      BY <3>1
    <3> QED
      BY <1>4, <1>5, <3>1, <3>2
  <2> HIDE DEF rank
  <2> QED
    BY <2>1, <2>2 DEF Injection, IsInjective
<1>7. rank \in Surjection(NearRegion(r), 1..n)
  <2>1. IsFiniteSet(1..n) /\ Cardinality(1..n) = n
    BY <1>2, FS_Interval
  <2> HIDE DEF rank
  <2> QED
    BY <1>2, <1>6, <2>1, FS_Injection
<1>8. \A k \in 1..n : \E i \in NearRegion(r) : Cardinality(Before(r, i)) = k - 1
  <2> SUFFICES ASSUME NEW k \in 1..n PROVE \E i \in NearRegion(r) : Cardinality(Before(r, i)) = k - 1
    OBVIOUS
  <2>1. PICK i \in NearRegion(r) : rank[i] = k
    <3> HIDE DEF rank
    <3> QED
      BY <1>7 DEF Surjection
  <2>2. Cardinality(Before(r, i)) \in Int /\ Cardinality(Before(r, i)) + 1 = k
    BY <1>3, <2>1
  <2> QED
    BY <2>2
<1>9. drapeSourcesForTile(r) = [k \in 1..n |-> CHOOSE i \in NearRegion(r) : Cardinality(Before(r, i)) = k - 1]
  BY DEF drapeSourcesForTile, NearRegion, Before
<1>10. \A k \in 1..n : drapeSourcesForTile(r)[k] \in DOMAIN Pool
  BY <1>1, <1>8, <1>9
<1>11. drapeSourcesForTile(r) \in Seq(DOMAIN Pool) /\ Len(drapeSourcesForTile(r)) = n
  <2> DEFINE q == drapeSourcesForTile(r)
  <2>1. DOMAIN q = 1..n /\ q = [k \in 1..n |-> q[k]]
    BY <1>9
  <2>2. \A k \in 1..n : q[k] \in DOMAIN Pool
    BY <1>10
  <2> HIDE DEF q, n
  <2>3. n \in Nat
    BY <1>2 DEF n
  <2>4. q \in [1..n -> DOMAIN Pool]
    BY <2>1, <2>2
  <2> QED
    BY <2>3, <2>4 DEF q
<1>12. Min({n, MaxSources}) \in 0..n
  <2>1. n \in Nat /\ MaxSources \in Nat
    BY <1>2, DrapeAssumption
  <2> DEFINE P(x) == \A y \in {n, MaxSources} : x =< y
  <2>2. \E x \in {n, MaxSources} : P(x)
    BY <2>1
  <2>3. Min({n, MaxSources}) = CHOOSE x \in {n, MaxSources} : P(x)
    BY DEF Min
  <2>4. Min({n, MaxSources}) \in {n, MaxSources} /\ P(Min({n, MaxSources}))
    <3> HIDE DEF P
    <3> QED
      BY <2>2, <2>3
  <2> QED
    BY <2>1, <2>4
<1> DEFINE q == drapeSourcesForTile(r)
           m == Min({n, MaxSources})
<1>13. q \in Seq(DOMAIN Pool) /\ m \in 0..Len(q) /\ Sources(r) = SubSeq(q, 1, m)
  BY <1>11, <1>12 DEF Sources
<1> HIDE DEF q, m
<1> QED
  BY <1>13

-----------------------------------------------------------------------------
(* The cache of decoded tiles: a key once, and its sum.                    *)

TileKeys == (DOMAIN Size) \X Nat
CacheEntries == [key : TileKeys, promise : Nat]
HeldBytes(m) == [i \in DOMAIN m.cache |-> BytesOf(m, m.cache[i].key)]

CacheOK(m) ==
  /\ DOMAIN m = {"cache", "bytes", "total", "promises"}
  /\ m.cache \in Seq(CacheEntries)
  /\ \A i, j \in DOMAIN m.cache : m.cache[i].key = m.cache[j].key => i = j
  /\ DOMAIN m.bytes \subseteq {m.cache[i].key : i \in DOMAIN m.cache}
  /\ \A k \in DOMAIN m.bytes : m.bytes[k] \in Nat
  /\ m.total = Summed(HeldBytes(m))

LEMMA HeldFacts ==
  ASSUME NEW m, CacheOK(m)
  PROVE  /\ \A k : BytesOf(m, k) \in Nat
         /\ HeldBytes(m) \in Seq(Int) /\ Len(HeldBytes(m)) = Len(m.cache)
         /\ m.total \in Int /\ Len(m.cache) \in Nat /\ DOMAIN m.cache = 1..Len(m.cache)
<1>1. \A k : BytesOf(m, k) \in Nat
  BY DEF CacheOK, BytesOf
<1>2. Len(m.cache) \in Nat /\ DOMAIN m.cache = 1..Len(m.cache)
  BY DEF CacheOK
<1>3. HeldBytes(m) \in [1..Len(m.cache) -> Int]
  BY <1>1, <1>2 DEF HeldBytes
<1>4. HeldBytes(m) \in Seq(Int) /\ Len(HeldBytes(m)) = Len(m.cache)
  BY <1>2, <1>3
<1> QED
  BY <1>1, <1>2, <1>4, SummedType DEF CacheOK

LEMMA RemovedOne ==
  ASSUME NEW m, CacheOK(m), NEW i \in DOMAIN m.cache,
         NEW n, DOMAIN n = DOMAIN m, n.cache = RemoveAt(m.cache, i),
         n.bytes = Minus(m.bytes, m.cache[i].key),
         n.total = m.total - BytesOf(m, m.cache[i].key)
  PROVE  /\ CacheOK(n) /\ Len(n.cache) = Len(m.cache) - 1
         /\ \A j \in DOMAIN n.cache : \E l \in DOMAIN m.cache \ {i} : n.cache[j] = m.cache[l]
<1> DEFINE from(j) == IF j < i THEN j ELSE j + 1
           len == Len(m.cache)
<1>0. len \in Nat /\ DOMAIN m.cache = 1..len /\ HeldBytes(m) \in Seq(Int) /\ Len(HeldBytes(m)) = len /\ m.cache \in Seq(CacheEntries)
  BY HeldFacts DEF CacheOK
<1>1. /\ n.cache \in Seq(CacheEntries) /\ Len(n.cache) = len - 1
      /\ \A j \in 1..len - 1 : n.cache[j] = m.cache[from(j)]
  <2>1. RemoveAt(m.cache, i) \in Seq(CacheEntries) /\ Len(RemoveAt(m.cache, i)) = len - 1
        /\ \A j \in 1..len - 1 : RemoveAt(m.cache, i)[j] = IF j < i THEN m.cache[j] ELSE m.cache[j + 1]
    BY <1>0, RemoveAtFacts
  <2> QED
    BY <2>1
<1>2. DOMAIN n.cache = 1..len - 1
  BY <1>0, <1>1
<1>3. /\ \A j \in 1..len - 1 : from(j) \in DOMAIN m.cache \ {i}
      /\ \A j, l \in 1..len - 1 : from(j) = from(l) => j = l
  <2>1. len \in Nat /\ i \in 1..len /\ DOMAIN m.cache = 1..len
    BY <1>0
  <2> HIDE DEF len
  <2>2. ASSUME NEW j \in 1..len - 1 PROVE from(j) \in DOMAIN m.cache \ {i}
    BY <2>1
  <2>3. ASSUME NEW j \in 1..len - 1, NEW l \in 1..len - 1, from(j) = from(l) PROVE j = l
    BY <2>1, <2>3
  <2> QED
    BY <2>2, <2>3
<1> HIDE DEF from, len
<1>4. \A j, l \in DOMAIN n.cache : n.cache[j].key = n.cache[l].key => j = l
  <2> SUFFICES ASSUME NEW j \in 1..len - 1, NEW l \in 1..len - 1, n.cache[j].key = n.cache[l].key PROVE j = l
    BY <1>2
  <2> QED
    BY <1>1, <1>3 DEF CacheOK
<1>5. \A j \in DOMAIN n.cache : n.cache[j].key # m.cache[i].key /\ n.cache[j] = m.cache[from(j)]
  BY <1>1, <1>2, <1>3 DEF CacheOK
<1>6. DOMAIN n.bytes = DOMAIN m.bytes \ {m.cache[i].key} /\ \A k \in DOMAIN n.bytes : n.bytes[k] = m.bytes[k]
  BY DEF Minus
<1>7. DOMAIN n.bytes \subseteq {n.cache[j].key : j \in DOMAIN n.cache}
  <2> SUFFICES ASSUME NEW k \in DOMAIN n.bytes PROVE \E j \in DOMAIN n.cache : n.cache[j].key = k
    OBVIOUS
  <2>1. PICK l \in DOMAIN m.cache : m.cache[l].key = k
    BY <1>6 DEF CacheOK
  <2>2. l # i
    BY <1>6, <2>1
  <2>3. PICK j \in 1..len - 1 : from(j) = l
    <3>1. i \in 1..len /\ l \in 1..len /\ len \in Nat
      BY <1>0
    <3>2. CASE l < i
      <4>1. l \in 1..len - 1 /\ from(l) = l
        BY <1>0, <3>1, <3>2 DEF from
      <4> QED
        BY <4>1
    <3>3. CASE l > i
      <4>1. l - 1 \in 1..len - 1 /\ ~(l - 1 < i) /\ (l - 1) + 1 = l
        BY <3>1, <3>3
      <4>2. from(l - 1) = l
        BY <4>1 DEF from
      <4> QED
        BY <4>1, <4>2
    <3> QED
      BY <2>2, <3>1, <3>2, <3>3
  <2> QED
    BY <1>2, <1>5, <2>1, <2>3
<1>8. HeldBytes(n) = RemoveAt(HeldBytes(m), i)
  <2>1. HeldBytes(n) = [j \in 1..len - 1 |-> BytesOf(n, n.cache[j].key)]
    BY <1>2 DEF HeldBytes
  <2>2. /\ RemoveAt(HeldBytes(m), i) \in Seq(Int) /\ Len(RemoveAt(HeldBytes(m), i)) = len - 1
        /\ \A j \in 1..len - 1 : RemoveAt(HeldBytes(m), i)[j] = HeldBytes(m)[from(j)]
    <3>1. i \in DOMAIN HeldBytes(m)
      BY <1>0
    <3>2. /\ RemoveAt(HeldBytes(m), i) \in Seq(Int) /\ Len(RemoveAt(HeldBytes(m), i)) = len - 1
          /\ \A j \in 1..len - 1 : RemoveAt(HeldBytes(m), i)[j] = IF j < i THEN HeldBytes(m)[j] ELSE HeldBytes(m)[j + 1]
      BY <1>0, <3>1, RemoveAtFacts
    <3> QED
      BY <3>2 DEF from
  <2>3. ASSUME NEW j \in 1..len - 1 PROVE BytesOf(n, n.cache[j].key) = HeldBytes(m)[from(j)]
    <3>1. HeldBytes(m)[from(j)] = BytesOf(m, m.cache[from(j)].key)
      BY <1>3 DEF HeldBytes
    <3>2. n.cache[j].key = m.cache[from(j)].key /\ n.cache[j].key # m.cache[i].key
      BY <1>2, <1>5
    <3> QED
      BY <1>6, <3>1, <3>2 DEF BytesOf
  <2> DEFINE q == RemoveAt(HeldBytes(m), i)
  <2>4. q = [j \in 1..len - 1 |-> q[j]]
    <3>1. q \in Seq(Int) /\ Len(q) = len - 1
      BY <2>2
    <3> HIDE DEF q
    <3> QED
      BY <3>1
  <2> QED
    BY <2>1, <2>2, <2>3, <2>4
<1>9. n.total = Summed(HeldBytes(n))
  <2>1. i \in DOMAIN HeldBytes(m) /\ HeldBytes(m)[i] = BytesOf(m, m.cache[i].key)
    BY DEF HeldBytes
  <2>2. Summed(HeldBytes(n)) = Summed(HeldBytes(m)) - HeldBytes(m)[i]
    BY <1>0, <1>8, <2>1, SummedRemoveAt
  <2> QED
    BY <2>1, <2>2 DEF CacheOK
<1>10. CacheOK(n)
  BY <1>1, <1>4, <1>6, <1>7, <1>9 DEF CacheOK
<1> QED
  BY <1>1, <1>2, <1>3, <1>5, <1>10 DEF len

\* What is promised: each entry of the cache has a promise of its key.
Promises0 == [key : TileKeys, state : {"pending", "ready", "failed"}, shown : Displays \cup {Clear}]
PromisesOK(m) ==
  /\ IsFiniteSet(DOMAIN m.promises) /\ DOMAIN m.promises \subseteq Nat
  /\ \A id \in DOMAIN m.promises :
       m.promises[id] \in Promises0 /\ (m.promises[id].state = "ready" => m.promises[id].shown \in Displays)
  /\ \A i \in DOMAIN m.cache :
       m.cache[i].promise \in DOMAIN m.promises /\ m.promises[m.cache[i].promise].key = m.cache[i].key
TilesOK(m) == CacheOK(m) /\ PromisesOK(m)

EntriesOf(n, m) == \A j \in DOMAIN n.cache : \E l \in DOMAIN m.cache : n.cache[j] = m.cache[l]

LEMMA FewerPromised ==
  ASSUME NEW m, PromisesOK(m), NEW n, n.promises = m.promises,
         EntriesOf(n, m)
  PROVE  PromisesOK(n)
<1>1. ASSUME NEW j \in DOMAIN n.cache
      PROVE  n.cache[j].promise \in DOMAIN n.promises /\ n.promises[n.cache[j].promise].key = n.cache[j].key
  BY DEF PromisesOK, EntriesOf
<1> QED
  BY <1>1 DEF PromisesOK

LEMMA TileDeletedFacts ==
  ASSUME NEW m, TilesOK(m), NEW k
  PROVE  LET d == deleteS1MCogTileCacheEntry(m, k)
         IN  /\ TilesOK(d) /\ d.promises = m.promises
             /\ \A i \in DOMAIN m.cache : m.cache[i].key = k => d.cache = RemoveAt(m.cache, i)
             /\ ~TooMuch(m) => ~TooMuch(d)
<1> DEFINE d == deleteS1MCogTileCacheEntry(m, k)
<1>1. /\ DOMAIN d = DOMAIN m /\ d.promises = m.promises /\ d.cache = WithoutKey(m, k)
      /\ d.bytes = Minus(m.bytes, k) /\ d.total = m.total - BytesOf(m, k)
  BY DEF deleteS1MCogTileCacheEntry, TilesOK, CacheOK
<1> HIDE DEF d
<1>2. CASE CachedAt(m, k) = {}
  <2>1. d.cache = m.cache
    BY <1>1, <1>2 DEF WithoutKey
  <2>2. k \notin {m.cache[i].key : i \in DOMAIN m.cache}
    BY <1>2 DEF CachedAt
  <2>3. k \notin DOMAIN m.bytes /\ BytesOf(m, k) = 0
    BY <2>2 DEF TilesOK, CacheOK, BytesOf
  <2>4. d.total = m.total
    BY <1>1, <2>3, HeldFacts DEF TilesOK
  <2>5. DOMAIN d.bytes = DOMAIN m.bytes /\ \A x \in DOMAIN m.bytes : d.bytes[x] = m.bytes[x]
    BY <1>1, <2>3 DEF Minus
  <2>6. HeldBytes(d) = HeldBytes(m)
    BY <2>1, <2>5 DEF HeldBytes, BytesOf
  <2>7. CacheOK(d)
    BY <1>1, <2>1, <2>4, <2>5, <2>6 DEF TilesOK, CacheOK
  <2>8. TooMuch(d) <=> TooMuch(m)
    BY <2>1, <2>4 DEF TooMuch
  <2> QED
    BY <1>1, <2>1, <2>2, <2>7, <2>8, FewerPromised DEF EntriesOf, TilesOK, d
<1>3. CASE CachedAt(m, k) # {}
  <2>1. PICK i \in DOMAIN m.cache : i = CHOOSE j \in CachedAt(m, k) : TRUE
    BY <1>3 DEF CachedAt
  <2>2. m.cache[i].key = k /\ d.cache = RemoveAt(m.cache, i)
    BY <1>1, <1>3, <2>1 DEF CachedAt, WithoutKey
  <2>3. /\ CacheOK(d)
        /\ \A j \in DOMAIN d.cache : \E l \in DOMAIN m.cache : d.cache[j] = m.cache[l]
    <3>1. /\ CacheOK(m) /\ DOMAIN d = DOMAIN m /\ d.bytes = Minus(m.bytes, m.cache[i].key)
          /\ d.total = m.total - BytesOf(m, m.cache[i].key)
      BY <1>1, <2>2 DEF TilesOK
    <3>2. \A j \in DOMAIN d.cache : \E l \in DOMAIN m.cache \ {i} : d.cache[j] = m.cache[l]
      BY <2>2, <3>1, RemovedOne
    <3>3. CacheOK(d)
      BY <2>2, <3>1, RemovedOne
    <3> QED
      BY <3>2, <3>3
  <2>4. \A j \in DOMAIN m.cache : m.cache[j].key = k => j = i
    BY <2>2 DEF TilesOK, CacheOK
  <2>5. ~TooMuch(m) => ~TooMuch(d)
    <3>1. /\ Len(m.cache) \in Nat /\ m.total \in Int /\ BytesOf(m, k) \in Nat
          /\ m.cache \in Seq(CacheEntries)
      BY HeldFacts DEF TilesOK, CacheOK
    <3>2. Len(d.cache) = Len(m.cache) - 1 /\ d.total = m.total - BytesOf(m, k)
      BY <1>1, <2>2, <3>1, RemoveAtFacts
    <3>3. MaxBytes \in Nat /\ MaxCount \in Nat
      BY DrapeAssumption
    <3> HIDE <1>1, <2>3
    <3> QED
      BY <3>1, <3>2, <3>3 DEF TooMuch
  <2> QED
    BY <1>1, <2>2, <2>3, <2>4, <2>5, FewerPromised DEF EntriesOf, TilesOK, d
<1> QED
  BY <1>2, <1>3

LEMMA EvictOldestFacts ==
  ASSUME NEW m, TilesOK(m)
  PROVE  LET e == EvictOldest(m)
         IN  /\ TilesOK(e) /\ e.promises = m.promises
             /\ ~TooMuch(m) => e = m
             /\ TooMuch(m) => Len(e.cache) = Len(m.cache) - 1
             /\ m.cache # <<>> => e.cache # <<>> /\ Last(e.cache) = Last(m.cache)
<1> DEFINE e == EvictOldest(m)
<1>1. CASE ~TooMuch(m)
  BY <1>1 DEF EvictOldest
<1>2. CASE TooMuch(m)
  <2>1. Len(m.cache) \in Nat /\ Len(m.cache) > 1 /\ DOMAIN m.cache = 1..Len(m.cache) /\ m.cache \in Seq(CacheEntries)
    BY <1>2, HeldFacts DEF TooMuch, TilesOK, CacheOK
  <2>2. 1 \in DOMAIN m.cache
    BY <2>1
  <2>3. e = deleteS1MCogTileCacheEntry(m, m.cache[1].key)
    BY <1>2 DEF EvictOldest
  <2>4. TilesOK(e) /\ e.promises = m.promises /\ e.cache = RemoveAt(m.cache, 1)
    BY <2>2, <2>3, TileDeletedFacts
  <2>5. /\ e.cache \in Seq(CacheEntries) /\ Len(e.cache) = Len(m.cache) - 1
        /\ \A j \in 1..Len(m.cache) - 1 : e.cache[j] = IF j < 1 THEN m.cache[j] ELSE m.cache[j + 1]
    BY <2>1, <2>2, <2>4, RemoveAtFacts
  <2>6. Last(e.cache) = m.cache[Len(m.cache)]
    <3>1. Len(m.cache) - 1 \in 1..Len(m.cache) - 1 /\ ~(Len(m.cache) - 1 < 1) /\ (Len(m.cache) - 1) + 1 = Len(m.cache)
      BY <2>1
    <3> QED
      BY <2>5, <3>1 DEF Last
  <2>7. e.cache # <<>>
    BY <2>1, <2>5
  <2> HIDE DEF e
  <2> QED
    BY <1>2, <2>4, <2>5, <2>6, <2>7 DEF Last, e
<1> QED
  BY <1>1, <1>2

LEMMA EvictFacts ==
  ASSUME NEW m, TilesOK(m)
  PROVE  LET e == evictS1MCogTileCache(m)
         IN  /\ TilesOK(e) /\ e.promises = m.promises /\ ~TooMuch(e)
             /\ m.cache # <<>> => e.cache # <<>> /\ Last(e.cache) = Last(m.cache)
<1> DEFINE len == Len(m.cache)
           goes(k, f) == f = [n \in 0..k |-> IF n = 0 THEN m ELSE EvictOldest(f[n - 1])]
           P == {k \in 0..len : \E f : goes(k, f)}
           left == CHOOSE f : goes(len, f)
           e == left[len]
<1>1. len \in Nat
  BY HeldFacts DEF TilesOK
<1>2. evictS1MCogTileCache(m) = e
  BY DEF evictS1MCogTileCache
<1> HIDE DEF len
<1>3. 0 \in P
  <2>1. goes(0, [n \in 0..0 |-> m])
    OBVIOUS
  <2> HIDE DEF goes
  <2> QED
    BY <1>1, <2>1
<1>4. \A k \in 1..len : k - 1 \in P => k \in P
  <2> SUFFICES ASSUME NEW k \in 1..len, k - 1 \in P PROVE k \in P
    OBVIOUS
  <2>1. PICK f : goes(k - 1, f)
    OBVIOUS
  <2> DEFINE g == [n \in 0..k |-> IF n = k THEN EvictOldest(f[k - 1]) ELSE f[n]]
  <2>2. \A n \in 0..k : g[n] = IF n = 0 THEN m ELSE EvictOldest(g[n - 1])
    <3> SUFFICES ASSUME NEW n \in 0..k
                 PROVE  g[n] = IF n = 0 THEN m ELSE EvictOldest(g[n - 1])
      OBVIOUS
    <3>1. CASE n = k
      <4>1. n - 1 \in 0..k /\ n - 1 # k /\ n # 0
        BY <3>1, <1>1
      <4> QED
        BY <3>1, <4>1
    <3>2. CASE n # k /\ n # 0
      <4>1. n - 1 \in 0..k /\ n - 1 # k /\ n \in 0..k - 1
        BY <3>2, <1>1
      <4> QED
        BY <3>2, <4>1, <2>1
    <3>3. CASE n # k /\ n = 0
      BY <3>3, <2>1
    <3> QED
      BY <3>1, <3>2, <3>3
  <2>3. goes(k, g)
    BY <2>2
  <2> HIDE DEF goes, g
  <2> QED
    BY <2>3
<1>5. len \in P
  <2> HIDE DEF P
  <2>1. 0..len \subseteq P
    BY <1>1, <1>3, <1>4, UpTo
  <2> QED
    BY <1>1, <2>1
<1>6. goes(len, left)
  BY <1>5
<1> HIDE DEF left
<1>7. left[0] = m /\ \A n \in 1..len : left[n] = EvictOldest(left[n - 1])
  BY <1>1, <1>6
<1> DEFINE fine(x, n) == /\ TilesOK(x) /\ x.promises = m.promises
                         /\ m.cache # <<>> => x.cache # <<>> /\ Last(x.cache) = Last(m.cache)
                         /\ TooMuch(x) => Len(x.cache) = len - n
           Q == {k \in 0..len : fine(left[k], k)}
<1>8. 0..len \subseteq Q
  <2>1. 0 \in Q
    BY <1>1, <1>7 DEF len
  <2>2. ASSUME NEW n \in 1..len, n - 1 \in Q PROVE n \in Q
    <3> DEFINE x == left[n - 1]
               y == left[n]
    <3>1. y = EvictOldest(x) /\ fine(x, n - 1)
      BY <1>7, <2>2
    <3> HIDE DEF x, y
    <3>2. TilesOK(x) /\ x.promises = m.promises /\ TilesOK(y) /\ y.promises = m.promises
      BY <3>1, EvictOldestFacts
    <3>3. m.cache # <<>> => y.cache # <<>> /\ Last(y.cache) = Last(m.cache)
      BY <3>1, EvictOldestFacts
    <3>4. TooMuch(y) => Len(y.cache) = len - n
      <4> SUFFICES ASSUME TooMuch(y) PROVE Len(y.cache) = len - n
        OBVIOUS
      <4>1. TooMuch(x)
        BY <3>1, EvictOldestFacts
      <4>2. Len(y.cache) = Len(x.cache) - 1
        BY <3>1, <4>1, EvictOldestFacts
      <4>3. Len(x.cache) = len - (n - 1)
        BY <3>1, <4>1
      <4>4. len \in Int /\ n \in Int
        BY <1>1
      <4> HIDE <3>1, <1>7, <1>6
      <4> QED
        BY <4>2, <4>3, <4>4
    <3>5. fine(y, n)
      BY <3>2, <3>3, <3>4
    <3> QED
      BY <1>1, <3>5 DEF y
  <2> HIDE DEF Q
  <2> QED
    BY <1>1, <2>1, <2>2, UpTo
<1>9. fine(e, len)
  BY <1>1, <1>8
<1> HIDE DEF e
<1>10. ~TooMuch(e)
  <2>1. len - len = 0
    BY <1>1
  <2> QED
    BY <1>9, <2>1 DEF TooMuch
<1> QED
  BY <1>2, <1>9, <1>10

LEMMA TileAppendedFacts ==
  ASSUME NEW S, NEW q \in Seq(S), NEW x \in S
  PROVE  /\ Append(q, x) \in Seq(S) /\ Len(Append(q, x)) = Len(q) + 1 /\ Len(q) \in Nat
         /\ DOMAIN Append(q, x) = 1..Len(q) + 1
         /\ \A j \in 1..Len(q) : Append(q, x)[j] = q[j]
         /\ Append(q, x)[Len(q) + 1] = x
OBVIOUS

LEMMA AppendedOne ==
  ASSUME NEW m, CacheOK(m), NEW x \in CacheEntries, \A i \in DOMAIN m.cache : m.cache[i].key # x.key,
         NEW n, DOMAIN n = DOMAIN m, n.cache = Append(m.cache, x), n.bytes = m.bytes, n.total = m.total
  PROVE  CacheOK(n)
<1> DEFINE len == Len(m.cache)
<1>1. len \in Nat /\ DOMAIN m.cache = 1..len /\ HeldBytes(m) \in Seq(Int) /\ Len(HeldBytes(m)) = len
  BY HeldFacts
<1>2. /\ n.cache \in Seq(CacheEntries) /\ DOMAIN n.cache = 1..len + 1 /\ Len(n.cache) = len + 1
      /\ \A j \in 1..len : n.cache[j] = m.cache[j]
      /\ n.cache[len + 1] = x
  BY TileAppendedFacts DEF CacheOK
<1> HIDE DEF len
<1>3. \A j \in 1..len + 1 : j \in 1..len \/ j = len + 1
  BY <1>1
<1>4. \A i, j \in DOMAIN n.cache : n.cache[i].key = n.cache[j].key => i = j
  BY <1>1, <1>2, <1>3 DEF CacheOK
<1>5. /\ \A j \in 1..len : j \in 1..len + 1 /\ j # len + 1
      /\ len + 1 \in 1..len + 1
  BY <1>1
<1>6. DOMAIN n.bytes \subseteq {n.cache[j].key : j \in DOMAIN n.cache}
  BY <1>1, <1>2, <1>5 DEF CacheOK
<1>7. HeldBytes(n) = Append(HeldBytes(m), 0)
  <2> DEFINE a == Append(HeldBytes(m), 0)
  <2>1. /\ a \in Seq(Int) /\ Len(a) = len + 1 /\ DOMAIN a = 1..len + 1
        /\ \A j \in 1..len : a[j] = HeldBytes(m)[j]
        /\ a[len + 1] = 0
    BY <1>1, TileAppendedFacts
  <2>2. x.key \notin DOMAIN m.bytes
    BY DEF CacheOK
  <2>3. ASSUME NEW j \in 1..len + 1 PROVE BytesOf(n, n.cache[j].key) = a[j]
    <3>1. CASE j \in 1..len
      BY <1>1, <1>2, <2>1, <3>1 DEF HeldBytes, BytesOf
    <3>2. CASE j = len + 1
      BY <1>2, <2>1, <2>2, <3>2 DEF BytesOf
    <3> QED
      BY <1>3, <3>1, <3>2
  <2>4. HeldBytes(n) = [j \in 1..len + 1 |-> BytesOf(n, n.cache[j].key)]
    BY <1>2 DEF HeldBytes
  <2>5. a = [j \in 1..len + 1 |-> a[j]]
    <3> HIDE DEF a
    <3> QED
      BY <2>1
  <2> QED
    BY <2>3, <2>4, <2>5
<1>8. n.total = Summed(HeldBytes(n))
  <2>1. Summed(HeldBytes(n)) = Summed(HeldBytes(m)) + 0 /\ Summed(HeldBytes(m)) \in Int
    BY <1>1, <1>7, SummedAppend, SummedType
  <2> QED
    BY <2>1 DEF CacheOK
<1> QED
  BY <1>2, <1>4, <1>6, <1>8 DEF CacheOK

\* An entry that is hit becomes the newest.
LEMMA MovedOne ==
  ASSUME NEW m, CacheOK(m), NEW i \in DOMAIN m.cache,
         NEW n, DOMAIN n = DOMAIN m, n.cache = Append(RemoveAt(m.cache, i), m.cache[i]),
         n.bytes = m.bytes, n.total = m.total
  PROVE  /\ CacheOK(n) /\ Len(n.cache) = Len(m.cache)
         /\ EntriesOf(n, m)
<1> DEFINE len == Len(m.cache)
           from(j) == IF j = len THEN i ELSE IF j < i THEN j ELSE j + 1
<1>1. len \in Nat /\ DOMAIN m.cache = 1..len /\ HeldBytes(m) \in Seq(Int) /\ Len(HeldBytes(m)) = len /\ m.cache \in Seq(CacheEntries)
  BY HeldFacts DEF CacheOK
<1>2. ASSUME NEW S, NEW q \in Seq(S), Len(q) = len
      PROVE  /\ Append(RemoveAt(q, i), q[i]) \in Seq(S) /\ Len(Append(RemoveAt(q, i), q[i])) = len
             /\ DOMAIN Append(RemoveAt(q, i), q[i]) = 1..len
             /\ \A j \in 1..len : Append(RemoveAt(q, i), q[i])[j] = q[from(j)]
  <2> DEFINE r == RemoveAt(q, i)
  <2>1. i \in DOMAIN q /\ q[i] \in S /\ i \in 1..len
    BY <1>1, <1>2
  <2>2. /\ r \in Seq(S) /\ Len(r) = len - 1
        /\ \A j \in 1..len - 1 : r[j] = IF j < i THEN q[j] ELSE q[j + 1]
    BY <1>2, <2>1, RemoveAtFacts
  <2> HIDE DEF r, len
  <2>3. (len - 1) + 1 = len /\ len \in Nat
    BY <1>1
  <2>4. /\ Append(r, q[i]) \in Seq(S) /\ Len(Append(r, q[i])) = len /\ DOMAIN Append(r, q[i]) = 1..len
        /\ \A j \in 1..len - 1 : Append(r, q[i])[j] = r[j]
        /\ Append(r, q[i])[len] = q[i]
    <3>1. /\ Append(r, q[i]) \in Seq(S) /\ Len(Append(r, q[i])) = Len(r) + 1 /\ DOMAIN Append(r, q[i]) = 1..Len(r) + 1
          /\ \A j \in 1..Len(r) : Append(r, q[i])[j] = r[j]
          /\ Append(r, q[i])[Len(r) + 1] = q[i]
      BY <2>1, <2>2, TileAppendedFacts
    <3> QED
      BY <2>2, <2>3, <3>1
  <2>5. ASSUME NEW j \in 1..len PROVE Append(r, q[i])[j] = q[from(j)]
    <3>1. CASE j = len
      BY <2>4, <3>1
    <3>2. CASE j # len
      <4>1. j \in 1..len - 1
        BY <2>3, <3>2
      <4>2. Append(r, q[i])[j] = IF j < i THEN q[j] ELSE q[j + 1]
        BY <2>2, <2>4, <4>1
      <4> QED
        BY <3>2, <4>2
    <3> QED
      BY <3>1, <3>2
  <2> QED
    BY <2>4, <2>5 DEF r
<1>3. /\ \A j \in 1..len : from(j) \in 1..len
      /\ \A j, l \in 1..len : from(j) = from(l) => j = l
  <2>1. len \in Nat /\ i \in 1..len
    BY <1>1
  <2> HIDE DEF len
  <2>2. ASSUME NEW j \in 1..len PROVE from(j) \in 1..len
    BY <2>1
  <2>3. ASSUME NEW j \in 1..len, NEW l \in 1..len, from(j) = from(l) PROVE j = l
    BY <2>1, <2>3
  <2> QED
    BY <2>2, <2>3
<1>4. \A l \in 1..len : \E j \in 1..len : from(j) = l
  <2>1. len \in Nat /\ i \in 1..len
    BY <1>1
  <2> SUFFICES ASSUME NEW l \in 1..len PROVE \E j \in 1..len : from(j) = l
    OBVIOUS
  <2> HIDE DEF len
  <2>2. CASE l = i
    <3>1. len \in 1..len /\ from(len) = i
      BY <2>1
    <3> HIDE DEF from
    <3> QED
      BY <2>2, <3>1
  <2>3. CASE l < i
    <3>1. l \in 1..len /\ l # len
      BY <2>1, <2>3
    <3>2. from(l) = l
      BY <2>3, <3>1
    <3> HIDE DEF from
    <3> QED
      BY <3>2
  <2>4. CASE l > i
    <3>1. l - 1 \in 1..len /\ l - 1 # len /\ ~(l - 1 < i) /\ (l - 1) + 1 = l
      BY <2>1, <2>4
    <3>2. from(l - 1) = l
      BY <3>1
    <3> HIDE DEF from
    <3> QED
      BY <3>1, <3>2
  <2> QED
    BY <2>1, <2>2, <2>3, <2>4
<1>5. /\ n.cache \in Seq(CacheEntries) /\ Len(n.cache) = len /\ DOMAIN n.cache = 1..len
      /\ \A j \in 1..len : n.cache[j] = m.cache[from(j)]
  <2> DEFINE q == m.cache
  <2>1. q \in Seq(CacheEntries) /\ Len(q) = len /\ n.cache = Append(RemoveAt(q, i), q[i])
    BY <1>1
  <2> HIDE DEF from, len, q
  <2>2. /\ n.cache \in Seq(CacheEntries) /\ Len(n.cache) = len /\ DOMAIN n.cache = 1..len
        /\ \A j \in 1..len : n.cache[j] = q[from(j)]
    BY <1>2, <2>1
  <2> QED
    BY <2>2 DEF q
<1> HIDE DEF len, from
<1>6. \A j, l \in DOMAIN n.cache : n.cache[j].key = n.cache[l].key => j = l
  <2> SUFFICES ASSUME NEW j \in 1..len, NEW l \in 1..len, n.cache[j].key = n.cache[l].key PROVE j = l
    BY <1>5
  <2>1. m.cache[from(j)].key = m.cache[from(l)].key /\ from(j) \in DOMAIN m.cache /\ from(l) \in DOMAIN m.cache
    BY <1>1, <1>3, <1>5
  <2>2. from(j) = from(l)
    BY <2>1 DEF CacheOK
  <2> QED
    BY <1>3, <2>2
<1>7. DOMAIN n.bytes \subseteq {n.cache[j].key : j \in DOMAIN n.cache}
  <2> SUFFICES ASSUME NEW k \in DOMAIN n.bytes PROVE \E j \in DOMAIN n.cache : n.cache[j].key = k
    OBVIOUS
  <2>1. PICK l \in DOMAIN m.cache : m.cache[l].key = k
    BY DEF CacheOK
  <2>2. PICK j \in 1..len : from(j) = l
    BY <1>1, <1>4
  <2> QED
    BY <1>5, <2>1, <2>2
<1>8. HeldBytes(n) = Append(RemoveAt(HeldBytes(m), i), HeldBytes(m)[i])
  <2> DEFINE a == Append(RemoveAt(HeldBytes(m), i), HeldBytes(m)[i])
  <2>1. a \in Seq(Int) /\ Len(a) = len /\ \A j \in 1..len : a[j] = HeldBytes(m)[from(j)]
    BY <1>1, <1>2
  <2>2. ASSUME NEW j \in 1..len PROVE BytesOf(n, n.cache[j].key) = a[j]
    BY <1>1, <1>3, <1>5, <2>1 DEF HeldBytes, BytesOf
  <2>3. HeldBytes(n) = [j \in 1..len |-> BytesOf(n, n.cache[j].key)]
    BY <1>5 DEF HeldBytes
  <2> HIDE DEF a
  <2>4. a = [j \in 1..len |-> a[j]]
    BY <2>1
  <2>5. HeldBytes(n) = a
    BY <2>2, <2>3, <2>4
  <2> QED
    BY <2>5 DEF a
<1>9. n.total = Summed(HeldBytes(n))
  <2> DEFINE h == HeldBytes(m)
             r == RemoveAt(h, i)
  <2>1. h \in Seq(Int) /\ i \in DOMAIN h /\ h[i] \in Int
    BY <1>1
  <2>2. r \in Seq(Int)
    BY <2>1, RemoveAtFacts
  <2>3. Summed(r) = Summed(h) - h[i] /\ Summed(h) \in Int /\ Summed(Append(r, h[i])) = Summed(r) + h[i]
    BY <2>1, <2>2, SummedRemoveAt, SummedType, SummedAppend
  <2> HIDE DEF h, r
  <2>4. Summed(Append(r, h[i])) = Summed(h)
    BY <2>1, <2>3
  <2> QED
    BY <1>8, <2>4 DEF CacheOK, h, r
<1> QED
  BY <1>1, <1>3, <1>5, <1>6, <1>7, <1>9 DEF EntriesOf, CacheOK, len

LEMMA SetBytesFacts ==
  ASSUME NEW m, CacheOK(m), NEW i \in DOMAIN m.cache, NEW b \in Nat
  PROVE  LET s == setS1MCogTileCacheBytes(m, m.cache[i].key, b)
         IN  CacheOK(s) /\ s.cache = m.cache /\ s.promises = m.promises
<1> DEFINE k == m.cache[i].key
           s == setS1MCogTileCacheBytes(m, k, b)
           len == Len(m.cache)
<1>1. /\ DOMAIN s = DOMAIN m /\ s.cache = m.cache /\ s.promises = m.promises
      /\ s.bytes = Plus(m.bytes, k, b) /\ s.total = m.total - BytesOf(m, k) + b
  BY DEF setS1MCogTileCacheBytes, CacheOK
<1>2. /\ DOMAIN s.bytes = DOMAIN m.bytes \cup {k} /\ s.bytes[k] = b
      /\ \A x \in DOMAIN m.bytes : x # k => s.bytes[x] = m.bytes[x]
  BY <1>1 DEF Plus
<1> HIDE DEF s
<1>3. /\ DOMAIN s.bytes \subseteq {s.cache[j].key : j \in DOMAIN s.cache}
      /\ \A x \in DOMAIN s.bytes : s.bytes[x] \in Nat
  BY <1>1, <1>2 DEF CacheOK
<1>4. s.total = Summed(HeldBytes(s))
  <2>1. /\ len \in Nat /\ DOMAIN m.cache = 1..len /\ HeldBytes(m) \in Seq(Int) /\ Len(HeldBytes(m)) = len
        /\ \A x : BytesOf(m, x) \in Nat
    BY HeldFacts
  <2>2. \A x : BytesOf(s, x) = IF x = k THEN b ELSE BytesOf(m, x)
    BY <1>2 DEF BytesOf
  <2> DEFINE h == HeldBytes(m)
             a == HeldBytes(s)
  <2>3. a = [j \in 1..len |-> BytesOf(s, m.cache[j].key)] /\ h = [j \in 1..len |-> BytesOf(m, m.cache[j].key)]
    BY <1>1, <2>1 DEF HeldBytes
  <2>4. h[i] = BytesOf(m, k) /\ a[i] = b /\ h[i] \in Int
    BY <2>1, <2>2, <2>3
  <2>5. \A j \in 1..len : j # i => a[j] = h[j]
    <3> SUFFICES ASSUME NEW j \in 1..len, j # i PROVE a[j] = h[j]
      OBVIOUS
    <3>1. m.cache[j].key # k
      BY <2>1 DEF CacheOK
    <3> QED
      BY <2>2, <2>3, <3>1
  <2>6. \A j \in 1..len : a[j] \in Int
    BY <2>1, <2>2, <2>3
  <2>7. DOMAIN h = 1..len /\ i \in 1..len /\ h \in Seq(Int) /\ Len(h) = len
    BY <2>1
  <2>8. a \in [1..len -> Int]
    BY <2>3, <2>6
  <2> HIDE DEF h, a, k, len
  <2>9. a \in Seq(Int) /\ Len(a) = len
    BY <2>1, <2>8
  <2>10. Summed(a) = Summed(h) - h[i] + a[i]
    <3>1. Len(a) = Len(h) /\ i \in DOMAIN h /\ \A j \in DOMAIN h : j # i => a[j] = h[j]
      BY <2>5, <2>7, <2>9
    <3> QED
      BY <2>7, <2>9, <3>1, SummedUpdate, Zenon
  <2>11. Summed(h) = m.total
    BY DEF CacheOK, h
  <2> QED
    BY <1>1, <2>4, <2>10, <2>11 DEF a
<1>5. CacheOK(s)
  BY <1>1, <1>3, <1>4 DEF CacheOK
<1> QED
  BY <1>1, <1>5 DEF s

LEMMA NewIdFacts ==
  ASSUME NEW m, PromisesOK(m)
  PROVE  NewId(m) \in Nat /\ NewId(m) \notin DOMAIN m.promises
<1> DEFINE n == Cardinality(DOMAIN m.promises)
           S == 1..n + 1
<1>1. n \in Nat /\ IsFiniteSet(DOMAIN m.promises)
  BY FS_CardinalityType DEF PromisesOK
<1>2. IsFiniteSet(S) /\ Cardinality(S) = n + 1
  <2>1. 1 \in Int /\ n + 1 \in Int /\ ~(1 > n + 1) /\ (n + 1) - 1 + 1 = n + 1
    BY <1>1
  <2> HIDE DEF n
  <2> QED
    BY <2>1, FS_Interval
<1>3. ~(S \subseteq DOMAIN m.promises)
  <2> SUFFICES ASSUME S \subseteq DOMAIN m.promises PROVE FALSE
    OBVIOUS
  <2>1. Cardinality(S) <= n
    BY <1>1, FS_Subset
  <2> QED
    BY <1>1, <1>2, <2>1
<1>4. \E i \in S : i \notin DOMAIN m.promises
  BY <1>3
<1>5. NewId(m) = CHOOSE i \in S : i \notin DOMAIN m.promises
  BY DEF NewId
<1>6. S \subseteq Nat
  BY <1>1
<1> HIDE DEF S
<1> QED
  BY <1>4, <1>5, <1>6

\* Promises are only added, and those that are have the current revision.
Grown(m, g) ==
  /\ DOMAIN m.promises \subseteq DOMAIN g.promises
  /\ \A id \in DOMAIN g.promises :
       IF id \in DOMAIN m.promises THEN g.promises[id] = m.promises[id]
       ELSE g.promises[id].key[2] = imageryRevision /\ g.promises[id].state = "pending"

LEMMA GrownTransitive ==
  ASSUME NEW m, NEW g, NEW h, Grown(m, g), Grown(g, h)
  PROVE  Grown(m, h)
BY DEF Grown

LEMMA GetTileFacts ==
  ASSUME NEW m, TilesOK(m), ~TooMuch(m), NEW t \in DOMAIN Size, imageryRevision \in Nat
  PROVE  LET g == getDrapeCogTile(m, t)
             id == Last(g.cache).promise
         IN  /\ TilesOK(g) /\ ~TooMuch(g) /\ Grown(m, g)
             /\ id \in DOMAIN g.promises /\ g.promises[id].key = <<t, imageryRevision>>
<1> DEFINE k == <<t, imageryRevision>>
           g == getDrapeCogTile(m, t)
           id == NewId(m)
<1>0. k \in TileKeys
  BY DEF TileKeys
<1>1. CASE CachedAt(m, k) # {}
  <2>1. PICK i \in DOMAIN m.cache : i = (CHOOSE j \in CachedAt(m, k) : TRUE) /\ m.cache[i].key = k
    BY <1>1 DEF CachedAt
  <2>2. g = [m EXCEPT !.cache = Append(WithoutKey(m, k), m.cache[i])]
    BY <1>1, <2>1 DEF getDrapeCogTile
  <2>3. /\ DOMAIN g = DOMAIN m /\ g.cache = Append(RemoveAt(m.cache, i), m.cache[i])
        /\ g.bytes = m.bytes /\ g.total = m.total /\ g.promises = m.promises
    BY <1>1, <2>1, <2>2 DEF WithoutKey, TilesOK, CacheOK
  <2> HIDE DEF g, k
  <2>4. CacheOK(g) /\ Len(g.cache) = Len(m.cache)
    BY <2>3, MovedOne DEF TilesOK
  <2>5. EntriesOf(g, m)
    BY <2>3, MovedOne DEF TilesOK
  <2>6. PromisesOK(g)
    BY <2>3, <2>5, FewerPromised DEF TilesOK
  <2>7. ~TooMuch(g) /\ Grown(m, g)
    BY <2>3, <2>4 DEF TooMuch, Grown
  <2>8. Last(g.cache) = m.cache[i]
    <3>1. m.cache \in Seq(CacheEntries) /\ RemoveAt(m.cache, i) \in Seq(CacheEntries) /\ m.cache[i] \in CacheEntries
      BY RemoveAtFacts DEF TilesOK, CacheOK
    <3>2. g.cache[Len(RemoveAt(m.cache, i)) + 1] = m.cache[i] /\ Len(g.cache) = Len(RemoveAt(m.cache, i)) + 1
      BY <2>3, <3>1, TileAppendedFacts
    <3> QED
      BY <3>2 DEF Last
  <2>9. m.cache[i].promise \in DOMAIN m.promises /\ m.promises[m.cache[i].promise].key = k
    BY <2>1 DEF TilesOK, PromisesOK
  <2> QED
    BY <2>3, <2>4, <2>6, <2>7, <2>8, <2>9 DEF TilesOK, g, k
<1>2. CASE CachedAt(m, k) = {}
  <2> DEFINE p == [key |-> k, state |-> "pending", shown |-> Clear]
             x == [key |-> k, promise |-> id]
             n == [m EXCEPT !.promises = Plus(@, id, p), !.cache = Append(@, x)]
  <2>1. g = evictS1MCogTileCache(n)
    BY <1>2 DEF getDrapeCogTile
  <2>2. id \in Nat /\ id \notin DOMAIN m.promises
    BY NewIdFacts DEF TilesOK
  <2>3. p \in Promises0 /\ x \in CacheEntries
    BY <1>0, <2>2 DEF Promises0, CacheEntries
  <2>4. p.key = k /\ p.state = "pending" /\ x.key = k /\ x.promise = id
    OBVIOUS
  <2>5. /\ DOMAIN n = DOMAIN m /\ n.cache = Append(m.cache, x) /\ n.bytes = m.bytes /\ n.total = m.total
        /\ n.promises = Plus(m.promises, id, p)
    BY DEF TilesOK, CacheOK
  <2> HIDE DEF p, x, n, id, g
  <2>6. \A i \in DOMAIN m.cache : m.cache[i].key # x.key
    BY <1>2, <2>4 DEF CachedAt
  <2>7. CacheOK(n)
    BY <2>3, <2>5, <2>6, AppendedOne DEF TilesOK
  <2>8. /\ DOMAIN n.promises = DOMAIN m.promises \cup {id} /\ n.promises[id] = p
        /\ \A j \in DOMAIN m.promises : n.promises[j] = m.promises[j]
    BY <2>2, <2>5 DEF Plus
  <2>9. /\ DOMAIN n.cache = 1..Len(m.cache) + 1 /\ Len(n.cache) = Len(m.cache) + 1
        /\ \A j \in 1..Len(m.cache) : n.cache[j] = m.cache[j]
        /\ n.cache[Len(m.cache) + 1] = x /\ Len(m.cache) \in Nat /\ DOMAIN m.cache = 1..Len(m.cache)
    BY <2>3, <2>5, TileAppendedFacts, HeldFacts DEF TilesOK, CacheOK
  <2>10. PromisesOK(n)
    <3>1. IsFiniteSet(DOMAIN n.promises) /\ DOMAIN n.promises \subseteq Nat
      BY <2>2, <2>8, FS_AddElement DEF TilesOK, PromisesOK
    <3>2. ASSUME NEW j \in DOMAIN n.promises
          PROVE  n.promises[j] \in Promises0 /\ (n.promises[j].state = "ready" => n.promises[j].shown \in Displays)
      BY <2>3, <2>4, <2>8 DEF TilesOK, PromisesOK
    <3>3. ASSUME NEW j \in DOMAIN n.cache
          PROVE  n.cache[j].promise \in DOMAIN n.promises /\ n.promises[n.cache[j].promise].key = n.cache[j].key
      <4>1. CASE j \in 1..Len(m.cache)
        BY <2>8, <2>9, <4>1 DEF TilesOK, PromisesOK
      <4>2. CASE j = Len(m.cache) + 1
        BY <2>4, <2>8, <2>9, <4>2
      <4> QED
        BY <2>9, <4>1, <4>2
    <3> QED
      BY <3>1, <3>2, <3>3 DEF PromisesOK
  <2>11. Last(n.cache) = x /\ n.cache # <<>>
    BY <2>9 DEF Last
  <2>12. TilesOK(g) /\ g.promises = n.promises /\ ~TooMuch(g) /\ Last(g.cache) = x
    BY <2>1, <2>7, <2>10, <2>11, EvictFacts DEF TilesOK
  <2>13. Grown(m, g)
    <3>1. k[2] = imageryRevision
      OBVIOUS
    <3> QED
      BY <2>2, <2>4, <2>8, <2>12, <3>1 DEF Grown
  <2> QED
    BY <2>4, <2>8, <2>12, <2>13 DEF g
<1> QED
  BY <1>1, <1>2

\* The first n tiles of an image have been asked.
TilesAsked(m, cover, a, n) ==
  /\ TilesOK(a.m) /\ ~TooMuch(a.m) /\ Grown(m, a.m) /\ a.ids \in Seq(Nat) /\ Len(a.ids) = n
  /\ \A k \in 1..n : /\ a.ids[k] \in DOMAIN a.m.promises
                      /\ a.m.promises[a.ids[k]].key = <<cover[k], imageryRevision>>

LEMMA AskTileFacts ==
  ASSUME NEW m, NEW cover \in Seq(DOMAIN Size), imageryRevision \in Nat,
         NEW n \in 1..Len(cover), NEW a, TilesAsked(m, cover, a, n - 1)
  PROVE  TilesAsked(m, cover, AskTile(a, cover[n]), n)
<1> USE DEF TilesAsked
<1> DEFINE h == getDrapeCogTile(a.m, cover[n])
           id == Last(h.cache).promise
           g == AskTile(a, cover[n])
<1>1. g.m = h /\ g.ids = Append(a.ids, id)
  BY DEF AskTile
<1>2. /\ TilesOK(h) /\ ~TooMuch(h) /\ Grown(a.m, h)
      /\ id \in DOMAIN h.promises /\ h.promises[id].key = <<cover[n], imageryRevision>>
  <2>1. cover[n] \in DOMAIN Size
    OBVIOUS
  <2> QED
    BY <2>1, GetTileFacts
<1> HIDE DEF g, h, id
<1>3. Grown(m, h)
  BY <1>2, GrownTransitive
<1>4. id \in Nat
  BY <1>2 DEF TilesOK, PromisesOK
<1>5. n \in Nat /\ (n - 1) + 1 = n
  BY DEF g
<1>6. /\ g.ids \in Seq(Nat) /\ Len(g.ids) = n
      /\ \A k \in 1..n - 1 : g.ids[k] = a.ids[k]
      /\ g.ids[n] = id
  <2>1. /\ Append(a.ids, id) \in Seq(Nat) /\ Len(Append(a.ids, id)) = Len(a.ids) + 1
        /\ \A j \in 1..Len(a.ids) : Append(a.ids, id)[j] = a.ids[j]
        /\ Append(a.ids, id)[Len(a.ids) + 1] = id
    BY <1>4, TileAppendedFacts
  <2> QED
    BY <1>1, <1>5, <2>1
<1>7. ASSUME NEW k \in 1..n
      PROVE  g.ids[k] \in DOMAIN h.promises /\ h.promises[g.ids[k]].key = <<cover[k], imageryRevision>>
  <2>1. CASE k = n
    BY <1>2, <1>6, <2>1
  <2>2. CASE k # n
    <3>1. k \in 1..n - 1
      BY <1>5, <2>2
    <3>2. a.ids[k] \in DOMAIN a.m.promises /\ a.m.promises[a.ids[k]].key = <<cover[k], imageryRevision>>
      BY <3>1
    <3>3. a.ids[k] \in DOMAIN h.promises /\ h.promises[a.ids[k]] = a.m.promises[a.ids[k]]
      BY <1>2, <3>2 DEF Grown
    <3> QED
      BY <1>6, <3>1, <3>2, <3>3
  <2> QED
    BY <2>1, <2>2
<1> QED
  BY <1>1, <1>2, <1>3, <1>6, <1>7 DEF g

LEMMA AskTilesFacts ==
  ASSUME NEW m, TilesOK(m), ~TooMuch(m), imageryRevision \in Nat, NEW cover \in Seq(DOMAIN Size)
  PROVE  LET a == AskTiles(m, cover)
         IN  TilesAsked(m, cover, a, Len(cover))
<1> DEFINE len == Len(cover)
           first == [m |-> m, ids |-> <<>>]
           goes(k, f) == f = [n \in 0..k |-> IF n = 0 THEN first ELSE AskTile(f[n - 1], cover[n])]
           P == {k \in 0..len : \E f : goes(k, f)}
           asked == CHOOSE f : goes(len, f)
           a == asked[len]
<1>1. len \in Nat /\ \A n \in 1..len : cover[n] \in DOMAIN Size
  OBVIOUS
<1>2. AskTiles(m, cover) = a
  BY DEF AskTiles
<1>0. first.m = m /\ first.ids = <<>>
  OBVIOUS
<1> HIDE DEF len, first
<1>3. 0 \in P
  <2>1. goes(0, [n \in 0..0 |-> first])
    OBVIOUS
  <2> HIDE DEF goes
  <2> QED
    BY <1>1, <2>1
<1>4. \A k \in 1..len : k - 1 \in P => k \in P
  <2> SUFFICES ASSUME NEW k \in 1..len, k - 1 \in P PROVE k \in P
    OBVIOUS
  <2>1. PICK f : goes(k - 1, f)
    OBVIOUS
  <2> DEFINE g == [n \in 0..k |-> IF n = k THEN AskTile(f[k - 1], cover[k]) ELSE f[n]]
  <2>2. \A n \in 0..k : g[n] = IF n = 0 THEN first ELSE AskTile(g[n - 1], cover[n])
    <3> SUFFICES ASSUME NEW n \in 0..k
                 PROVE  g[n] = IF n = 0 THEN first ELSE AskTile(g[n - 1], cover[n])
      OBVIOUS
    <3>1. CASE n = k
      <4>1. n - 1 \in 0..k /\ n - 1 # k /\ n # 0
        BY <3>1, <1>1
      <4> QED
        BY <3>1, <4>1
    <3>2. CASE n # k /\ n # 0
      <4>1. n - 1 \in 0..k /\ n - 1 # k /\ n \in 0..k - 1
        BY <3>2, <1>1
      <4> QED
        BY <3>2, <4>1, <2>1
    <3>3. CASE n # k /\ n = 0
      BY <3>3, <2>1
    <3> QED
      BY <3>1, <3>2, <3>3
  <2>3. goes(k, g)
    BY <2>2
  <2> HIDE DEF goes, g
  <2> QED
    BY <2>3
<1>5. len \in P
  <2> HIDE DEF P
  <2>1. 0..len \subseteq P
    BY <1>1, <1>3, <1>4, UpTo
  <2> QED
    BY <1>1, <2>1
<1>6. goes(len, asked)
  BY <1>5
<1> HIDE DEF asked
<1>7. asked[0] = first /\ \A n \in 1..len : asked[n] = AskTile(asked[n - 1], cover[n])
  BY <1>1, <1>6
<1> DEFINE good(x, n) == TilesAsked(m, cover, x, n)
           Q == {k \in 0..len : good(asked[k], k)}
<1>8. 0..len \subseteq Q
  <2>1. 0 \in Q
    <3>1. Grown(m, m)
      BY DEF Grown
    <3>2. good(first, 0)
      BY <1>0, <3>1 DEF TilesAsked
    <3> QED
      BY <1>1, <1>7, <3>2
  <2>2. ASSUME NEW n \in 1..len, n - 1 \in Q PROVE n \in Q
    <3> DEFINE x == asked[n - 1]
               y == asked[n]
    <3>1. y = AskTile(x, cover[n]) /\ good(x, n - 1) /\ n \in 1..Len(cover) /\ cover[n] \in DOMAIN Size
      BY <1>1, <1>7, <2>2 DEF len
    <3> HIDE DEF x, y
    <3>2. good(y, n)
      BY <3>1, AskTileFacts
    <3> QED
      BY <1>1, <3>2 DEF y
  <2> HIDE DEF Q
  <2> QED
    BY <1>1, <2>1, <2>2, UpTo
<1>9. good(a, len)
  BY <1>1, <1>8
<1> QED
  BY <1>2, <1>9 DEF len

LEMMA ClearFacts ==
  ASSUME NEW m, TilesOK(m)
  PROVE  LET c == clearS1MCogTileCacheEntries(m)
         IN  TilesOK(c) /\ c.promises = m.promises /\ ~TooMuch(c)
<1> DEFINE c == clearS1MCogTileCacheEntries(m)
<1>1. /\ DOMAIN c = DOMAIN m /\ c.promises = m.promises /\ c.cache = <<>> /\ c.bytes = <<>> /\ c.total = 0
  BY DEF clearS1MCogTileCacheEntries, TilesOK, CacheOK
<1> HIDE DEF c
<1>2. HeldBytes(c) = <<>>
  BY <1>1 DEF HeldBytes
<1>3. DOMAIN c.cache = {} /\ DOMAIN c.bytes = {} /\ Len(c.cache) = 0 /\ c.cache \in Seq(CacheEntries)
  BY <1>1
<1>4. CacheOK(c)
  BY <1>1, <1>2, <1>3, SummedEmpty DEF TilesOK, CacheOK
<1>5. PromisesOK(c)
  BY <1>1, <1>3 DEF TilesOK, PromisesOK
<1> QED
  BY <1>1, <1>3, <1>4, <1>5 DEF TilesOK, TooMuch, c

LEMMA UncollectedFacts ==
  ASSUME NEW m, TilesOK(m), NEW all
  PROVE  LET u == Uncollected(m, all)
         IN  /\ TilesOK(u) /\ (TooMuch(u) <=> TooMuch(m))
             /\ u.cache = m.cache /\ u.bytes = m.bytes /\ u.total = m.total
             /\ DOMAIN u.promises \subseteq DOMAIN m.promises
             /\ \A id \in DOMAIN u.promises : u.promises[id] = m.promises[id]
             /\ \A b \in DOMAIN all : \A k \in DOMAIN all[b].awaits :
                  all[b].awaits[k] \in DOMAIN m.promises => all[b].awaits[k] \in DOMAIN u.promises
<1> DEFINE u == Uncollected(m, all)
           held == {m.cache[i].promise : i \in DOMAIN m.cache} \cup UNION {ToSet(all[b].awaits) : b \in DOMAIN all}
           stay == {id \in DOMAIN m.promises : m.promises[id].state = "pending" \/ id \in held}
<1>1. /\ DOMAIN u = DOMAIN m /\ u.cache = m.cache /\ u.bytes = m.bytes /\ u.total = m.total
      /\ DOMAIN u.promises = stay /\ \A id \in stay : u.promises[id] = m.promises[id]
  BY DEF Uncollected, TilesOK, CacheOK
<1>2. ASSUME NEW b \in DOMAIN all, NEW k \in DOMAIN all[b].awaits PROVE all[b].awaits[k] \in held
  BY DEF ToSet
<1>3. \A i \in DOMAIN m.cache : m.cache[i].promise \in stay
  BY DEF TilesOK, PromisesOK
<1>4. stay \subseteq DOMAIN m.promises /\ \A id \in DOMAIN m.promises : id \in held => id \in stay
  OBVIOUS
<1> HIDE DEF u, held, stay
<1>5. HeldBytes(u) = HeldBytes(m)
  BY <1>1 DEF HeldBytes, BytesOf
<1>6. CacheOK(u)
  BY <1>1, <1>5 DEF TilesOK, CacheOK
<1>7. PromisesOK(u)
  <2>1. IsFiniteSet(stay)
    BY <1>4, FS_Subset DEF TilesOK, PromisesOK
  <2> QED
    BY <1>1, <1>3, <1>4, <2>1 DEF TilesOK, PromisesOK
<1>8. TooMuch(u) <=> TooMuch(m)
  BY <1>1 DEF TooMuch
<1> QED
  BY <1>1, <1>2, <1>4, <1>6, <1>7, <1>8 DEF TilesOK, u

-----------------------------------------------------------------------------
(* The textures: what they wait for and what they have painted.            *)

Textures0 ==
  [region : Regions, sources : Seq(DOMAIN Pool), revision : Nat, next : Nat, awaits : Seq(Nat), filled : Nat,
   out : [Pixels -> {Clear} \cup ((DOMAIN Pool) \X Displays)], state : {"open", "tiles", "done", "failed"}]

\* A tile that was asked at the current revision shows the current settings, once no frame is due.
ShownOK(m, d, f, v) ==
  \A id \in DOMAIN m.promises :
    LET p == m.promises[id]
    IN  p.key[2] <= v /\ (p.state = "ready" /\ p.key[2] = v /\ ~f => p.shown = d)

\* It waits for the tiles of its next image, asked since it began.
AwaitsOK(b, m) ==
  LET cover == Cover[b.sources[b.next]][b.region]
  IN  /\ Len(b.awaits) = Len(cover)
      /\ \A k \in 1..Len(cover) :
           /\ b.awaits[k] \in DOMAIN m.promises
           /\ m.promises[b.awaits[k]].key[1] = cover[k] /\ b.revision <= m.promises[b.awaits[k]].key[2]
TextureOK(b, m, v) ==
  /\ b.next \in 1..Len(b.sources) /\ b.revision <= v
  /\ b.filled = Cardinality({p \in Pixels : b.out[p] # Clear})
  /\ b.state = "done" => b.next = Len(b.sources) \/ \A p \in Pixels : b.out[p] # Clear
  /\ b.state = "tiles" => AwaitsOK(b, m)

\* The k-th image shows at a pixel; the first of n that does is what was painted there.
Shows(b, k, p, d) == TileAt[b.sources[k]][b.region][p] # Clear /\ d \in Opaque[b.sources[k]][b.region][p]
FirstOf(b, p, d, n) ==
  \/ b.out[p] = Clear /\ \A k \in 1..n : ~Shows(b, k, p, d)
  \/ \E k \in 1..n : Shows(b, k, p, d) /\ (\A j \in 1..k - 1 : ~Shows(b, j, p, d)) /\ b.out[p] = <<b.sources[k], d>>
PictureOK(b, d, f, v) ==
  b.state # "failed" /\ b.revision = v /\ ~f =>
    \A p \in Pixels : FirstOf(b, p, d, IF b.state = "done" THEN b.next ELSE b.next - 1)

DrapeInv ==
  /\ display \in Displays /\ frame \in BOOLEAN /\ imageryRevision \in Nat
  /\ TilesOK(decoded) /\ ~TooMuch(decoded) /\ ShownOK(decoded, display, frame, imageryRevision)
  /\ textures \in Seq(Textures0)
  /\ \A n \in DOMAIN textures : /\ TextureOK(textures[n], decoded, imageryRevision)
                                /\ PictureOK(textures[n], display, frame, imageryRevision)

LEMMA BecomesFacts ==
  ASSUME NEW d \in Displays, NEW f \in BOOLEAN, NEW v \in Nat, display' = d, frame' = f, imageryRevision' = v,
         NEW m, TilesOK(m), ~TooMuch(m), ShownOK(m, d, f, v), NEW all \in Seq(Textures0),
         \A n \in DOMAIN all : TextureOK(all[n], m, v) /\ PictureOK(all[n], d, f, v),
         Becomes(m, all)
  PROVE  DrapeInv'
<1> DEFINE u == Uncollected(m, all)
<1>1. decoded' = u /\ textures' = all
  BY DEF Becomes
<1>2. /\ TilesOK(u) /\ ~TooMuch(u) /\ DOMAIN u.promises \subseteq DOMAIN m.promises
      /\ \A id \in DOMAIN u.promises : u.promises[id] = m.promises[id]
      /\ \A b \in DOMAIN all : \A k \in DOMAIN all[b].awaits :
           all[b].awaits[k] \in DOMAIN m.promises => all[b].awaits[k] \in DOMAIN u.promises
  BY UncollectedFacts
<1> HIDE DEF u
<1>3. ShownOK(u, d, f, v)
  BY <1>2 DEF ShownOK
<1>4. ASSUME NEW n \in DOMAIN all PROVE TextureOK(all[n], u, v)
  <2> DEFINE b == all[n]
             cover == Cover[b.sources[b.next]][b.region]
  <2>1. TextureOK(b, m, v) /\ b \in Textures0
    OBVIOUS
  <2>2. ASSUME b.state = "tiles" PROVE AwaitsOK(b, u)
    <3>1. AwaitsOK(b, m) /\ b.awaits \in Seq(Nat)
      BY <2>1, <2>2 DEF TextureOK, Textures0
    <3>2. Len(b.awaits) = Len(cover) /\ DOMAIN b.awaits = 1..Len(cover)
      BY <3>1 DEF AwaitsOK
    <3>3. ASSUME NEW k \in 1..Len(cover)
          PROVE  /\ b.awaits[k] \in DOMAIN u.promises
                 /\ u.promises[b.awaits[k]].key[1] = cover[k] /\ b.revision <= u.promises[b.awaits[k]].key[2]
      <4>1. /\ b.awaits[k] \in DOMAIN m.promises
            /\ m.promises[b.awaits[k]].key[1] = cover[k] /\ b.revision <= m.promises[b.awaits[k]].key[2]
        BY <3>1 DEF AwaitsOK
      <4>2. b.awaits[k] \in DOMAIN u.promises
        BY <1>2, <3>2, <4>1
      <4>3. u.promises[b.awaits[k]] = m.promises[b.awaits[k]]
        BY <1>2, <4>2
      <4> QED
        BY <4>1, <4>2, <4>3
    <3>4. cover = Cover[b.sources[b.next]][b.region]
      OBVIOUS
    <3> HIDE DEF b, cover
    <3>5. AwaitsOK(b, u) <=> /\ Len(b.awaits) = Len(cover)
                             /\ \A k \in 1..Len(cover) :
                                  /\ b.awaits[k] \in DOMAIN u.promises
                                  /\ u.promises[b.awaits[k]].key[1] = cover[k]
                                  /\ b.revision <= u.promises[b.awaits[k]].key[2]
      BY <3>4, Zenon DEF AwaitsOK
    <3> QED
      BY <3>2, <3>3, <3>5, Zenon
  <2> HIDE DEF b
  <2> QED
    BY <2>1, <2>2 DEF TextureOK, b
<1> QED
  BY <1>1, <1>2, <1>3, <1>4 DEF DrapeInv

\* The textures stay, as the promises change or are asked.
LEMMA TextureStays ==
  ASSUME NEW b, NEW m, NEW g, NEW v \in Nat, NEW w \in Nat, TextureOK(b, m, v), b \in Textures0, v <= w,
         DOMAIN m.promises \subseteq DOMAIN g.promises,
         \A id \in DOMAIN m.promises : g.promises[id].key = m.promises[id].key
  PROVE  TextureOK(b, g, w)
<1>1. b.revision \in Nat
  BY DEF Textures0
<1>2. b.revision <= w
  BY <1>1 DEF TextureOK
<1>3. b.state = "tiles" => AwaitsOK(b, g)
  BY DEF TextureOK, AwaitsOK
<1> QED
  BY <1>2, <1>3 DEF TextureOK

LEMMA PictureLater ==
  ASSUME NEW b \in Textures0, NEW m, NEW v \in Nat, TextureOK(b, m, v), NEW d, NEW f
  PROVE  PictureOK(b, d, f, v + 1) /\ PictureOK(b, d, TRUE, v)
<1>1. b.revision \in Nat /\ b.revision <= v
  BY DEF Textures0, TextureOK
<1>2. b.revision # v + 1
  BY <1>1
<1> QED
  BY <1>2 DEF PictureOK

LEMMA PromiseChanges ==
  ASSUME NEW m, TilesOK(m), NEW id \in DOMAIN m.promises, NEW q \in Promises0,
         q.key = m.promises[id].key, q.state = "ready" => q.shown \in Displays,
         NEW n, n = [m EXCEPT !.promises[id] = q]
  PROVE  /\ TilesOK(n) /\ n.cache = m.cache /\ (TooMuch(n) <=> TooMuch(m))
         /\ DOMAIN n.promises = DOMAIN m.promises /\ n.promises[id] = q
         /\ \A i \in DOMAIN m.promises : i # id => n.promises[i] = m.promises[i]
<1>1. /\ DOMAIN n = DOMAIN m /\ n.cache = m.cache /\ n.bytes = m.bytes /\ n.total = m.total
      /\ n.promises = [m.promises EXCEPT ![id] = q]
  BY DEF TilesOK, CacheOK
<1>2. /\ DOMAIN n.promises = DOMAIN m.promises /\ n.promises[id] = q
      /\ \A i \in DOMAIN m.promises : i # id => n.promises[i] = m.promises[i]
  BY <1>1
<1>3. HeldBytes(n) = HeldBytes(m)
  BY <1>1 DEF HeldBytes, BytesOf
<1>4. CacheOK(n)
  BY <1>1, <1>3 DEF TilesOK, CacheOK
<1>5. PromisesOK(n)
  <2>1. ASSUME NEW i \in DOMAIN n.promises
        PROVE  n.promises[i] \in Promises0 /\ (n.promises[i].state = "ready" => n.promises[i].shown \in Displays)
    BY <1>2 DEF TilesOK, PromisesOK
  <2>2. ASSUME NEW i \in DOMAIN n.cache
        PROVE  n.cache[i].promise \in DOMAIN n.promises /\ n.promises[n.cache[i].promise].key = n.cache[i].key
    BY <1>1, <1>2 DEF TilesOK, PromisesOK
  <2>3. IsFiniteSet(DOMAIN n.promises) /\ DOMAIN n.promises \subseteq Nat
    BY <1>2 DEF TilesOK, PromisesOK
  <2> QED
    BY <2>1, <2>2, <2>3 DEF PromisesOK
<1> QED
  BY <1>1, <1>2, <1>4, <1>5 DEF TilesOK, TooMuch

LEMMA StepTileDecoded ==
  ASSUME DrapeInv, NEW id \in DOMAIN decoded.promises, TileDecoded(id)
  PROVE  DrapeInv'
<1> DEFINE p == decoded.promises[id]
           q == [p EXCEPT !.state = "ready", !.shown = display]
           m == [decoded EXCEPT !.promises[id] = q]
           there == \E i \in DOMAIN m.cache : m.cache[i] = [key |-> p.key, promise |-> id]
           g == IF there THEN evictS1MCogTileCache(setS1MCogTileCacheBytes(m, p.key, Size[p.key[1]])) ELSE m
<1>1. Becomes(g, textures) /\ UNCHANGED <<display, frame, imageryRevision>>
  BY DEF TileDecoded
<1>2. p \in Promises0 /\ display \in Displays
  BY DEF DrapeInv, TilesOK, PromisesOK
<1>3. q \in Promises0 /\ q.key = p.key /\ q.state = "ready" /\ q.shown = display
  BY <1>2 DEF Promises0
<1>4. p.key \in TileKeys /\ p.key[1] \in DOMAIN Size
  BY <1>2 DEF Promises0, TileKeys
<1> HIDE DEF q
<1>5. m = [decoded EXCEPT !.promises[id] = q]
  OBVIOUS
<1> HIDE DEF m
<1>6. /\ TilesOK(m) /\ m.cache = decoded.cache /\ ~TooMuch(m)
      /\ DOMAIN m.promises = DOMAIN decoded.promises /\ m.promises[id] = q
      /\ \A i \in DOMAIN decoded.promises : i # id => m.promises[i] = decoded.promises[i]
  BY <1>2, <1>3, <1>5, PromiseChanges DEF DrapeInv
<1>7. TilesOK(g) /\ ~TooMuch(g) /\ g.promises = m.promises
  <2>1. CASE ~there
    BY <1>6, <2>1
  <2>2. CASE there
    <3>1. PICK i \in DOMAIN m.cache : m.cache[i] = [key |-> p.key, promise |-> id]
      BY <2>2
    <3>2. m.cache[i].key = p.key /\ Size[p.key[1]] \in Nat
      BY <1>4, <3>1, DrapeAssumption
    <3> DEFINE s == setS1MCogTileCacheBytes(m, p.key, Size[p.key[1]])
    <3>3. CacheOK(s) /\ s.cache = m.cache /\ s.promises = m.promises
      <4>1. CacheOK(m)
        BY <1>6 DEF TilesOK
      <4> HIDE DEF p
      <4> QED
        BY <3>2, <4>1, SetBytesFacts
    <3>4. g = evictS1MCogTileCache(s)
      BY <2>2
    <3> HIDE DEF s, g
    <3>5. TilesOK(s)
      BY <1>6, <3>3 DEF TilesOK, PromisesOK
    <3> QED
      BY <3>3, <3>4, <3>5, EvictFacts
  <2> QED
    BY <2>1, <2>2
<1> HIDE DEF g
<1>8. ShownOK(g, display, frame, imageryRevision)
  <2>1. ShownOK(decoded, display, frame, imageryRevision)
    BY DEF DrapeInv
  <2> QED
    BY <1>3, <1>6, <1>7, <2>1 DEF ShownOK
<1>9. ASSUME NEW n \in DOMAIN textures
      PROVE  TextureOK(textures[n], g, imageryRevision) /\ PictureOK(textures[n], display, frame, imageryRevision)
  <2>1. /\ TextureOK(textures[n], decoded, imageryRevision) /\ imageryRevision \in Nat /\ textures[n] \in Textures0
        /\ PictureOK(textures[n], display, frame, imageryRevision)
    BY DEF DrapeInv
  <2>2. DOMAIN g.promises = DOMAIN decoded.promises /\ \A i \in DOMAIN decoded.promises : g.promises[i].key = decoded.promises[i].key
    BY <1>3, <1>6, <1>7
  <2>3. imageryRevision <= imageryRevision
    BY <2>1
  <2> QED
    BY <2>1, <2>2, <2>3, TextureStays
<1>10. frame \in BOOLEAN /\ imageryRevision \in Nat /\ textures \in Seq(Textures0)
  BY DEF DrapeInv
<1> QED
  BY <1>1, <1>2, <1>7, <1>8, <1>9, <1>10, BecomesFacts

LEMMA StepTileFails ==
  ASSUME DrapeInv, NEW id \in DOMAIN decoded.promises, TileFails(id)
  PROVE  DrapeInv'
<1> DEFINE p == decoded.promises[id]
           q == [p EXCEPT !.state = "failed"]
           m == [decoded EXCEPT !.promises[id].state = "failed"]
           g == deleteS1MCogTileCacheEntry(m, p.key)
<1>1. Becomes(g, textures) /\ UNCHANGED <<display, frame, imageryRevision>>
  BY DEF TileFails
<1>2. p \in Promises0
  BY DEF DrapeInv, TilesOK, PromisesOK
<1>3. q \in Promises0 /\ q.key = p.key /\ q.state = "failed"
  BY <1>2 DEF Promises0
<1>5. m = [decoded EXCEPT !.promises[id] = q]
  OBVIOUS
<1> HIDE DEF m, q
<1>6. /\ TilesOK(m) /\ m.cache = decoded.cache /\ ~TooMuch(m)
      /\ DOMAIN m.promises = DOMAIN decoded.promises /\ m.promises[id] = q
      /\ \A i \in DOMAIN decoded.promises : i # id => m.promises[i] = decoded.promises[i]
  BY <1>2, <1>3, <1>5, PromiseChanges DEF DrapeInv
<1>7. TilesOK(g) /\ ~TooMuch(g) /\ g.promises = m.promises
  BY <1>6, TileDeletedFacts
<1> HIDE DEF g
<1>8. ShownOK(g, display, frame, imageryRevision)
  <2>1. ShownOK(decoded, display, frame, imageryRevision)
    BY DEF DrapeInv
  <2> QED
    BY <1>3, <1>6, <1>7, <2>1 DEF ShownOK
<1>9. ASSUME NEW n \in DOMAIN textures
      PROVE  TextureOK(textures[n], g, imageryRevision) /\ PictureOK(textures[n], display, frame, imageryRevision)
  <2>1. /\ TextureOK(textures[n], decoded, imageryRevision) /\ imageryRevision \in Nat /\ textures[n] \in Textures0
        /\ PictureOK(textures[n], display, frame, imageryRevision)
    BY DEF DrapeInv
  <2>2. DOMAIN g.promises = DOMAIN decoded.promises /\ \A i \in DOMAIN decoded.promises : g.promises[i].key = decoded.promises[i].key
    BY <1>3, <1>6, <1>7
  <2>3. imageryRevision <= imageryRevision
    BY <2>1
  <2> QED
    BY <2>1, <2>2, <2>3, TextureStays
<1>10. display \in Displays /\ frame \in BOOLEAN /\ imageryRevision \in Nat /\ textures \in Seq(Textures0)
  BY DEF DrapeInv
<1> QED
  BY <1>1, <1>7, <1>8, <1>9, <1>10, BecomesFacts

\* The settings change: no claim is made until the frame.
LEMMA StepAdjust ==
  ASSUME DrapeInv, NEW d \in Displays, Adjust(d)
  PROVE  DrapeInv'
<1>1. display' = d /\ frame' = TRUE /\ UNCHANGED <<imageryRevision, decoded, textures>>
  BY DEF Adjust
<1>2. ShownOK(decoded, d, TRUE, imageryRevision)
  BY DEF DrapeInv, ShownOK
<1>3. \A n \in DOMAIN textures : PictureOK(textures[n], d, TRUE, imageryRevision)
  BY DEF PictureOK
<1> QED
  BY <1>1, <1>2, <1>3 DEF DrapeInv

\* The revision changes: what is there is of an earlier one.
LEMMA LaterShown ==
  ASSUME NEW m, TilesOK(m), NEW v \in Nat, NEW d, NEW f, NEW e, NEW g, ShownOK(m, d, f, v)
  PROVE  ShownOK(m, e, g, v + 1)
<1> SUFFICES ASSUME NEW id \in DOMAIN m.promises
             PROVE  m.promises[id].key[2] <= v + 1 /\ m.promises[id].key[2] # v + 1
  BY DEF ShownOK
<1>1. m.promises[id].key \in TileKeys
  BY DEF TilesOK, PromisesOK, Promises0
<1>2. m.promises[id].key[2] \in Nat /\ m.promises[id].key[2] <= v
  BY <1>1 DEF TileKeys, ShownOK
<1> QED
  BY <1>2

LEMMA LaterTextures ==
  ASSUME DrapeInv, NEW d, NEW f, NEW n \in DOMAIN textures
  PROVE  /\ TextureOK(textures[n], decoded, imageryRevision + 1)
         /\ PictureOK(textures[n], d, f, imageryRevision + 1)
<1>1. /\ textures[n] \in Textures0 /\ imageryRevision \in Nat /\ imageryRevision + 1 \in Nat
      /\ imageryRevision <= imageryRevision + 1 /\ TextureOK(textures[n], decoded, imageryRevision)
  BY DEF DrapeInv
<1> QED
  BY <1>1, TextureStays, PictureLater

LEMMA StepCleared ==
  ASSUME DrapeInv, NEW f \in BOOLEAN, NEW v, v = imageryRevision + 1 \/ (v = imageryRevision /\ f = frame),
         display' = display, frame' = f, imageryRevision' = v,
         Becomes(clearS1MCogTileCacheEntries(decoded), textures)
  PROVE  DrapeInv'
<1> DEFINE g == clearS1MCogTileCacheEntries(decoded)
<1>1. TilesOK(g) /\ g.promises = decoded.promises /\ ~TooMuch(g)
  BY ClearFacts DEF DrapeInv
<1>2. v \in Nat /\ display \in Displays /\ textures \in Seq(Textures0)
  BY DEF DrapeInv
<1> HIDE DEF g
<1>3. ShownOK(decoded, display, f, v)
  BY LaterShown DEF DrapeInv
<1>4. ShownOK(g, display, f, v)
  BY <1>1, <1>3 DEF ShownOK
<1>5. ASSUME NEW n \in DOMAIN textures
      PROVE  TextureOK(textures[n], g, v) /\ PictureOK(textures[n], display, f, v)
  <2>1. TextureOK(textures[n], decoded, v) /\ PictureOK(textures[n], display, f, v)
    BY LaterTextures DEF DrapeInv
  <2>2. textures[n] \in Textures0 /\ v <= v
    BY <1>2
  <2> QED
    BY <1>1, <1>2, <2>1, <2>2, TextureStays
<1> QED
  BY <1>1, <1>2, <1>4, <1>5, BecomesFacts DEF g

LEMMA StepSignedAgain ==
  ASSUME DrapeInv, SignedAgain
  PROVE  DrapeInv'
<1>1. imageryRevision' = imageryRevision + 1 /\ UNCHANGED <<display, frame, decoded, textures>>
  BY DEF SignedAgain
<1>2. imageryRevision + 1 \in Nat /\ ShownOK(decoded, display, frame, imageryRevision + 1)
  BY LaterShown DEF DrapeInv
<1>3. \A n \in DOMAIN textures : /\ TextureOK(textures[n], decoded, imageryRevision + 1)
                                 /\ PictureOK(textures[n], display, frame, imageryRevision + 1)
  BY LaterTextures
<1> QED
  BY <1>1, <1>2, <1>3 DEF DrapeInv

LEMMA StepsOfTheViewer ==
  ASSUME DrapeInv, AdjustmentFrame \/ NewImagery \/ Release
  PROVE  DrapeInv'
<1>1. CASE AdjustmentFrame
  <2>1. /\ display' = display /\ frame' = FALSE /\ imageryRevision' = imageryRevision + 1
        /\ Becomes(clearS1MCogTileCacheEntries(decoded), textures)
    BY <1>1 DEF AdjustmentFrame
  <2> QED
    BY <2>1, StepCleared
<1>2. CASE NewImagery
  <2>1. /\ display' = display /\ frame' = frame /\ imageryRevision' = imageryRevision + 1 /\ frame \in BOOLEAN
        /\ Becomes(clearS1MCogTileCacheEntries(decoded), textures)
    BY <1>2 DEF NewImagery, DrapeInv
  <2> QED
    BY <2>1, StepCleared
<1>3. CASE Release
  <2>1. /\ display' = display /\ frame' = frame /\ imageryRevision' = imageryRevision /\ frame \in BOOLEAN
        /\ Becomes(clearS1MCogTileCacheEntries(decoded), textures)
    BY <1>3 DEF Release, DrapeInv
  <2> QED
    BY <2>1, StepCleared
<1> QED
  BY <1>1, <1>2, <1>3

\* A texture that begins.
LEMMA StepBegin ==
  ASSUME DrapeInv, NEW r \in Regions, Begin(r)
  PROVE  DrapeInv'
<1> DEFINE b == [region |-> r, sources |-> Sources(r), revision |-> imageryRevision, next |-> 1, awaits |-> <<>>,
                 filled |-> 0, out |-> [p \in Pixels |-> Clear], state |-> "open"]
<1>1. textures' = Append(textures, b) /\ UNCHANGED <<display, frame, imageryRevision, decoded>> /\ Sources(r) # <<>>
  BY DEF Begin
<1>2. Sources(r) \in Seq(DOMAIN Pool) /\ imageryRevision \in Nat /\ textures \in Seq(Textures0)
  BY SourcesAreImages DEF DrapeInv
<1>3. /\ b.region = r /\ b.sources = Sources(r) /\ b.revision = imageryRevision /\ b.next = 1
      /\ b.filled = 0 /\ b.out = [p \in Pixels |-> Clear] /\ b.state = "open"
  OBVIOUS
<1>4. b \in Textures0
  BY <1>2 DEF Textures0
<1> HIDE DEF b
<1>5. TextureOK(b, decoded, imageryRevision)
  <2>1. 1 \in 1..Len(b.sources)
    BY <1>1, <1>2, <1>3
  <2>2. {p \in Pixels : b.out[p] # Clear} = {}
    BY <1>3
  <2> QED
    <3>1. Cardinality({p \in Pixels : b.out[p] # Clear}) = 0
      BY <2>2, FS_EmptySet
    <3>2. imageryRevision <= imageryRevision
      BY <1>2
    <3> QED
      BY <1>3, <2>1, <3>1, <3>2 DEF TextureOK
<1>6. PictureOK(b, display, frame, imageryRevision)
  BY <1>3 DEF PictureOK, FirstOf
<1>7. /\ textures' \in Seq(Textures0) /\ DOMAIN textures' = 1..Len(textures) + 1 /\ DOMAIN textures = 1..Len(textures)
      /\ \A j \in 1..Len(textures) : textures'[j] = textures[j]
      /\ textures'[Len(textures) + 1] = b /\ Len(textures) \in Nat
  BY <1>1, <1>2, <1>4, TileAppendedFacts
<1>8. ASSUME NEW n \in DOMAIN textures'
      PROVE  /\ TextureOK(textures'[n], decoded, imageryRevision)
             /\ PictureOK(textures'[n], display, frame, imageryRevision)
  <2>1. CASE n \in 1..Len(textures)
    BY <1>7, <2>1 DEF DrapeInv
  <2>2. CASE n = Len(textures) + 1
    BY <1>5, <1>6, <1>7, <2>2
  <2> QED
    BY <1>7, <2>1, <2>2
<1> QED
  BY <1>1, <1>7, <1>8 DEF DrapeInv

\* One texture changes, and the tiles with it.
LEMMA OneTexture ==
  ASSUME DrapeInv, NEW n \in DOMAIN textures, NEW b \in Textures0,
         NEW m, TilesOK(m), ~TooMuch(m), ShownOK(m, display, frame, imageryRevision),
         DOMAIN decoded.promises \subseteq DOMAIN m.promises,
         \A id \in DOMAIN decoded.promises : m.promises[id].key = decoded.promises[id].key,
         TextureOK(b, m, imageryRevision), PictureOK(b, display, frame, imageryRevision),
         Becomes(m, [textures EXCEPT ![n] = b]), UNCHANGED <<display, frame, imageryRevision>>
  PROVE  DrapeInv'
<1> DEFINE all == [textures EXCEPT ![n] = b]
<1>1. /\ textures \in Seq(Textures0) /\ imageryRevision \in Nat /\ imageryRevision <= imageryRevision
      /\ display \in Displays /\ frame \in BOOLEAN
  BY DEF DrapeInv
<1>2. /\ all \in Seq(Textures0) /\ DOMAIN all = DOMAIN textures /\ all[n] = b
      /\ \A j \in DOMAIN textures : j # n => all[j] = textures[j]
  BY <1>1
<1> HIDE DEF all
<1>3. ASSUME NEW j \in DOMAIN all
      PROVE  TextureOK(all[j], m, imageryRevision) /\ PictureOK(all[j], display, frame, imageryRevision)
  <2>1. CASE j = n
    BY <1>2, <2>1
  <2>2. CASE j # n
    <3>1. /\ all[j] \in Textures0 /\ TextureOK(all[j], decoded, imageryRevision)
          /\ PictureOK(all[j], display, frame, imageryRevision)
      BY <1>1, <1>2, <2>2 DEF DrapeInv
    <3> QED
      BY <1>1, <3>1, TextureStays
  <2> QED
    BY <2>1, <2>2
<1>4. Becomes(m, all)
  BY DEF all
<1> QED
  BY <1>1, <1>2, <1>3, <1>4, BecomesFacts

LEMMA StepPaintFails ==
  ASSUME DrapeInv, NEW n \in DOMAIN textures, PaintFails(n)
  PROVE  DrapeInv'
<1> DEFINE b == textures[n]
           s == [b EXCEPT !.state = "failed"]
           c == [s EXCEPT !.awaits = <<>>]
<1>1. Becomes(decoded, [textures EXCEPT ![n] = c]) /\ UNCHANGED <<display, frame, imageryRevision>>
  BY DEF PaintFails
<1>2. b \in Textures0 /\ TextureOK(b, decoded, imageryRevision)
  BY DEF DrapeInv
<1>3. /\ c \in Textures0 /\ c.next = b.next /\ c.sources = b.sources /\ c.revision = b.revision /\ c.filled = b.filled
      /\ c.out = b.out /\ c.state = "failed"
  <2>1. /\ s \in Textures0 /\ s.next = b.next /\ s.sources = b.sources /\ s.revision = b.revision /\ s.filled = b.filled
        /\ s.out = b.out /\ s.state = "failed"
    BY <1>2 DEF Textures0
  <2>2. <<>> \in Seq(Nat)
    OBVIOUS
  <2> HIDE DEF s, b
  <2> QED
    BY <2>1, <2>2 DEF Textures0
<1> HIDE DEF c
<1>4. TextureOK(c, decoded, imageryRevision) /\ PictureOK(c, display, frame, imageryRevision)
  BY <1>2, <1>3 DEF TextureOK, PictureOK
<1>5. TilesOK(decoded) /\ ~TooMuch(decoded) /\ ShownOK(decoded, display, frame, imageryRevision)
  BY DEF DrapeInv
<1> QED
  BY <1>1, <1>3, <1>4, <1>5, OneTexture

LEMMA StepOpenFails ==
  ASSUME DrapeInv, NEW n \in DOMAIN textures, OpenFails(n)
  PROVE  DrapeInv'
<1> DEFINE b == textures[n]
           c == [b EXCEPT !.state = "failed"]
<1>1. textures' = [textures EXCEPT ![n] = c] /\ UNCHANGED <<display, frame, imageryRevision, decoded>>
  BY DEF OpenFails
<1>2. b \in Textures0 /\ TextureOK(b, decoded, imageryRevision) /\ textures \in Seq(Textures0)
  BY DEF DrapeInv
<1>3. /\ c \in Textures0 /\ c.next = b.next /\ c.sources = b.sources /\ c.revision = b.revision /\ c.filled = b.filled
      /\ c.out = b.out /\ c.state = "failed"
  BY <1>2 DEF Textures0
<1> HIDE DEF c
<1>4. TextureOK(c, decoded, imageryRevision) /\ PictureOK(c, display, frame, imageryRevision)
  BY <1>2, <1>3 DEF TextureOK, PictureOK
<1>5. /\ textures' \in Seq(Textures0) /\ DOMAIN textures' = DOMAIN textures /\ textures'[n] = c
      /\ \A j \in DOMAIN textures : j # n => textures'[j] = textures[j]
  BY <1>1, <1>2, <1>3
<1>6. \A j \in DOMAIN textures : /\ TextureOK(textures'[j], decoded, imageryRevision)
                                 /\ PictureOK(textures'[j], display, frame, imageryRevision)
  BY <1>4, <1>5 DEF DrapeInv
<1> QED
  BY <1>1, <1>5, <1>6 DEF DrapeInv

LEMMA FirstStays ==
  ASSUME NEW b, NEW c, c.sources = b.sources, c.region = b.region,
         NEW p, c.out[p] = b.out[p], NEW d, NEW n \in Nat \ {0}, FirstOf(b, p, d, n - 1),
         b.out[p] # Clear \/ ~Shows(b, n, p, d)
  PROVE  FirstOf(c, p, d, n)
<1>1. \A k : Shows(c, k, p, d) <=> Shows(b, k, p, d)
  BY DEF Shows
<1>2. \A k \in 1..n : k \in 1..n - 1 \/ k = n
  OBVIOUS
<1>3. \A k \in 1..n - 1 : k \in 1..n
  OBVIOUS
<1>4. CASE b.out[p] = Clear /\ \A k \in 1..n - 1 : ~Shows(b, k, p, d)
  BY <1>1, <1>2, <1>4 DEF FirstOf
<1>5. ASSUME NEW k \in 1..n - 1, Shows(b, k, p, d), \A j \in 1..k - 1 : ~Shows(b, j, p, d), b.out[p] = <<b.sources[k], d>>
      PROVE  FirstOf(c, p, d, n)
  BY <1>1, <1>3, <1>5 DEF FirstOf
<1> QED
  BY <1>4, <1>5 DEF FirstOf

LEMMA FirstSame ==
  ASSUME NEW b, NEW c, c.sources = b.sources, c.region = b.region,
         NEW p, c.out[p] = b.out[p], NEW d, NEW n, FirstOf(b, p, d, n)
  PROVE  FirstOf(c, p, d, n)
<1>1. \A k : Shows(c, k, p, d) <=> Shows(b, k, p, d)
  BY DEF Shows
<1> QED
  BY <1>1 DEF FirstOf

LEMMA TileUnder ==
  ASSUME NEW i \in DOMAIN Pool, NEW r \in Regions
  PROVE  /\ Cover[i][r] \in Seq(DOMAIN Size)
         /\ \A p \in Pixels : TileAt[i][r][p] = Clear \/ \E k \in DOMAIN Cover[i][r] : TileAt[i][r][p] = Cover[i][r][k]
BY DrapeAssumption

LEMMA FirstPainted ==
  ASSUME NEW b, NEW c, c.sources = b.sources, c.region = b.region, NEW d, d \in Displays,
         \A k \in DOMAIN b.sources : b.sources[k] \in DOMAIN Pool, NEW n \in DOMAIN b.sources, b.sources \in Seq(DOMAIN Pool),
         NEW p, b.out[p] = Clear, FirstOf(b, p, d, n - 1), Shows(b, n, p, d), c.out[p] = <<b.sources[n], d>>
  PROVE  FirstOf(c, p, d, n)
<1>1. \A k : Shows(c, k, p, d) <=> Shows(b, k, p, d)
  BY DEF Shows
<1>2. n \in 1..n /\ n \in Nat /\ \A k \in 1..n - 1 : k \in DOMAIN b.sources
  OBVIOUS
<1>3. \A k \in 1..n - 1 : b.out[p] # <<b.sources[k], d>>
  BY <1>2, DrapeAssumption
<1>4. \A k \in 1..n - 1 : ~Shows(b, k, p, d)
  BY <1>3 DEF FirstOf
<1> QED
  BY <1>1, <1>2, <1>4 DEF FirstOf

LEMMA NextImageFacts ==
  ASSUME NEW b \in Textures0, b.next \in 1..Len(b.sources), NEW v \in Nat, b.revision <= v,
         NEW out \in [Pixels -> {Clear} \cup ((DOMAIN Pool) \X Displays)],
         NEW filled \in Nat, filled = Cardinality({p \in Pixels : out[p] # Clear}), NEW m, NEW d, NEW f,
         b.revision = v /\ ~f => \A p \in Pixels : FirstOf(NextImage(b, filled, out), p, d, b.next)
  PROVE  /\ NextImage(b, filled, out) \in Textures0
         /\ TextureOK(NextImage(b, filled, out), m, v) /\ PictureOK(NextImage(b, filled, out), d, f, v)
<1> DEFINE full == filled >= Cardinality(Pixels) \/ b.next = Len(b.sources)
           c == NextImage(b, filled, out)
           next == IF full THEN b.next ELSE b.next + 1
           state == IF full THEN "done" ELSE "open"
<1>1. b.next \in Nat /\ Len(b.sources) \in Nat /\ b.sources \in Seq(DOMAIN Pool) /\ b.revision \in Nat
  BY DEF Textures0
<1>2. next \in Nat /\ state \in {"done", "open"}
  BY <1>1
<1>3. /\ c \in Textures0 /\ c.sources = b.sources /\ c.region = b.region /\ c.revision = b.revision
      /\ c.filled = filled /\ c.out = out /\ c.next = next /\ c.state = state
  <2>1. c = [b EXCEPT !.awaits = <<>>, !.filled = filled, !.out = out, !.next = next, !.state = state]
    BY Zenon DEF NextImage
  <2>2. <<>> \in Seq(Nat)
    OBVIOUS
  <2> HIDE DEF c, next, state, full
  <2> DEFINE b1 == [b EXCEPT !.awaits = <<>>]
             b2 == [b1 EXCEPT !.filled = filled]
             b3 == [b2 EXCEPT !.out = out]
             b4 == [b3 EXCEPT !.next = next]
             b5 == [b4 EXCEPT !.state = state]
  <2>3. c = b5
    BY <2>1
  <2>4. /\ b1 \in Textures0 /\ b1.sources = b.sources /\ b1.region = b.region /\ b1.revision = b.revision
    BY <2>2 DEF Textures0
  <2> HIDE DEF b1
  <2>5. /\ b2 \in Textures0 /\ b2.sources = b.sources /\ b2.region = b.region /\ b2.revision = b.revision
        /\ b2.filled = filled
    BY <2>4 DEF Textures0
  <2> HIDE DEF b2
  <2>6. /\ b3 \in Textures0 /\ b3.sources = b.sources /\ b3.region = b.region /\ b3.revision = b.revision
        /\ b3.filled = filled /\ b3.out = out
    BY <2>5 DEF Textures0
  <2> HIDE DEF b3
  <2>7. /\ b4 \in Textures0 /\ b4.sources = b.sources /\ b4.region = b.region /\ b4.revision = b.revision
        /\ b4.filled = filled /\ b4.out = out /\ b4.next = next
    BY <1>2, <2>6 DEF Textures0
  <2> HIDE DEF b4
  <2>8. /\ b5 \in Textures0 /\ b5.sources = b.sources /\ b5.region = b.region /\ b5.revision = b.revision
        /\ b5.filled = filled /\ b5.out = out /\ b5.next = next /\ b5.state = state
    BY <1>2, <2>7 DEF Textures0
  <2> QED
    BY <2>3, <2>8
<1> HIDE DEF c
<1>4. c.next \in 1..Len(c.sources)
  <2>1. CASE full
    BY <1>3, <2>1
  <2>2. CASE ~full
    <3>1. c.next = b.next + 1 /\ b.next # Len(b.sources)
      BY <1>3, <2>2
    <3> HIDE DEF full, next, state
    <3> QED
      BY <1>1, <1>3, <3>1
  <2> QED
    BY <2>1, <2>2
<1>5. ASSUME c.state = "done" PROVE c.next = Len(c.sources) \/ \A p \in Pixels : c.out[p] # Clear
  <2>1. full
    BY <1>3, <1>5
  <2>2. CASE b.next = Len(b.sources)
    BY <1>3, <2>1, <2>2
  <2>3. CASE filled >= Cardinality(Pixels)
    <3> DEFINE T == {p \in Pixels : out[p] # Clear}
    <3>1. IsFiniteSet(Pixels) /\ T \in SUBSET Pixels /\ filled = Cardinality(T)
      BY DrapeAssumption
    <3> HIDE DEF T
    <3>2. Cardinality(T) <= Cardinality(Pixels) /\ Cardinality(Pixels) \in Nat
      BY <3>1, FS_Subset, FS_CardinalityType
    <3>3. Cardinality(Pixels) = Cardinality(T)
      BY <2>3, <3>1, <3>2
    <3>4. Pixels = T
      BY <3>1, <3>3, FS_Subset
    <3> QED
      BY <1>3, <3>4 DEF T
  <2> QED
    BY <2>1, <2>2, <2>3
<1>6. TextureOK(c, m, v)
  <2>1. c.state # "tiles"
    BY <1>2, <1>3
  <2>2. c.filled = Cardinality({p \in Pixels : c.out[p] # Clear}) /\ c.revision <= v
    BY <1>3
  <2> QED
    BY <1>4, <1>5, <2>1, <2>2 DEF TextureOK
<1>7. PictureOK(c, d, f, v)
  <2>1. (IF c.state = "done" THEN c.next ELSE c.next - 1) = b.next
    BY <1>1, <1>3
  <2>2. b.revision = v /\ ~f => \A p \in Pixels : FirstOf(c, p, d, b.next)
    BY DEF c
  <2> QED
    BY <1>3, <2>1, <2>2 DEF PictureOK
<1> QED
  BY <1>3, <1>6, <1>7 DEF c

LEMMA StepSourceOpened ==
  ASSUME DrapeInv, NEW n \in DOMAIN textures, SourceOpened(n)
  PROVE  DrapeInv'
<1> DEFINE b == textures[n]
           i == b.sources[b.next]
           cover == Cover[i][b.region]
           asked == AskTiles(decoded, cover)
           m == asked.m
           none == NextImage(b, b.filled, b.out)
           some == [b EXCEPT !.awaits = asked.ids, !.state = "tiles"]
           c == IF cover = <<>> THEN none ELSE some
<1>0. Becomes(m, [textures EXCEPT ![n] = c])
  BY Zenon DEF SourceOpened
<1>1. b.state = "open" /\ UNCHANGED <<display, frame, imageryRevision>>
  BY DEF SourceOpened
<1>2. /\ b \in Textures0 /\ TextureOK(b, decoded, imageryRevision)
      /\ PictureOK(b, display, frame, imageryRevision)
      /\ TilesOK(decoded) /\ ~TooMuch(decoded) /\ imageryRevision \in Nat
      /\ ShownOK(decoded, display, frame, imageryRevision)
  BY DEF DrapeInv
<1>3. /\ b.sources \in Seq(DOMAIN Pool) /\ b.region \in Regions /\ b.next \in 1..Len(b.sources) /\ b.revision \in Nat
      /\ b.revision <= imageryRevision /\ b.filled = Cardinality({p \in Pixels : b.out[p] # Clear})
      /\ b.filled \in Nat /\ b.out \in [Pixels -> {Clear} \cup ((DOMAIN Pool) \X Displays)]
  BY <1>2 DEF Textures0, TextureOK
<1>4. i \in DOMAIN Pool
  BY <1>3
<1>5. cover \in Seq(DOMAIN Size)
  BY <1>3, <1>4, TileUnder
<1> HIDE DEF b
<1>6. TilesAsked(decoded, cover, asked, Len(cover))
  <2> HIDE DEF cover
  <2> QED
    BY <1>2, <1>5, AskTilesFacts
<1> HIDE DEF asked
<1>7. TilesOK(m) /\ ~TooMuch(m) /\ Grown(decoded, m)
  BY <1>6 DEF TilesAsked
<1>8. /\ DOMAIN decoded.promises \subseteq DOMAIN m.promises
      /\ \A id \in DOMAIN decoded.promises : m.promises[id] = decoded.promises[id]
  BY <1>7 DEF Grown
<1>9. ShownOK(m, display, frame, imageryRevision)
  <2>1. imageryRevision <= imageryRevision
    BY <1>2
  <2> SUFFICES ASSUME NEW id \in DOMAIN m.promises
               PROVE  LET p == m.promises[id]
                      IN  /\ p.key[2] <= imageryRevision
                          /\ p.state = "ready" /\ p.key[2] = imageryRevision /\ ~frame => p.shown = display
    BY DEF ShownOK
  <2>2. CASE id \in DOMAIN decoded.promises
    BY <1>2, <1>8, <2>2 DEF ShownOK
  <2>3. CASE id \notin DOMAIN decoded.promises
    BY <1>7, <2>1, <2>3 DEF Grown
  <2> QED
    BY <2>2, <2>3
<1>10. CASE cover = <<>>
  <2>1. ASSUME b.revision = imageryRevision, ~frame, NEW p \in Pixels PROVE FirstOf(none, p, display, b.next)
    <3>1. FirstOf(b, p, display, b.next - 1)
      BY <1>1, <1>2, <2>1 DEF PictureOK
    <3>2. ~Shows(b, b.next, p, display)
      <4>1. TileAt[i][b.region][p] = Clear
        <5>1. TileAt[i][b.region][p] = Clear \/ \E k \in DOMAIN cover : TileAt[i][b.region][p] = cover[k]
          BY <1>3, <1>4, TileUnder
        <5>2. DOMAIN cover = {}
          BY <1>10
        <5> QED
          BY <5>1, <5>2
      <4> QED
        BY <4>1 DEF Shows
    <3>3. none.sources = b.sources /\ none.region = b.region /\ none.out[p] = b.out[p]
      BY <1>2 DEF NextImage, Textures0
    <3>4. b.next \in Nat \ {0}
      BY <1>3
    <3> HIDE DEF none
    <3> QED
      BY <3>1, <3>2, <3>3, <3>4, FirstStays
  <2>2. /\ none \in Textures0
        /\ TextureOK(none, m, imageryRevision) /\ PictureOK(none, display, frame, imageryRevision)
    BY <1>2, <1>3, <2>1, NextImageFacts
  <2>3. c = none
    BY <1>10
  <2> HIDE DEF c, m, none
  <2> QED
    BY <1>0, <1>1, <1>7, <1>8, <1>9, <2>2, <2>3, OneTexture
<1>11. CASE cover # <<>>
  <2>1. /\ some \in Textures0 /\ some.sources = b.sources /\ some.region = b.region /\ some.revision = b.revision
        /\ some.next = b.next /\ some.filled = b.filled /\ some.out = b.out /\ some.awaits = asked.ids
        /\ some.state = "tiles"
    <3> DEFINE s == [b EXCEPT !.awaits = asked.ids]
    <3>1. asked.ids \in Seq(Nat)
      BY <1>6 DEF TilesAsked
    <3>2. /\ s \in Textures0 /\ s.sources = b.sources /\ s.region = b.region /\ s.revision = b.revision
          /\ s.next = b.next /\ s.filled = b.filled /\ s.out = b.out /\ s.awaits = asked.ids
      BY <1>2, <3>1 DEF Textures0
    <3>3. some = [s EXCEPT !.state = "tiles"]
      BY Zenon
    <3> HIDE DEF s, some
    <3> QED
      BY <3>2, <3>3 DEF Textures0
  <2>2. c = some
    BY <1>11
  <2> HIDE DEF c, some
  <2>3. AwaitsOK(some, m)
    <3>1. cover = Cover[some.sources[some.next]][some.region]
      BY <2>1
    <3>2. Len(some.awaits) = Len(cover)
      BY <1>6, <2>1 DEF TilesAsked
    <3>3. ASSUME NEW k \in 1..Len(cover)
          PROVE  /\ some.awaits[k] \in DOMAIN m.promises
                 /\ m.promises[some.awaits[k]].key[1] = cover[k]
                 /\ some.revision <= m.promises[some.awaits[k]].key[2]
      <4>1. some.awaits[k] \in DOMAIN m.promises /\ m.promises[some.awaits[k]].key = <<cover[k], imageryRevision>>
        BY <1>6, <2>1 DEF TilesAsked
      <4>2. /\ m.promises[some.awaits[k]].key[1] = cover[k]
            /\ m.promises[some.awaits[k]].key[2] = imageryRevision
        BY <4>1
      <4> QED
        BY <1>3, <2>1, <4>1, <4>2
    <3> HIDE DEF cover, m
    <3> QED
      BY <3>1, <3>2, <3>3, Zenon DEF AwaitsOK
  <2>4. TextureOK(some, m, imageryRevision)
    BY <1>3, <2>1, <2>3 DEF TextureOK
  <2>5. PictureOK(some, display, frame, imageryRevision)
    <3> SUFFICES ASSUME b.revision = imageryRevision, ~frame, NEW p \in Pixels
                 PROVE  FirstOf(some, p, display, b.next - 1)
      BY <2>1 DEF PictureOK
    <3>1. FirstOf(b, p, display, b.next - 1)
      BY <1>1, <1>2 DEF PictureOK
    <3> QED
      BY <2>1, <3>1, FirstSame
  <2> HIDE DEF m
  <2> QED
    BY <1>0, <1>1, <1>7, <1>8, <1>9, <2>1, <2>2, <2>4, <2>5, OneTexture
<1> QED
  BY <1>10, <1>11

LEMMA StepSourcePainted ==
  ASSUME DrapeInv, NEW n \in DOMAIN textures, SourcePainted(n)
  PROVE  DrapeInv'
<1> DEFINE b == textures[n]
           i == b.sources[b.next]
           cover == Cover[i][b.region]
           look(t) == decoded.promises[b.awaits[CHOOSE k \in DOMAIN b.awaits : Cover[i][b.region][k] = t]].shown
           at(p) == TileAt[i][b.region][p]
           fills == {p \in Pixels : /\ b.out[p] = Clear
                                    /\ TileAt[i][b.region][p] # Clear
                                    /\ look(TileAt[i][b.region][p]) \in Opaque[i][b.region][p]}
           out == [p \in Pixels |-> IF p \in fills THEN <<i, look(TileAt[i][b.region][p])>> ELSE b.out[p]]
           filled == b.filled + Cardinality(fills)
           c == NextImage(b, filled, out)
           last == {p \in Pixels : b.out[p] # Clear}
<1>0. Becomes(decoded, [textures EXCEPT ![n] = c])
  BY Zenon DEF SourcePainted
<1>1. /\ b.state = "tiles" /\ \A k \in DOMAIN b.awaits : decoded.promises[b.awaits[k]].state = "ready"
      /\ UNCHANGED <<display, frame, imageryRevision>>
  <2>1. b.state = "tiles"
    BY Zenon DEF SourcePainted
  <2>2. \A k \in DOMAIN b.awaits : decoded.promises[b.awaits[k]].state = "ready"
    BY Zenon DEF SourcePainted
  <2>3. UNCHANGED <<display, frame, imageryRevision, changes>>
    BY Zenon DEF SourcePainted
  <2> HIDE DEF b
  <2> QED
    BY <2>1, <2>2, <2>3
<1>2. /\ b \in Textures0 /\ TextureOK(b, decoded, imageryRevision)
      /\ PictureOK(b, display, frame, imageryRevision)
      /\ TilesOK(decoded) /\ ~TooMuch(decoded) /\ imageryRevision \in Nat
      /\ ShownOK(decoded, display, frame, imageryRevision) /\ display \in Displays
  BY DEF DrapeInv
<1>3. /\ b.sources \in Seq(DOMAIN Pool) /\ b.region \in Regions /\ b.next \in 1..Len(b.sources) /\ b.revision \in Nat
      /\ b.revision <= imageryRevision /\ b.filled = Cardinality(last) /\ b.awaits \in Seq(Nat)
      /\ b.filled \in Nat /\ b.out \in [Pixels -> {Clear} \cup ((DOMAIN Pool) \X Displays)]
      /\ AwaitsOK(b, decoded)
  BY <1>1, <1>2 DEF Textures0, TextureOK
<1>4. i \in DOMAIN Pool
  BY <1>3
<1>5. Len(b.awaits) = Len(cover) /\ cover \in Seq(DOMAIN Size) /\ DOMAIN cover = 1..Len(cover) /\ DOMAIN b.awaits = DOMAIN cover
  <2>1. Len(b.awaits) = Len(cover)
    BY <1>3 DEF AwaitsOK
  <2>2. cover \in Seq(DOMAIN Size)
    BY <1>3, <1>4, TileUnder
  <2> HIDE DEF b, cover
  <2> QED
    BY <1>3, <2>1, <2>2
<1>14. /\ \A p : p \in fills <=> (p \in Pixels /\ b.out[p] = Clear /\ at(p) # Clear /\ look(at(p)) \in Opaque[i][b.region][p])
       /\ fills \subseteq Pixels /\ DOMAIN out = Pixels /\ out = [p \in Pixels |-> out[p]]
       /\ \A p \in Pixels : out[p] = (IF p \in fills THEN <<i, look(at(p))>> ELSE b.out[p])
       /\ \A p : p \in last <=> (p \in Pixels /\ b.out[p] # Clear)
  <2> HIDE DEF look, i, b
  <2>1. \A p : p \in fills <=> (p \in Pixels /\ b.out[p] = Clear /\ at(p) # Clear /\ look(at(p)) \in Opaque[i][b.region][p])
    OBVIOUS
  <2>2. fills \subseteq Pixels /\ \A p : p \in last <=> (p \in Pixels /\ b.out[p] # Clear)
    OBVIOUS
  <2> HIDE DEF fills, last
  <2>3. DOMAIN out = Pixels /\ out = [p \in Pixels |-> out[p]]
    OBVIOUS
  <2>4. \A p \in Pixels : out[p] = (IF p \in fills THEN <<i, look(at(p))>> ELSE b.out[p])
    OBVIOUS
  <2> QED
    BY <2>1, <2>2, <2>3, <2>4
<1>15. \A p \in Pixels : at(p) # Clear => \E k \in DOMAIN cover : at(p) = cover[k]
  <2>1. b.region \in Regions
    BY <1>3
  <2> HIDE DEF i
  <2> QED
    BY <1>4, <2>1, TileUnder
<1>16. \A p, d : Shows(b, b.next, p, d) <=> at(p) # Clear /\ d \in Opaque[i][b.region][p]
  BY DEF Shows
<1>17. c = NextImage(b, filled, out) /\ filled = b.filled + Cardinality(fills)
  OBVIOUS
<1>18. \A t : look(t) = decoded.promises[b.awaits[CHOOSE k \in DOMAIN b.awaits : cover[k] = t]].shown
  OBVIOUS
<1>19. i = b.sources[b.next] /\ cover = Cover[b.sources[b.next]][b.region]
  OBVIOUS
<1> HIDE DEF b, i, cover, look, at, fills, out, filled, c, last
\* The tile under a pixel is among those that were awaited.
<1>6. ASSUME NEW p \in Pixels, at(p) # Clear
      PROVE  /\ look(at(p)) \in Displays
             /\ b.revision = imageryRevision /\ ~frame => look(at(p)) = display
  <2> DEFINE t == at(p)
             k == CHOOSE j \in DOMAIN b.awaits : cover[j] = t
             q == decoded.promises[b.awaits[k]]
  <2>1. \E j \in DOMAIN b.awaits : cover[j] = t
    BY <1>5, <1>6, <1>15
  <2>2. look(t) = q.shown
    BY <1>18
  <2> HIDE DEF t
  <2>3. k \in DOMAIN b.awaits
    BY <2>1
  <2> HIDE DEF k
  <2>4. k \in 1..Len(cover)
    BY <1>5, <2>3
  <2>5. b.awaits[k] \in DOMAIN decoded.promises /\ b.revision <= q.key[2] /\ q.state = "ready"
    BY <1>1, <1>3, <1>19, <2>3, <2>4 DEF AwaitsOK
  <2>6. q \in Promises0 /\ q.shown \in Displays
    BY <1>2, <2>5 DEF TilesOK, PromisesOK
  <2>7. q.key[2] <= imageryRevision /\ (q.key[2] = imageryRevision /\ ~frame => q.shown = display)
    BY <1>2, <2>5 DEF ShownOK
  <2>8. q.key[2] \in Nat
    BY <2>6 DEF Promises0, TileKeys
  <2> HIDE DEF q
  <2>9. b.revision = imageryRevision => q.key[2] = imageryRevision
    BY <1>2, <2>5, <2>7, <2>8
  <2> QED
    BY <2>2, <2>6, <2>7, <2>9 DEF t
<1>7. \A p \in fills : /\ <<i, look(at(p))>> \in (DOMAIN Pool) \X Displays
                       /\ <<i, look(at(p))>> # Clear
  <2> SUFFICES ASSUME NEW p \in fills
               PROVE  <<i, look(at(p))>> \in (DOMAIN Pool) \X Displays /\ <<i, look(at(p))>> # Clear
    OBVIOUS
  <2>1. look(at(p)) \in Displays
    BY <1>6, <1>14
  <2> QED
    BY <1>4, <2>1, DrapeAssumption
<1>8. out \in [Pixels -> {Clear} \cup ((DOMAIN Pool) \X Displays)]
  <2>1. \A p \in Pixels : out[p] \in {Clear} \cup ((DOMAIN Pool) \X Displays)
    BY <1>3, <1>7, <1>14
  <2> QED
    BY <1>14, <2>1
<1>9. {p \in Pixels : out[p] # Clear} = last \cup fills /\ last \cap fills = {}
  <2>1. \A p \in Pixels : out[p] # Clear <=> p \in last \/ p \in fills
    BY <1>7, <1>14
  <2>2. last \cap fills = {}
    BY <1>14
  <2>3. last \subseteq Pixels /\ fills \subseteq Pixels
    BY <1>14
  <2> QED
    BY <2>1, <2>2, <2>3
<1>10. filled \in Nat /\ filled = Cardinality({p \in Pixels : out[p] # Clear})
  <2> DEFINE painted == {p \in Pixels : out[p] # Clear}
  <2>1. IsFiniteSet(last) /\ IsFiniteSet(fills) /\ Cardinality(last) \in Nat /\ Cardinality(fills) \in Nat
    <3>1. last \in SUBSET Pixels /\ fills \in SUBSET Pixels /\ IsFiniteSet(Pixels)
      BY <1>14, DrapeAssumption
    <3> QED
      BY <3>1, FS_Subset, FS_CardinalityType
  <2>2. Cardinality(last \cup fills) = Cardinality(last) + Cardinality(fills) - Cardinality(last \cap fills)
    BY <2>1, FS_Union
  <2>3. painted = last \cup fills /\ last \cap fills = {}
    BY <1>9
  <2>4. b.filled = Cardinality(last)
    BY <1>3
  <2> HIDE DEF painted
  <2>5. Cardinality(last \cap fills) = 0
    BY <2>3, FS_EmptySet
  <2>6. filled \in Nat /\ filled = Cardinality(painted)
    BY <1>17, <2>1, <2>2, <2>3, <2>4, <2>5
  <2> QED
    BY <2>6 DEF painted
<1>11. c.sources = b.sources /\ c.region = b.region /\ c.out = out
  BY <1>2, <1>17 DEF NextImage, Textures0
<1>12. ASSUME b.revision = imageryRevision, ~frame, NEW p \in Pixels PROVE FirstOf(c, p, display, b.next)
  <2>1. FirstOf(b, p, display, b.next - 1)
    BY <1>1, <1>2, <1>12 DEF PictureOK
  <2>2. b.next \in Nat \ {0} /\ b.next \in DOMAIN b.sources /\ \A k \in DOMAIN b.sources : b.sources[k] \in DOMAIN Pool
    BY <1>3
  <2>3. p \in fills <=> b.out[p] = Clear /\ Shows(b, b.next, p, display)
    BY <1>6, <1>12, <1>14, <1>16
  <2>4. CASE p \in fills
    <3>1. look(at(p)) = display
      BY <1>6, <1>12, <1>14, <2>4
    <3>2. c.out[p] = <<b.sources[b.next], display>>
      BY <1>11, <1>14, <1>19, <2>4, <3>1
    <3>3. b.out[p] = Clear /\ Shows(b, b.next, p, display)
      BY <2>3, <2>4
    <3> QED
      BY <1>2, <1>3, <1>11, <2>1, <2>2, <3>2, <3>3, FirstPainted
  <2>5. CASE p \notin fills
    <3>1. c.out[p] = b.out[p] /\ (b.out[p] # Clear \/ ~Shows(b, b.next, p, display))
      BY <1>11, <1>14, <2>3, <2>5
    <3> QED
      BY <1>11, <2>1, <2>2, <3>1, FirstStays
  <2> QED
    BY <2>4, <2>5
<1>13. /\ c \in Textures0 /\ TextureOK(c, decoded, imageryRevision)
       /\ PictureOK(c, display, frame, imageryRevision)
  <2>1. b.revision = imageryRevision /\ ~frame => \A p \in Pixels : FirstOf(NextImage(b, filled, out), p, display, b.next)
    BY <1>12, <1>17
  <2>2. /\ NextImage(b, filled, out) \in Textures0 /\ TextureOK(NextImage(b, filled, out), decoded, imageryRevision)
        /\ PictureOK(NextImage(b, filled, out), display, frame, imageryRevision)
    BY <1>2, <1>3, <1>8, <1>10, <2>1, NextImageFacts
  <2> QED
    BY <1>17, <2>2
<1> QED
  BY <1>0, <1>1, <1>2, <1>13, OneTexture

LEMMA DrapeStarts ==
  ASSUME DrapeTilesInit
  PROVE  DrapeInv
<1>1. /\ display \in Displays /\ frame = FALSE /\ imageryRevision = 0 /\ textures = <<>>
      /\ decoded = [cache |-> <<>>, bytes |-> <<>>, total |-> 0, promises |-> <<>>]
  BY DEF DrapeTilesInit, NoTiles
<1>2. /\ DOMAIN decoded = {"cache", "bytes", "total", "promises"}
      /\ decoded.cache = <<>> /\ decoded.bytes = <<>> /\ decoded.total = 0 /\ decoded.promises = <<>>
  BY <1>1
<1>3. DOMAIN <<>> = {} /\ <<>> \in Seq(CacheEntries) /\ <<>> \in Seq(Textures0) /\ Len(<<>>) = 0
  OBVIOUS
<1>4. HeldBytes(decoded) = <<>>
  BY <1>2, <1>3 DEF HeldBytes
<1>5. CacheOK(decoded)
  BY <1>2, <1>3, <1>4, SummedEmpty DEF CacheOK
<1>6. PromisesOK(decoded)
  BY <1>2, <1>3, FS_EmptySet DEF PromisesOK
<1>7. ~TooMuch(decoded) /\ ShownOK(decoded, display, frame, imageryRevision)
  BY <1>2, <1>3 DEF TooMuch, ShownOK
<1> QED
  BY <1>1, <1>3, <1>5, <1>6, <1>7 DEF DrapeInv, TilesOK

LEMMA DrapeSteps ==
  ASSUME DrapeInv, [DrapeTilesNext]_drapeVars
  PROVE  DrapeInv'
<1>1. CASE UNCHANGED drapeVars
  <2>1. UNCHANGED <<display, frame, imageryRevision, decoded, textures>>
    BY <1>1 DEF drapeVars
  <2>2. DrapeInv' <=> DrapeInv
    BY <2>1 DEF DrapeInv
  <2> QED
    BY <2>2
<1>2. CASE \E r \in Regions : Begin(r)
  BY <1>2, StepBegin
<1>3. CASE \E n \in DOMAIN textures : SourceOpened(n) \/ OpenFails(n) \/ SourcePainted(n) \/ PaintFails(n)
  BY <1>3, StepSourceOpened, StepOpenFails, StepSourcePainted, StepPaintFails
<1>4. CASE \E id \in DOMAIN decoded.promises : TileDecoded(id) \/ TileFails(id)
  BY <1>4, StepTileDecoded, StepTileFails
<1>5. CASE \E d \in Displays : Adjust(d)
  BY <1>5, StepAdjust
<1>6. CASE AdjustmentFrame \/ NewImagery \/ SignedAgain \/ Release
  BY <1>6, StepsOfTheViewer, StepSignedAgain
<1> QED
  BY <1>1, <1>2, <1>3, <1>4, <1>5, <1>6 DEF DrapeTilesNext

\* A sequence without doubles has as many keys as entries.
LEMMA KeysCounted ==
  ASSUME NEW q, NEW T, q \in Seq(T), \A i, j \in DOMAIN q : q[i].key = q[j].key => i = j
  PROVE  Cardinality({q[i].key : i \in DOMAIN q}) = Len(q)
<1> DEFINE S == 1..Len(q)
           K == {q[i].key : i \in DOMAIN q}
           f == [i \in S |-> q[i].key]
<1>1. Len(q) \in Nat /\ DOMAIN q = S
  OBVIOUS
<1>2. f \in Surjection(S, K)
  BY <1>1 DEF Surjection
<1>3. f \in Injection(S, K)
  BY <1>1 DEF Injection, IsInjective
<1>4. IsFiniteSet(S) /\ Cardinality(S) = Len(q)
  <2> DEFINE n == Len(q)
  <2>1. n \in Nat
    OBVIOUS
  <2> HIDE DEF n
  <2>2. IsFiniteSet(1..n) /\ Cardinality(1..n) = IF 1 > n THEN 0 ELSE n - 1 + 1
    BY <2>1, FS_Interval
  <2>3. (IF 1 > n THEN 0 ELSE n - 1 + 1) = n
    BY <2>1
  <2>4. S = 1..n /\ n = Len(q)
    BY DEF n
  <2> HIDE DEF S
  <2> QED
    BY <2>2, <2>3, <2>4
<1> HIDE DEF f, K, S
<1>5. Cardinality(K) = Cardinality(S)
  BY <1>2, <1>3, <1>4, FS_Surjection
<1> QED
  BY <1>4, <1>5 DEF K

LEMMA CacheAccounted ==
  ASSUME DrapeInv
  PROVE  TilesAccounted
<1> DEFINE keys == {decoded.cache[i].key : i \in DOMAIN decoded.cache}
<1>1. CacheOK(decoded) /\ ~TooMuch(decoded)
  BY DEF DrapeInv, TilesOK
<1>2. Cardinality(keys) = Len(decoded.cache)
  BY <1>1, KeysCounted DEF CacheOK
<1>3. DOMAIN decoded.bytes \subseteq keys
  BY <1>1 DEF CacheOK
<1>4. decoded.total = Summed([i \in DOMAIN decoded.cache |-> BytesOf(decoded, decoded.cache[i].key)])
  BY <1>1 DEF CacheOK, HeldBytes
<1>5. decoded.total \in Int /\ Len(decoded.cache) \in Nat /\ MaxBytes \in Nat /\ MaxCount \in Nat
  BY <1>1, HeldFacts, DrapeAssumption
<1>6. Len(decoded.cache) > 1 => decoded.total <= MaxBytes /\ Len(decoded.cache) <= MaxCount
  BY <1>1, <1>5 DEF TooMuch
<1> QED
  BY <1>2, <1>3, <1>4, <1>6 DEF TilesAccounted

\* The first image that shows at a pixel is the least of those that do.
LEMMA FirstIsLeast ==
  ASSUME NEW b \in Textures0, NEW p \in Pixels, NEW d \in Displays, NEW n \in Nat, n <= Len(b.sources),
         FirstOf(b, p, d, n), n = Len(b.sources) \/ b.out[p] # Clear,
         NEW best, \A k : k \in best <=> k \in DOMAIN b.sources /\ Shows(b, k, p, d)
  PROVE  b.out[p] = IF best = {} THEN Clear ELSE <<b.sources[Min(best)], d>>
<1>1. Len(b.sources) \in Nat /\ DOMAIN b.sources = 1..Len(b.sources)
  BY DEF Textures0
<1>3. CASE b.out[p] = Clear /\ \A k \in 1..n : ~Shows(b, k, p, d)
  <2>1. best = {}
    BY <1>1, <1>3
  <2> QED
    BY <1>3, <2>1
<1>4. CASE \E k \in 1..n : Shows(b, k, p, d) /\ (\A j \in 1..k - 1 : ~Shows(b, j, p, d))
                           /\ b.out[p] = <<b.sources[k], d>>
  <2>1. PICK k \in 1..n : Shows(b, k, p, d) /\ (\A j \in 1..k - 1 : ~Shows(b, j, p, d))
                          /\ b.out[p] = <<b.sources[k], d>>
    BY <1>4
  <2>2. k \in best /\ best \subseteq Nat
    BY <1>1, <2>1
  <2>3. \A j \in best : k <= j
    BY <1>1, <2>1
  <2>4. Min(best) = k
    <3> DEFINE m == Min(best)
    <3>1. m \in best /\ \A j \in best : m <= j
      BY <2>2, <2>3 DEF Min
    <3> HIDE DEF m
    <3>2. m \in Nat /\ k \in Nat /\ m <= k /\ k <= m
      BY <2>2, <2>3, <3>1
    <3>3. m = k
      BY <3>2
    <3> QED
      BY <3>3 DEF m
  <2> QED
    BY <2>1, <2>2, <2>4
<1> QED
  BY <1>3, <1>4 DEF FirstOf

LEMMA PicturesPainted ==
  ASSUME DrapeInv
  PROVE  TexturesRight
<1> DEFINE best(n, p) == {k \in DOMAIN textures[n].sources :
                            LET i == textures[n].sources[k]
                            IN TileAt[i][textures[n].region][p] # Clear
                               /\ display \in Opaque[i][textures[n].region][p]}
<1>1. ASSUME NEW n \in DOMAIN textures, textures[n].state = "done",
             textures[n].revision = imageryRevision, ~frame, NEW p \in Pixels
      PROVE  textures[n].out[p] = IF best(n, p) = {} THEN Clear
                                  ELSE <<textures[n].sources[Min(best(n, p))], display>>
  <2> DEFINE b == textures[n]
             all == best(n, p)
  <2>1. /\ b \in Textures0 /\ TextureOK(b, decoded, imageryRevision) /\ display \in Displays
        /\ PictureOK(b, display, frame, imageryRevision)
    BY DEF DrapeInv
  <2>2. b.state = "done" /\ b.revision = imageryRevision /\ ~frame
    BY <1>1
  <2>3. \A k : k \in all <=> k \in DOMAIN b.sources /\ Shows(b, k, p, display)
    BY DEF Shows
  <2> HIDE DEF b, best, all
  <2>4. b.next \in Nat /\ b.next <= Len(b.sources) /\ (b.next = Len(b.sources) \/ b.out[p] # Clear)
    BY <2>1, <2>2 DEF TextureOK, Textures0
  <2>5. FirstOf(b, p, display, b.next)
    BY <2>1, <2>2 DEF PictureOK
  <2>6. b.out[p] = IF all = {} THEN Clear ELSE <<b.sources[Min(all)], display>>
    BY <2>1, <2>3, <2>4, <2>5, FirstIsLeast
  <2> QED
    BY <2>6 DEF b, all
<1> HIDE DEF best
<1>2. \A n \in DOMAIN textures :
        textures[n].state = "done" /\ textures[n].revision = imageryRevision /\ ~frame =>
          \A p \in Pixels : textures[n].out[p] = IF best(n, p) = {} THEN Clear
                                                 ELSE <<textures[n].sources[Min(best(n, p))], display>>
  BY <1>1
<1> QED
  BY <1>2, CacheAccounted, Zenon DEF TexturesRight, best

\* A finished texture of the current revision has at each pixel the image with the largest
\* overlap that shows there in the current settings, once no frame is due, and the cache of
\* tiles counts what it holds and stays within its limits (paintDrapeSource, getDrapeCogTile,
\* evictS1MCogTileCache), however the decoded tiles were shared, evicted, cleared or failed.
THEOREM TexturesStayRight == DrapeTilesSpec => []TexturesRight
<1>1. DrapeTilesInit => DrapeInv
  BY DrapeStarts
<1>2. DrapeInv /\ [DrapeTilesNext]_drapeVars => DrapeInv'
  BY DrapeSteps
<1>3. DrapeInv => TexturesRight
  BY PicturesPainted
<1> QED
  BY <1>1, <1>2, <1>3, PTL DEF DrapeTilesSpec
=============================================================================
