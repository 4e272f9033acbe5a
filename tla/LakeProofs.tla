------------------------------ MODULE LakeProofs ------------------------------
(***************************************************************************)
(* What the programs of the lake and of its index, and the requests that    *)
(* share the connection to it, can be relied upon for, for any number of    *)
(* runs, requests for ingests, buckets, files, roots, queries and sessions. *)
(***************************************************************************)
EXTENDS Lake, FiniteSetTheorems, SequenceTheorems, TLAPS

-----------------------------------------------------------------------------
(* The connection.                                                         *)

States == [pc : {"idle"}] \cup Active \cup Ended

\* What a request may rely on, of the connection c, those made and the stages of the sessions.
Usable(c, cs, st) == c = NoCon \/ (cs[c].health = "good" /\ st[cs[c].key] \notin {"over", "revoked"})
Calm(x, c, cs, st) ==
  /\ x.pc \in {"note", "expiry", "end", "use"} => c # NoCon
  /\ x.pc = "run" => c = x.held
  /\ x.pc \in {"reset", "forget"} => ~x.retried
  /\ x.pc = "forget" \/ x.retried => Usable(c, cs, st)
Fit(x, c, cs, st) ==
  /\ x \in Active => /\ x.held = NoCon \/ x.held \in DOMAIN cs
                     /\ x.pc \in {"run", "reset"} => x.held # NoCon
                     /\ x.pc \in {"reset", "forget"} => x.kind # "health"
                     /\ x.pc = "keep" => x.key # 0
                     /\ x.calm => Calm(x, c, cs, st)
  /\ x \in Ended => (x.pc = "failed" /\ x.kind # "health" => ~x.calm)

\* The types of the state, apart from the held connections, which are in Fit.
Typed ==
  /\ stage \in [Keys -> {"fresh", "ending", "over", "revoked"}]
  /\ hostKey \in Keys /\ {knownKey, conKey} \subseteq Keys \cup {0} /\ conExpiry \in Keys \cup {0, NoCon}
  /\ cons \in Seq([key : Keys, health : {"good", "invalid", "closed"}])
  /\ con = NoCon \/ (con \in DOMAIN cons /\ cons[con].health # "closed")
  /\ thread \in [Queries -> States]
\* The session the host resolves now has not ended, nor have those to come.
HostAlive == \A k \in Keys : k >= hostKey => ~Dead(k)

\* A calm request that has found credentials finds them where it reads on.
Remembered == \A r \in ReadingOn : thread[r].calm => knownKey # 0

Inv == Typed /\ HostAlive /\ Remembered /\ \A r \in Queries : Fit(thread[r], con, cons, stage)

-----------------------------------------------------------------------------
(* The records of the requests.                                            *)

\* A record is that of a running request exactly when its stage says so.
LEMMA ActiveOrEnded ==
  ASSUME NEW x \in States
  PROVE  /\ (x.pc \notin {"idle", "failed"}) <=> x \in Active
         /\ x.pc = "failed" <=> x \in Ended
BY DEF States, Active, Ended

\* The other requests, when one closes or spoils the connection: those that run are no
\* longer calm, and rely on nothing but what they hold.
LEMMA Disturbed ==
  ASSUME NEW x \in Active, NEW c, NEW cs, NEW st, NEW c2, NEW cs2, NEW st2,
         Fit(x, c, cs, st), DOMAIN cs \subseteq DOMAIN cs2
  PROVE  [x EXCEPT !.calm = FALSE] \in Active /\ Fit([x EXCEPT !.calm = FALSE], c2, cs2, st2)
<1> DEFINE y == [x EXCEPT !.calm = FALSE]
<1>1. /\ y \in Active /\ ~y.calm /\ y.pc = x.pc /\ y.held = x.held /\ y.kind = x.kind /\ y.key = x.key
      /\ y.retried = x.retried /\ y.expired = x.expired
  BY DEF Active
<1> HIDE DEF y
<1>2. y \notin Ended
  BY <1>1 DEF Active, Ended
<1>3. Fit(y, c2, cs2, st2)
  BY <1>1, <1>2 DEF Fit, Calm
<1> QED
  BY <1>1, <1>3 DEF y

\* What has ended relies on nothing.
LEMMA NotRunning ==
  ASSUME NEW x \in States \ Active, NEW c, NEW cs, NEW st, NEW c2, NEW cs2, NEW st2, Fit(x, c, cs, st)
  PROVE  Fit(x, c2, cs2, st2)
BY DEF Fit

\* The step of a request that disturbs others: all that run, when it touches the connection.
LEMMA DisturbsOthers ==
  ASSUME Inv, NEW r \in Queries, NEW x \in States, NEW others \in SUBSET Running,
         thread' = Disturb(r, x, others),
         others = Running \/ UNCHANGED <<con, cons, stage>>,
         DOMAIN cons \subseteq DOMAIN cons', Fit(x, con', cons', stage'),
         x.pc \notin {"fresh", "take", "secret", "end"}, knownKey' # knownKey => ReadingOn \subseteq others
  PROVE  /\ thread' \in [Queries -> States]
         /\ \A t \in Queries : Fit(thread'[t], con', cons', stage')
         /\ Remembered'
<1> DEFINE y(t) == [thread[t] EXCEPT !.calm = FALSE]
<1>1. ASSUME NEW t \in Queries
      PROVE  /\ thread'[t] \in States /\ Fit(thread'[t], con', cons', stage')
             /\ thread'[t].pc \in {"fresh", "take", "secret", "end"} /\ thread'[t].calm => knownKey' # 0
  <2>2. thread[t] \in States /\ Fit(thread[t], con, cons, stage)
    BY DEF Inv, Typed
  <2>3. thread'[t] = IF t = r THEN x ELSE IF t \in others THEN y(t) ELSE thread[t]
    BY DEF Disturb
  <2>4. CASE t = r
    BY <2>3, <2>4
  <2>5. CASE t # r /\ t \in others
    <3>1. thread[t] \in Active
      BY <2>2, <2>5, ActiveOrEnded DEF Running
    <3>2. ~y(t).calm /\ y(t) \in Active /\ Fit(y(t), con', cons', stage')
      BY <2>2, <3>1, Disturbed DEF Active
    <3> HIDE DEF y
    <3> QED
      BY <2>3, <2>5, <3>2 DEF States
  <2>6. CASE t # r /\ t \notin others
    <3>1. Fit(thread[t], con', cons', stage')
      <4>1. CASE t \in Running
        BY <2>2, <2>6, <4>1
      <4>2. CASE t \notin Running
        <5>1. thread[t] \in States \ Active
          BY <2>2, <4>2, ActiveOrEnded DEF Running
        <5> QED
          BY <2>2, <5>1, NotRunning
      <4> QED
        BY <4>1, <4>2
    <3>2. thread[t].pc \in {"fresh", "take", "secret", "end"} /\ thread[t].calm => knownKey' # 0
      BY <2>6 DEF Inv, Remembered, ReadingOn
    <3> QED
      BY <2>2, <2>3, <2>6, <3>1, <3>2
  <2> QED
    BY <2>4, <2>5, <2>6
<1>2. thread' \in [Queries -> States]
  BY <1>1 DEF Disturb
<1> QED
  BY <1>1, <1>2 DEF Remembered, ReadingOn

\* The step of a request that leaves the connection and the sessions alone.
LEMMA OwnStep ==
  ASSUME Inv, NEW r \in Queries, NEW x \in States, thread' = [thread EXCEPT ![r] = x],
         Fit(x, con, cons, stage), UNCHANGED <<con, cons, stage>>, knownKey' = knownKey \/ knownKey' # 0,
         x.pc \in {"fresh", "take", "secret", "end"} => knownKey' # 0
  PROVE  /\ thread' \in [Queries -> States]
         /\ \A t \in Queries : Fit(thread'[t], con', cons', stage')
         /\ Remembered'
<1>1. thread' \in [Queries -> States] /\ \A t \in Queries : Fit(thread'[t], con', cons', stage')
  BY DEF Inv, Typed
<1>2. ASSUME NEW t \in Queries, thread'[t].pc \in {"fresh", "take", "secret", "end"}, thread'[t].calm
      PROVE  knownKey' # 0
  BY <1>2 DEF Inv, Typed, Remembered, ReadingOn
<1> QED
  BY <1>1, <1>2 DEF Remembered, ReadingOn

\* A step of a request to another of its lines, with what that line relies on.
LEMMA GoesOn ==
  ASSUME Inv, NEW r \in Queries, NEW pc, thread' = Go(r, pc),
         pc \in {"fresh", "take", "secret", "resolve", "check", "compare", "lapsed", "close", "make",
                 "expiry", "end", "use"},
         thread[r].pc \notin {"idle", "failed", "forget"},
         thread[r].calm => (pc \in {"expiry", "end", "use"} => con # NoCon),
         UNCHANGED <<con, cons, stage>>, knownKey' = knownKey \/ knownKey' # 0,
         pc \in {"fresh", "take", "secret", "end"} => knownKey' # 0
  PROVE  /\ thread' \in [Queries -> States]
         /\ \A t \in Queries : Fit(thread'[t], con', cons', stage')
         /\ Remembered'
<1> DEFINE x == [thread[r] EXCEPT !.pc = pc]
<1>1. thread[r] \in Active /\ Fit(thread[r], con, cons, stage)
  BY ActiveOrEnded DEF Inv, Typed
<1>2. /\ x \in Active /\ x.pc = pc /\ x.kind = thread[r].kind /\ x.held = thread[r].held
      /\ x.calm = thread[r].calm /\ x.retried = thread[r].retried
  BY <1>1 DEF Active
<1>3. thread' = [thread EXCEPT ![r] = x]
  BY DEF Go, Inv, Typed
<1> HIDE DEF x
<1>4. x \in States /\ Fit(x, con, cons, stage)
  BY <1>1, <1>2 DEF States, Fit, Calm, Ended
<1> QED
  BY <1>2, <1>3, <1>4, OwnStep

LEMMA FailureTyped ==
  ASSUME NEW r, thread[r] \in Active
  PROVE  /\ Failure(r) \in Ended /\ Failure(r).pc = "failed"
         /\ Failure(r).kind = thread[r].kind /\ Failure(r).calm = thread[r].calm
BY DEF Failure, Active, Ended

LEMMA EndedNotActive == ASSUME NEW x \in Ended PROVE x \in States /\ x \notin Active
BY DEF Ended, Active, States

\* A request may fail when it was disturbed, or only asks for the health of the service.
LEMMA Fails ==
  ASSUME Inv, NEW r \in Queries, thread[r] \in Active, thread' = Fail(r),
         ~thread[r].calm \/ thread[r].kind = "health", UNCHANGED <<con, cons, stage, knownKey>>
  PROVE  /\ thread' \in [Queries -> States]
         /\ \A t \in Queries : Fit(thread'[t], con', cons', stage')
         /\ Remembered'
<1>1. /\ Failure(r) \in States /\ Fit(Failure(r), con, cons, stage)
      /\ Failure(r).pc = "failed"
  BY FailureTyped, EndedNotActive DEF Fit
<1> QED
  BY <1>1, OwnStep DEF Fail

-----------------------------------------------------------------------------
(* The steps.                                                              *)

LEMMA InvInit == ASSUME ConnectionInit PROVE Inv
<1> SUFFICES ASSUME ConnectionInit PROVE Inv
  OBVIOUS
<1>1. Typed /\ HostAlive
  BY ConnectionAssumption DEF ConnectionInit, Typed, HostAlive, Dead, States, Keys
<1>2. Remembered /\ \A r \in Queries : Fit(thread[r], con, cons, stage)
  BY DEF ConnectionInit, Remembered, ReadingOn, Fit, Active, Ended
<1> QED
  BY <1>1, <1>2 DEF Inv

\* A session that ends is not the host's, or not over yet; who has dropped the connection
\* to try once more is disturbed, and the others rely on no session.
LEMMA InvSessionEnds == ASSUME Inv, SessionEnds PROVE Inv'
<1>1. PICK k \in Keys :
        /\ k <= hostKey
        /\ \/ stage[k] = "fresh" /\ stage' = [stage EXCEPT ![k] = "ending"]
           \/ k < hostKey /\ stage[k] = "ending" /\ stage' = [stage EXCEPT ![k] = "over"]
           \/ k < hostKey /\ stage[k] = "fresh" /\ stage' = [stage EXCEPT ![k] = "revoked"]
  BY DEF SessionEnds
<1>2. stage' \in [Keys -> {"fresh", "ending", "over", "revoked"}] /\ HostAlive'
  <2>1. stage' \in [Keys -> {"fresh", "ending", "over", "revoked"}]
    BY <1>1 DEF Inv, Typed
  <2>2. ASSUME NEW j \in Keys, j >= hostKey'
        PROVE  stage'[j] \notin {"over", "revoked"}
    <3>1. j >= hostKey /\ stage[j] \notin {"over", "revoked"}
      BY <2>2 DEF SessionEnds, Inv, HostAlive, Dead
    <3>2. CASE j = k
      BY <1>1, <3>1, <3>2, ConnectionAssumption DEF Inv, Typed, Keys
    <3>3. CASE j # k
      BY <1>1, <3>1, <3>3 DEF Inv, Typed
    <3> QED
      BY <3>2, <3>3
  <2> QED
    BY <2>1, <2>2 DEF HostAlive, Dead
<1>3. ASSUME NEW r \in Queries
      PROVE  thread'[r] \in States /\ Fit(thread'[r], con', cons', stage')
  <2>1. thread[r] \in States /\ Fit(thread[r], con, cons, stage)
    BY DEF Inv, Typed
  <2>2. thread'[r] = IF r \in Running /\ Healing(r) THEN [thread[r] EXCEPT !.calm = FALSE] ELSE thread[r]
    BY DEF SessionEnds
  <2>3. UNCHANGED <<con, cons>>
    BY DEF SessionEnds, connectionVars
  <2>4. CASE r \in Running /\ Healing(r)
    <3>1. thread[r] \in Active
      BY <2>1, <2>4, ActiveOrEnded DEF Running
    <3> QED
      BY <2>1, <2>2, <2>3, <2>4, <3>1, Disturbed DEF States
  <2>5. CASE r \in Running /\ ~Healing(r)
    <3>1. thread[r] \in Active
      BY <2>1, <2>5, ActiveOrEnded DEF Running
    <3> QED
      BY <2>1, <2>2, <2>3, <2>5, <3>1 DEF Fit, Calm, Healing, Active, Ended
  <2>6. CASE r \notin Running
    <3>1. thread[r] \in States \ Active
      BY <2>1, <2>6, ActiveOrEnded DEF Running
    <3> QED
      BY <2>1, <2>2, <2>6, <3>1, NotRunning
  <2> QED
    BY <2>4, <2>5, <2>6
<1>4. thread' \in [Queries -> States]
  BY <1>3 DEF SessionEnds
<1>5. Remembered'
  <2> SUFFICES ASSUME NEW r \in Queries, thread'[r].pc \in {"fresh", "take", "secret", "end"}, thread'[r].calm
               PROVE  knownKey # 0
    BY DEF SessionEnds, connectionVars, Remembered, ReadingOn
  <2>1. thread[r] \in States /\ (r \in Running => thread[r] \in Active)
    BY ActiveOrEnded DEF Inv, Typed, Running
  <2>2. thread'[r] = IF r \in Running /\ Healing(r) THEN [thread[r] EXCEPT !.calm = FALSE] ELSE thread[r]
    BY DEF SessionEnds
  <2>3. ~(r \in Running /\ Healing(r))
    BY <2>1, <2>2 DEF Active
  <2> QED
    BY <2>2, <2>3 DEF Inv, Remembered, ReadingOn
<1> QED
  BY <1>2, <1>3, <1>4, <1>5 DEF SessionEnds, connectionVars, Inv, Typed

LEMMA InvHostRenews == ASSUME Inv, HostRenews PROVE Inv'
<1>1. hostKey' \in Keys /\ hostKey < hostKey'
  BY ConnectionAssumption DEF HostRenews, Inv, Typed, Keys
<1>2. ASSUME NEW k \in Keys, k >= hostKey'
      PROVE  ~Dead(k)'
  <2>1. k >= hostKey
    BY <1>1, <1>2, ConnectionAssumption DEF Inv, Typed, Keys
  <2> QED
    BY <2>1 DEF HostRenews, Inv, HostAlive, Dead
<1> QED
  BY <1>1, <1>2 DEF HostRenews, connectionVars, Inv, Typed, HostAlive, Remembered, ReadingOn

LEMMA InvCall ==
  ASSUME Inv, NEW r \in Queries, NEW kind \in Kinds, Call(r, kind)
  PROVE  Inv'
<1> DEFINE x == Fresh(kind, FALSE, TRUE)
<1>1. x \in Active /\ x.pc = "creds" /\ ~x.retried /\ x.held = NoCon
  BY DEF Active, Fresh
<1> HIDE DEF x
<1>2. x \in States /\ Fit(x, con, cons, stage)
  BY <1>1 DEF States, Fit, Calm, Ended
<1>3. thread' = [thread EXCEPT ![r] = x] /\ UNCHANGED <<con, cons, stage>>
  BY DEF Call, connectionVars, x
<1> QED
  BY <1>1, <1>2, <1>3, OwnStep DEF Call, connectionVars, Inv, Typed, HostAlive, Dead

\* What a step that leaves the sessions and the connection alone has to show.
LEMMA InvStep ==
  ASSUME Inv, knownKey' \in Keys \cup {0}, UNCHANGED <<stage, hostKey, con, cons>>,
         conKey' \in Keys \cup {0}, conExpiry' \in Keys \cup {0, NoCon},
         thread' \in [Queries -> States], Remembered',
         \A t \in Queries : Fit(thread'[t], con', cons', stage')
  PROVE  Inv'
BY DEF Inv, Typed, HostAlive, Dead

\* get_aws_credentials: the credentials that a calm request has found are there.
LEMMA InvReadsCredentials ==
  ASSUME Inv, NEW r \in Queries, RememberCredentials(r) \/ CompareExpiry(r) \/ TakeSecret(r)
  PROVE  Inv'
<1>1. /\ thread[r] \in Active /\ UNCHANGED <<stage, hostKey, knownKey, con, cons, conKey, conExpiry>>
      /\ thread[r].pc \in {"creds", "fresh", "secret"}
  BY ActiveOrEnded DEF Inv, Typed, RememberCredentials, CompareExpiry, TakeSecret, connectionVars
<1>2. CASE thread' = Fail(r) /\ knownKey = 0 /\ thread[r].pc \in {"fresh", "secret"}
  <2>1. ~thread[r].calm
    BY <1>2 DEF Inv, Remembered, ReadingOn
  <2> QED
    BY <1>1, <1>2, <2>1, Fails, InvStep DEF Inv, Typed
<1>3. CASE \E pc \in {"resolve", "fresh", "take", "check"} : thread' = Go(r, pc) /\ (pc \in {"fresh", "take"} => knownKey # 0)
  <2>1. PICK pc \in {"resolve", "fresh", "take", "check"} : thread' = Go(r, pc) /\ (pc \in {"fresh", "take"} => knownKey # 0)
    BY <1>3
  <2>2. /\ thread' \in [Queries -> States] /\ Remembered'
        /\ \A t \in Queries : Fit(thread'[t], con', cons', stage')
    BY <1>1, <2>1, GoesOn
  <2> QED
    BY <1>1, <2>2, InvStep DEF Inv, Typed
<1> QED
  BY <1>1, <1>2, <1>3 DEF RememberCredentials, CompareExpiry, TakeSecret

LEMMA InvTakesKey ==
  ASSUME Inv, NEW r \in Queries, TakeKey(r) \/ ResolveCredentials(r)
  PROVE  Inv'
<1>1. /\ thread[r] \in Active /\ Fit(thread[r], con, cons, stage) /\ thread[r].pc \in {"take", "resolve"}
      /\ UNCHANGED <<stage, hostKey, knownKey, con, cons, conKey, conExpiry>>
  BY ActiveOrEnded DEF Inv, Typed, TakeKey, ResolveCredentials, connectionVars
<1>2. CASE thread' = Fail(r) /\ knownKey = 0 /\ thread[r].pc = "take"
  <2>1. ~thread[r].calm
    BY <1>2 DEF Inv, Remembered, ReadingOn
  <2> QED
    BY <1>1, <1>2, <2>1, Fails, InvStep DEF Inv, Typed
<1>3. CASE \E key \in Keys, pc \in {"secret", "keep"} :
             thread' = [thread EXCEPT ![r].key = key, ![r].pc = pc] /\ (pc = "secret" => knownKey # 0)
  <2>1. PICK key \in Keys, pc \in {"secret", "keep"} :
          thread' = [thread EXCEPT ![r].key = key, ![r].pc = pc] /\ (pc = "secret" => knownKey # 0)
    BY <1>3
  <2> DEFINE x == [thread[r] EXCEPT !.key = key, !.pc = pc]
  <2>2. /\ x \in Active /\ x.pc = pc /\ x.kind = thread[r].kind /\ x.held = thread[r].held
        /\ x.calm = thread[r].calm /\ x.retried = thread[r].retried /\ x.key = key
    BY <1>1 DEF Active
  <2>6. key # 0
    BY ConnectionAssumption DEF Keys
  <2>3. thread' = [thread EXCEPT ![r] = x]
    BY <2>1 DEF Inv, Typed
  <2> HIDE DEF x
  <2>4. x \in States /\ Fit(x, con, cons, stage)
    BY <1>1, <2>2, <2>6 DEF States, Fit, Calm, Ended
  <2>5. /\ thread' \in [Queries -> States] /\ Remembered'
        /\ \A t \in Queries : Fit(thread'[t], con', cons', stage')
    BY <1>1, <2>1, <2>2, <2>3, <2>4, OwnStep
  <2> QED
    BY <1>1, <2>5, InvStep DEF Inv, Typed
<1>4. hostKey \in Keys /\ (knownKey # 0 => knownKey \in Keys)
  BY DEF Inv, Typed
<1> QED
  BY <1>1, <1>2, <1>3, <1>4 DEF TakeKey, ResolveCredentials

\* What was resolved is a session.
LEMMA InvKeepCredentials == ASSUME Inv, NEW r \in Queries, KeepCredentials(r) PROVE Inv'
<1>1. /\ thread[r] \in Active /\ Fit(thread[r], con, cons, stage) /\ thread[r].pc = "keep"
      /\ UNCHANGED <<stage, hostKey, con, cons, conKey, conExpiry>>
      /\ knownKey' = thread[r].key /\ thread' = Go(r, "check")
  BY ActiveOrEnded DEF Inv, Typed, KeepCredentials, connectionVars
<1>2. knownKey' \in Keys \cup {0} /\ knownKey' # 0
  BY <1>1 DEF Fit, Active
<1>3. /\ thread' \in [Queries -> States] /\ Remembered'
      /\ \A t \in Queries : Fit(thread'[t], con', cons', stage')
  BY <1>1, <1>2, GoesOn
<1> QED
  BY <1>1, <1>2, <1>3, InvStep DEF Inv, Typed

\* get_lake_duckdb, up to the closing of a connection that it will not use.
LEMMA InvCheckConnection ==
  ASSUME Inv, NEW r \in Queries, CheckConnection(r) \/ CompareKey(r) \/ CompareLapse(r)
  PROVE  Inv'
<1>1. PICK pc \in {"make", "compare", "close", "lapsed"} : thread' = Go(r, pc)
  BY DEF CheckConnection, CompareKey, CompareLapse
<1>2. /\ UNCHANGED <<stage, hostKey, knownKey, con, cons, conKey, conExpiry>>
      /\ thread[r].pc \in {"check", "compare", "lapsed"}
  BY DEF CheckConnection, CompareKey, CompareLapse, connectionVars
<1>3. /\ thread' \in [Queries -> States] /\ Remembered'
      /\ \A t \in Queries : Fit(thread'[t], con', cons', stage')
  BY <1>1, <1>2, GoesOn
<1> QED
  BY <1>2, <1>3, InvStep DEF Inv, Typed

\* It closes the connection to make another: the others are disturbed.
LEMMA MadeTyped ==
  ASSUME Typed, NEW i \in DOMAIN cons
  PROVE  cons[i] \in [key : Keys, health : {"good", "invalid", "closed"}]
<1>1. ASSUME NEW S, NEW q \in Seq(S), NEW j \in DOMAIN q PROVE q[j] \in S
  OBVIOUS
<1> QED
  BY <1>1 DEF Typed

LEMMA HealthChanges ==
  ASSUME Typed, NEW i \in DOMAIN cons, NEW health \in {"good", "invalid", "closed"}
  PROVE  /\ [cons EXCEPT ![i] = [@ EXCEPT !.health = health]]
              \in Seq([key : Keys, health : {"good", "invalid", "closed"}])
         /\ DOMAIN [cons EXCEPT ![i] = [@ EXCEPT !.health = health]] = DOMAIN cons
<1>1. [cons[i] EXCEPT !.health = health] \in [key : Keys, health : {"good", "invalid", "closed"}]
  BY MadeTyped
<1> QED
  BY <1>1 DEF Typed

LEMMA ClosedTyped ==
  ASSUME Inv
  PROVE  Closed \in Seq([key : Keys, health : {"good", "invalid", "closed"}]) /\ DOMAIN Closed = DOMAIN cons
<1>1. CASE con = NoCon
  BY <1>1 DEF Inv, Typed, Closed
<1>2. CASE con # NoCon
  <2>1. Closed = [cons EXCEPT ![con] = [@ EXCEPT !.health = "closed"]] /\ con \in DOMAIN cons
    BY <1>2 DEF Inv, Typed, Closed
  <2> QED
    BY <2>1, HealthChanges DEF Inv, Typed
<1> QED
  BY <1>1, <1>2

LEMMA InvCloseConnection == ASSUME Inv, NEW r \in Queries, CloseConnection(r) PROVE Inv'
<1> DEFINE x == [thread[r] EXCEPT !.pc = "make"]
<1>1. thread[r] \in Active /\ Fit(thread[r], con, cons, stage)
  BY ActiveOrEnded DEF Inv, Typed, CloseConnection
<1>2. x \in Active
  BY <1>1 DEF Active
<1>3. cons' = Closed /\ con' = NoCon /\ stage' = stage
  BY DEF CloseConnection
<1>4. x \in States /\ Fit(x, con', cons', stage') /\ x.pc = "make"
  BY <1>1, <1>2, <1>3, ClosedTyped DEF States, Fit, Calm, Usable, Active, Ended, CloseConnection
<1>5. thread' = Disturb(r, x, Running) /\ knownKey' = knownKey
  BY DEF CloseConnection
<1> HIDE DEF x
<1>6. /\ thread' \in [Queries -> States] /\ Remembered'
      /\ \A t \in Queries : Fit(thread'[t], con', cons', stage')
  BY <1>3, <1>4, <1>5, ClosedTyped, DisturbsOthers
<1> QED
  BY <1>3, <1>6, ClosedTyped DEF CloseConnection, Inv, Typed, HostAlive, Dead

LEMMA InvReset == ASSUME Inv, NEW r \in Queries, Reset(r) PROVE Inv'
<1> DEFINE x == [thread[r] EXCEPT !.pc = "forget"]
<1>1. thread[r] \in Active /\ Fit(thread[r], con, cons, stage)
  BY ActiveOrEnded DEF Inv, Typed, Reset
<1>2. x \in Active
  BY <1>1 DEF Active
<1>3. cons' = Closed /\ con' = NoCon /\ stage' = stage
  BY DEF Reset
<1>4. x \in States /\ Fit(x, con', cons', stage') /\ x.pc = "forget"
  BY <1>1, <1>2, <1>3, ClosedTyped DEF States, Fit, Calm, Usable, Active, Ended, Reset
<1>5. thread' = Disturb(r, x, Running) /\ knownKey' = knownKey
  BY DEF Reset
<1> HIDE DEF x
<1>6. /\ thread' \in [Queries -> States] /\ Remembered'
      /\ \A t \in Queries : Fit(thread'[t], con', cons', stage')
  BY <1>3, <1>4, <1>5, ClosedTyped, DisturbsOthers
<1> QED
  BY <1>3, <1>6, ClosedTyped DEF Reset, Inv, Typed, HostAlive, Dead

\* A connection is made with the session the host resolves, which has not ended.
LEMMA InvMakeConnection == ASSUME Inv, NEW r \in Queries, MakeConnection(r) PROVE Inv'
<1> DEFINE x == [thread[r] EXCEPT !.pc = "note"]
<1>1. thread[r] \in Active /\ Fit(thread[r], con, cons, stage) /\ thread[r].pc = "make"
  BY ActiveOrEnded DEF Inv, Typed, MakeConnection
<1>2. /\ x \in Active /\ x.pc = "note" /\ x.kind = thread[r].kind /\ x.held = thread[r].held
      /\ x.calm = thread[r].calm /\ x.retried = thread[r].retried
  BY <1>1 DEF Active
<1>3. UNCHANGED <<stage, hostKey, knownKey, conKey, conExpiry>>
  BY DEF MakeConnection
<1>4. CASE con # NoCon
  <2>1. UNCHANGED <<con, cons>> /\ thread' = Go(r, "use")
    BY <1>4 DEF MakeConnection
  <2>2. /\ thread' \in [Queries -> States] /\ Remembered'
        /\ \A t \in Queries : Fit(thread'[t], con', cons', stage')
    BY <1>1, <1>3, <1>4, <2>1, GoesOn
  <2> QED
    BY <1>3, <2>1, <2>2, InvStep DEF Inv, Typed
<1>5. CASE con = NoCon
  <2> DEFINE new == [key |-> hostKey, health |-> "good"]
  <2>1. cons' = Append(cons, new) /\ con' = Len(cons) + 1 /\ thread' = [thread EXCEPT ![r] = x]
    BY <1>5 DEF MakeConnection, Go, Inv, Typed
  <2> HIDE DEF x
  <2>2. new \in [key : Keys, health : {"good", "invalid", "closed"}]
    BY DEF Inv, Typed
  <2>3. /\ cons' \in Seq([key : Keys, health : {"good", "invalid", "closed"}])
        /\ DOMAIN cons \subseteq DOMAIN cons' /\ con' \in DOMAIN cons' /\ cons'[con'] = new
        /\ con' \in Nat
    BY <2>1, <2>2 DEF Inv, Typed
  <2>4. stage[hostKey] \notin {"over", "revoked"}
    BY ConnectionAssumption DEF Inv, Typed, HostAlive, Dead, Keys
  <2>5. Usable(con', cons', stage') /\ con' # NoCon
    BY <1>3, <2>3, <2>4, ConnectionAssumption DEF Usable
  <2>6. x \in States /\ Fit(x, con', cons', stage')
    BY <1>1, <1>2, <2>3, <2>5 DEF States, Fit, Calm, Ended
  <2>7. ASSUME NEW t \in Queries, t # r
        PROVE  Fit(thread'[t], con', cons', stage')
    <3>1. thread'[t] = thread[t] /\ Fit(thread[t], con, cons, stage)
      BY <2>1, <2>7 DEF Inv, Typed
    <3>2. ASSUME thread[t] \in Active
          PROVE  /\ thread[t].held = NoCon \/ thread[t].held \in DOMAIN cons'
                 /\ thread[t].pc \in {"run", "reset"} => thread[t].held # NoCon
                 /\ thread[t].pc \in {"reset", "forget"} => thread[t].kind # "health"
                 /\ thread[t].pc = "keep" => thread[t].key # 0
      BY <3>1, <3>2, <2>3 DEF Fit
    <3>3. ASSUME thread[t] \in Active, thread[t].calm
          PROVE  Calm(thread[t], con', cons', stage')
      BY <1>5, <3>1, <3>3, <2>5 DEF Fit, Calm
    <3> QED
      BY <3>1, <3>2, <3>3 DEF Fit
  <2>8. thread' \in [Queries -> States] /\ \A t \in Queries : Fit(thread'[t], con', cons', stage')
    BY <2>1, <2>6, <2>7 DEF Inv, Typed
  <2>9. Remembered'
    <3>1. ASSUME NEW t \in Queries, thread'[t].pc \in {"fresh", "take", "secret", "end"}, thread'[t].calm
          PROVE  knownKey' # 0
      BY <1>2, <1>3, <2>1, <3>1 DEF Inv, Typed, Remembered, ReadingOn
    <3> QED
      BY <3>1 DEF Remembered, ReadingOn
  <2>10. Typed'
    BY <1>3, <2>1, <2>2, <2>3, <2>8 DEF Inv, Typed
  <2> QED
    BY <1>3, <2>8, <2>9, <2>10 DEF Inv, HostAlive, Dead
<1> QED
  BY <1>4, <1>5

\* Its key and its end are noted: a calm request finds the credentials it reads the end of.
LEMMA InvNotes ==
  ASSUME Inv, NEW r \in Queries, NoteKey(r) \/ AskExpiry(r) \/ NoteExpiry(r)
  PROVE  Inv'
<1>1. /\ thread[r] \in Active /\ Fit(thread[r], con, cons, stage) /\ thread[r].pc \in {"note", "expiry", "end"}
      /\ UNCHANGED <<stage, hostKey, knownKey, con, cons>>
  BY ActiveOrEnded DEF Inv, Typed, NoteKey, AskExpiry, NoteExpiry
<1>2. conKey' \in Keys \cup {0} /\ conExpiry' \in Keys \cup {0, NoCon}
  BY <1>1 DEF Inv, Typed, NoteKey, AskExpiry, NoteExpiry, Active
<1>3. CASE thread' = Fail(r) /\ knownKey = 0 /\ thread[r].pc = "end"
  <2>1. ~thread[r].calm
    BY <1>3 DEF Inv, Remembered, ReadingOn
  <2> QED
    BY <1>1, <1>2, <1>3, <2>1, Fails, InvStep DEF Inv, Typed
<1>4. CASE \E pc \in {"expiry", "end", "use"} : thread' = Go(r, pc) /\ (pc = "end" => knownKey # 0)
  <2>1. PICK pc \in {"expiry", "end", "use"} : thread' = Go(r, pc) /\ (pc = "end" => knownKey # 0)
    BY <1>4
  <2>2. thread[r].calm => con # NoCon
    BY <1>1 DEF Fit, Calm
  <2>3. /\ thread' \in [Queries -> States] /\ Remembered'
        /\ \A t \in Queries : Fit(thread'[t], con', cons', stage')
    BY <1>1, <2>1, <2>2, GoesOn
  <2> QED
    BY <1>1, <1>2, <2>3, InvStep DEF Inv, Typed
<1> QED
  BY <1>1, <1>3, <1>4 DEF NoteKey, AskExpiry, NoteExpiry

\* It finds no connection only when it was disturbed.
LEMMA InvUseConnection == ASSUME Inv, NEW r \in Queries, UseConnection(r) PROVE Inv'
<1>1. /\ thread[r] \in Active /\ Fit(thread[r], con, cons, stage) /\ thread[r].pc = "use"
      /\ UNCHANGED <<stage, hostKey, knownKey, con, cons, conKey, conExpiry>>
  BY ActiveOrEnded DEF Inv, Typed, UseConnection, connectionVars
<1>2. CASE con = NoCon
  <2>1. ~thread[r].calm
    BY <1>1, <1>2 DEF Fit, Calm
  <2>2. thread' = Fail(r)
    BY <1>2 DEF UseConnection
  <2> QED
    BY <1>1, <2>1, <2>2, Fails, InvStep DEF Inv, Typed
<1>3. CASE con # NoCon
  <2> DEFINE x == [thread[r] EXCEPT !.key = 0, !.held = con, !.pc = "run"]
  <2>1. con \in DOMAIN cons /\ con \in Nat
    BY <1>3 DEF Inv, Typed
  <2>2. /\ x \in Active /\ x.pc = "run" /\ x.kind = thread[r].kind /\ x.held = con
        /\ x.calm = thread[r].calm /\ x.retried = thread[r].retried
    BY <1>1, <2>1 DEF Active
  <2>3. thread' = [thread EXCEPT ![r] = x]
    BY <1>3 DEF UseConnection, Inv, Typed
  <2> HIDE DEF x
  <2>4. x \in States /\ Fit(x, con, cons, stage)
    BY <1>1, <1>3, <2>1, <2>2 DEF States, Fit, Calm, Ended
  <2>5. /\ thread' \in [Queries -> States] /\ Remembered'
        /\ \A t \in Queries : Fit(thread'[t], con', cons', stage')
    BY <1>1, <2>2, <2>3, <2>4, OwnStep
  <2> QED
    BY <1>1, <2>5, InvStep DEF Inv, Typed
<1> QED
  BY <1>2, <1>3

\* The query runs: it fails for the connection's sake only on its first attempt, or when it
\* was disturbed; a fatal one spoils the connection for the others.
LEMMA InvRunQuery == ASSUME Inv, NEW r \in Queries, RunQuery(r) PROVE Inv'
<1> DEFINE c == cons[thread[r].held]
<1>1. /\ thread[r] \in Active /\ Fit(thread[r], con, cons, stage) /\ thread[r].pc = "run"
      /\ UNCHANGED <<stage, hostKey, knownKey, con, conKey, conExpiry>>
  BY ActiveOrEnded DEF Inv, Typed, RunQuery
<1>2. thread[r].held \in DOMAIN cons
  BY <1>1 DEF Fit
<1>3. CASE thread' = Answered(r) /\ UNCHANGED cons
  <2> DEFINE x == [pc |-> "idle"]
  <2>1. x \in States /\ Fit(x, con, cons, stage) /\ x.pc = "idle"
    BY DEF States, Fit, Active, Ended
  <2>2. thread' = [thread EXCEPT ![r] = x]
    BY <1>3 DEF Answered
  <2> HIDE DEF x
  <2>3. /\ thread' \in [Queries -> States] /\ Remembered'
        /\ \A t \in Queries : Fit(thread'[t], con', cons', stage')
    BY <1>1, <1>3, <2>1, <2>2, OwnStep
  <2> QED
    BY <1>1, <1>3, <2>3, InvStep DEF Inv, Typed
<1>4. CASE /\ cons' = [cons EXCEPT ![thread[r].held].health = "invalid"]
           /\ thread' = Disturb(r, [Failure(r) EXCEPT !.calm = FALSE], Running)
  <2> DEFINE x == [Failure(r) EXCEPT !.calm = FALSE]
  <2>1. x \in Ended /\ ~x.calm /\ x.pc = "failed"
    BY <1>1, FailureTyped DEF Ended
  <2> HIDE DEF x
  <2>2. x \in States /\ Fit(x, con', cons', stage')
    BY <2>1, EndedNotActive DEF Fit
  <2>3. /\ cons' \in Seq([key : Keys, health : {"good", "invalid", "closed"}])
        /\ DOMAIN cons' = DOMAIN cons
    BY <1>2, <1>4, HealthChanges DEF Inv
  <2>4. con' = NoCon \/ (con' \in DOMAIN cons' /\ cons'[con'].health # "closed")
    BY <1>1, <1>2, <1>4, <2>3 DEF Inv, Typed
  <2>5. /\ thread' \in [Queries -> States] /\ Remembered'
        /\ \A t \in Queries : Fit(thread'[t], con', cons', stage')
    BY <1>1, <1>4, <2>1, <2>2, <2>3, DisturbsOthers DEF x
  <2> QED
    BY <1>1, <2>3, <2>4, <2>5 DEF Inv, Typed, HostAlive, Dead
<1>5. CASE /\ c.health # "good" \/ Dead(c.key)
           /\ Recoverable(c) /\ thread[r].kind # "health"
           /\ thread' = [thread EXCEPT ![r].pc = "reset", ![r].expired = c.health = "good"]
           /\ UNCHANGED cons
  <2> DEFINE x == [thread[r] EXCEPT !.pc = "reset", !.expired = c.health = "good"]
  <2>1. (c.health = "good") \in BOOLEAN
    OBVIOUS
  <2>2. x \in Active /\ x.pc = "reset" /\ x.kind = thread[r].kind /\ x.held = thread[r].held
        /\ x.calm = thread[r].calm /\ x.retried = thread[r].retried
    BY <1>1, <2>1 DEF Active
  <2>3. thread[r].calm => ~thread[r].retried
    BY <1>1, <1>2, <1>5 DEF Fit, Calm, Usable, Dead, Inv, Typed
  <2>4. thread' = [thread EXCEPT ![r] = x]
    BY <1>5 DEF Inv, Typed
  <2> HIDE DEF x
  <2>5. x \in States /\ Fit(x, con, cons, stage)
    BY <1>1, <1>2, <1>5, <2>2, <2>3 DEF States, Fit, Calm, Active, Ended
  <2>6. /\ thread' \in [Queries -> States] /\ Remembered'
        /\ \A t \in Queries : Fit(thread'[t], con', cons', stage')
    BY <1>1, <1>5, <2>2, <2>4, <2>5, OwnStep
  <2> QED
    BY <1>1, <1>5, <2>6, InvStep DEF Inv, Typed
<1>6. CASE /\ c.health # "good" \/ Dead(c.key)
           /\ ~(Recoverable(c) /\ thread[r].kind # "health")
           /\ thread' = Fail(r) /\ UNCHANGED cons
  <2>1. ~thread[r].calm \/ thread[r].kind = "health"
    <3> SUFFICES ASSUME thread[r].kind # "health", thread[r].calm PROVE FALSE
      BY <1>1 DEF Active
    <3>1. con = thread[r].held /\ con # NoCon
      BY <1>1, <1>2 DEF Fit, Calm
    <3>2. c.health \in {"good", "invalid"}
      BY <3>1, <1>2, MadeTyped DEF Inv, Typed
    <3> QED
      BY <1>6, <3>2 DEF Recoverable
  <2> QED
    BY <1>1, <1>6, <2>1, Fails, InvStep DEF Inv, Typed
<1> QED
  BY <1>3, <1>4, <1>5, <1>6 DEF RunQuery

\* What it dropped was its own; it tries once more, with a connection made since or by it.
LEMMA InvForget == ASSUME Inv, NEW r \in Queries, Forget(r) PROVE Inv'
<1> DEFINE others == IF thread[r].expired THEN ReadingOn ELSE {}
           x == IF thread[r].retried THEN Failure(r) ELSE Fresh(thread[r].kind, TRUE, thread[r].calm)
<1>1. /\ thread[r] \in Active /\ Fit(thread[r], con, cons, stage) /\ thread[r].pc = "forget"
      /\ UNCHANGED <<stage, hostKey, con, cons, conKey, conExpiry>>
      /\ thread' = Disturb(r, x, others)
  BY ActiveOrEnded DEF Inv, Typed, Forget, connectionVars
<1>2. /\ others \in SUBSET Running /\ knownKey' \in Keys \cup {0}
      /\ knownKey' # knownKey => ReadingOn \subseteq others
  BY DEF Forget, Inv, Typed, ReadingOn, Running
<1> HIDE DEF others
<1>3. x \in States /\ Fit(x, con, cons, stage) /\ x.pc \in {"failed", "creds"}
  <2>1. CASE thread[r].retried
    <3>1. x = Failure(r)
      BY <2>1
    <3> HIDE DEF x
    <3> QED
      BY <1>1, <2>1, <3>1, FailureTyped, EndedNotActive DEF Fit, Calm
  <2>2. CASE ~thread[r].retried
    <3>1. x \in Active /\ x.pc = "creds" /\ x.held = NoCon /\ x.calm = thread[r].calm
      BY <1>1, <2>2 DEF Active, Fresh
    <3>2. x.retried
      BY <2>2 DEF Fresh
    <3> HIDE DEF x
    <3> QED
      BY <1>1, <2>2, <3>1, <3>2 DEF States, Fit, Calm, Ended
  <2> QED
    BY <2>1, <2>2
<1> HIDE DEF x
<1>4. /\ thread' \in [Queries -> States] /\ Remembered'
      /\ \A t \in Queries : Fit(thread'[t], con', cons', stage')
  BY <1>1, <1>2, <1>3, DisturbsOthers
<1> QED
  BY <1>1, <1>2, <1>4, InvStep DEF Inv, Typed

LEMMA InvStutters == ASSUME Inv, UNCHANGED lakeVars PROVE Inv'
BY DEF lakeVars, connectionVars, Inv, Typed, HostAlive, Dead, Remembered, ReadingOn

-----------------------------------------------------------------------------
LEMMA Invariance == ConnectionSpec => []Inv
<1>1. ConnectionInit => Inv
  BY InvInit
<1>2. Inv /\ [ConnectionNext]_lakeVars => Inv'
  <2> SUFFICES ASSUME Inv, [ConnectionNext]_lakeVars
               PROVE  Inv'
    OBVIOUS
  <2>1. CASE SessionEnds
    BY <2>1, InvSessionEnds
  <2>2. CASE HostRenews
    BY <2>2, InvHostRenews
  <2>3. ASSUME NEW r \in Queries, Serve(r)
        PROVE  Inv'
    BY <2>3, InvCall, InvReadsCredentials, InvTakesKey, InvKeepCredentials, InvCheckConnection,
       InvCloseConnection, InvMakeConnection, InvNotes, InvUseConnection, InvRunQuery, InvReset, InvForget
       DEF Serve
  <2>4. CASE UNCHANGED lakeVars
    BY <2>4, InvStutters
  <2> QED
    BY <2>1, <2>2, <2>3, <2>4 DEF ConnectionNext
<1> QED
  BY <1>1, <1>2, PTL DEF ConnectionSpec

\* The connection that is shared is never one that was closed, and every request that runs
\* holds one that was made (get_lake_duckdb, reset_lake_duckdb).
THEOREM ConnectionIsTyped == ConnectionSpec => []ConnectionTypeOK
<1>1. Inv => ConnectionTypeOK
  <2> SUFFICES ASSUME Inv
               PROVE  ConnectionTypeOK
    OBVIOUS
  <2>1. ASSUME NEW r \in Running
        PROVE  thread[r].held = NoCon \/ thread[r].held \in DOMAIN cons
    <3>1. thread[r] \in Active /\ Fit(thread[r], con, cons, stage)
      BY ActiveOrEnded DEF Inv, Typed, Running
    <3> QED
      BY <3>1 DEF Fit
  <2> QED
    BY <2>1 DEF Inv, Typed, ConnectionTypeOK, States
<1> QED
  BY <1>1, Invariance, PTL

\* lake_query heals: a query that nobody disturbed, by closing or spoiling the connection, or
\* by resetting the credentials between its reads, never fails for the connection's sake.
\* It may fail at its second attempt only, and who made the connection it then finds did so
\* after it had dropped its own, with the session that the host resolves.
THEOREM UndisturbedQueriesHeal == ConnectionSpec => []QueriesHeal
<1>1. Inv /\ ConnectionTypeOK => QueriesHeal
  <2> SUFFICES ASSUME Inv, NEW r \in Queries, thread[r].pc = "failed", thread[r].kind # "health"
               PROVE  ~thread[r].calm
    BY DEF QueriesHeal
  <2>1. thread[r] \in Ended /\ Fit(thread[r], con, cons, stage)
    BY ActiveOrEnded DEF Inv, Typed
  <2> QED
    BY <2>1 DEF Fit
<1> QED
  BY <1>1, Invariance, ConnectionIsTyped, PTL

-----------------------------------------------------------------------------
(* The refresh of the index.                                               *)

\* File f of partition p is as the last refresh of root r left it: built anew, or kept
\* for want of a removal.
Current(r, p, f) ==
  \/ index[r][p][f] = Built(p)[f]
  \/ Built(p)[f] = {} /\ Roots[r] = "s3" /\ <<r, p>> \in unremoved

\* The refresh under way has passed by the file.
Passed(r, p, f) ==
  r < refresh.root \/ (r = refresh.root /\ p \notin refresh.todo /\ <<p, f>> \notin refresh.copy)

IndexTyped ==
  /\ index \in [1..Len(Roots) -> [IndexPartitions -> [IndexFiles -> SUBSET (Live \cup Known)]]]
  /\ unremoved \subseteq (1..Len(Roots)) \X IndexPartitions
  /\ refresh = [at |-> refresh.at, todo |-> refresh.todo, root |-> refresh.root, copy |-> refresh.copy]
  /\ refresh.at \in {"idle", "merging", "copying", "done"}
  /\ refresh.at \in {"merging", "copying"} => refresh.root \in 1..Len(Roots)
  /\ refresh.root \in Nat /\ refresh.todo \subseteq discover
  /\ refresh.copy \subseteq discover \X IndexFiles
  /\ refresh.at = "merging" => refresh.copy = {}

FormerKept ==
  \A r \in 1..Len(Roots), p \in IndexPartitions \ discover, f \in IndexFiles :
    index[r][p][f] = Filed(Known, p)[f]

\* Until its end the files it has passed by are current, then all of them.
RecentMerged ==
  \A r \in 1..Len(Roots), p \in discover, f \in IndexFiles :
    (refresh.at = "done" \/ (refresh.at \in {"merging", "copying"} /\ Passed(r, p, f))) => Current(r, p, f)

RefreshInv == IndexTyped /\ FormerKept /\ RecentMerged

LEMMA DiscoverIsIndexed == discover \subseteq IndexPartitions
BY DEF discover, IndexPartitions

LEMMA BuiltTyped ==
  ASSUME NEW p
  PROVE  /\ Built(p) \in [IndexFiles -> SUBSET (Live \cup Known)]
         /\ Filed(Known, p) \in [IndexFiles -> SUBSET (Live \cup Known)]
BY DEF Built, Filed

LEMMA RefreshInit == ASSUME IndexInit PROVE RefreshInv
<1>1. IndexTyped
  <2>1. \A p : Filed(Known, p) \in [IndexFiles -> SUBSET (Live \cup Known)]
    BY BuiltTyped
  <2> QED
    BY <2>1 DEF IndexInit, IndexTyped, Resting
<1>2. FormerKept
  BY DEF IndexInit, FormerKept
<1>3. RecentMerged
  BY DEF IndexInit, RecentMerged, Resting
<1> QED
  BY <1>1, <1>2, <1>3 DEF RefreshInv

LEMMA RefreshStartsKeeps == ASSUME RefreshInv, RefreshStarts PROVE RefreshInv'
<1>1. UNCHANGED <<index, unremoved>>
  BY DEF RefreshStarts
<1>2. CASE discover = {}
  <2>1. refresh' = [at |-> "done", todo |-> {}, root |-> 1, copy |-> {}]
    BY <1>2 DEF RefreshStarts, Resting
  <2> QED
    BY <1>1, <1>2, <2>1 DEF RefreshInv, IndexTyped, FormerKept, RecentMerged, discover
<1>3. CASE discover # {}
  <2>1. refresh' = [at |-> "merging", todo |-> discover, root |-> 1, copy |-> {}]
    BY <1>3 DEF RefreshStarts, Resting
  <2>2. 1 \in 1..Len(Roots)
    BY IndexAssumption DEF RefreshStarts
  <2>3. IndexTyped'
    BY <1>1, <2>1, <2>2 DEF RefreshInv, IndexTyped, discover
  <2>4. RecentMerged'
    BY <2>1 DEF RecentMerged, Passed, discover
  <2> QED
    BY <1>1, <2>3, <2>4 DEF RefreshInv, FormerKept, discover
<1> QED
  BY <1>2, <1>3

LEMMA RefreshCrashesKeeps == ASSUME RefreshInv, RefreshCrashes PROVE RefreshInv'
<1>1. /\ UNCHANGED <<index, unremoved>>
      /\ refresh' = [at |-> "idle", todo |-> {}, root |-> 1, copy |-> {}]
  BY DEF RefreshCrashes, Resting
<1> QED
  BY <1>1 DEF RefreshInv, IndexTyped, FormerKept, RecentMerged, discover

IndexShaped(x) == x \in [1..Len(Roots) -> [IndexPartitions -> [IndexFiles -> SUBSET (Live \cup Known)]]]

\* What a removal and a copy leave of the index.
Removes(root, p, left) ==
  \A r \in 1..Len(Roots), q \in IndexPartitions, f \in IndexFiles :
    index'[r][q][f] = IF r = root /\ q = p /\ f \notin left THEN {} ELSE index[r][q][f]
Copies(root, p, g) ==
  \A r \in 1..Len(Roots), q \in IndexPartitions, f \in IndexFiles :
    index'[r][q][f] = IF r = root /\ q = p /\ f = g THEN Built(p)[g] ELSE index[r][q][f]

LEMMA RemovalEffect ==
  ASSUME RefreshInv, NEW root \in 1..Len(Roots), NEW p \in IndexPartitions, NEW left \in SUBSET IndexFiles,
         index' = [index EXCEPT ![root] = Removed(root, p, left)]
  PROVE  IndexShaped(index') /\ Removes(root, p, left)
<1> DEFINE files == [f \in IndexFiles |-> IF f \in left THEN index[root][p][f] ELSE {}]
<1>1. index[root] \in [IndexPartitions -> [IndexFiles -> SUBSET (Live \cup Known)]]
  BY DEF RefreshInv, IndexTyped
<1>2. index[root][p] \in [IndexFiles -> SUBSET (Live \cup Known)]
  BY <1>1
<1>3. files \in [IndexFiles -> SUBSET (Live \cup Known)]
  BY <1>2
<1>4. Removed(root, p, left) = [index[root] EXCEPT ![p] = files]
  BY DEF Removed
<1>5. \A f \in IndexFiles : files[f] = IF f \in left THEN index[root][p][f] ELSE {}
  OBVIOUS
<1> HIDE DEF files
<1>6. Removed(root, p, left) \in [IndexPartitions -> [IndexFiles -> SUBSET (Live \cup Known)]]
  BY <1>1, <1>3, <1>4
<1>7. \A q \in IndexPartitions : Removed(root, p, left)[q] = IF q = p THEN files ELSE index[root][q]
  BY <1>1, <1>4
<1>8. /\ index' \in [1..Len(Roots) -> [IndexPartitions -> [IndexFiles -> SUBSET (Live \cup Known)]]]
      /\ \A r \in 1..Len(Roots) : index'[r] = IF r = root THEN Removed(root, p, left) ELSE index[r]
  BY <1>6 DEF RefreshInv, IndexTyped
<1>9. ASSUME NEW r \in 1..Len(Roots), NEW q \in IndexPartitions, NEW f \in IndexFiles
      PROVE  index'[r][q][f] = IF r = root /\ q = p /\ f \notin left THEN {} ELSE index[r][q][f]
  BY <1>5, <1>7, <1>8
<1> QED
  BY <1>8, <1>9 DEF IndexShaped, Removes

LEMMA RemovePartitionKeeps == ASSUME RefreshInv, RemovePartition PROVE RefreshInv'
<1> DEFINE root == refresh.root
<1>1. PICK p \in refresh.todo, left \in SUBSET IndexFiles :
        /\ index' = [index EXCEPT ![root] = Removed(root, p, left)]
        /\ unremoved' = IF left = {} THEN unremoved \ {<<root, p>>} ELSE unremoved \cup {<<root, p>>}
        /\ refresh' = IF left # {} /\ Roots[root] = "local" THEN Resting("idle")
             ELSE [refresh EXCEPT !.at = "copying", !.todo = @ \ {p},
                     !.copy = {<<p, f>> : f \in {f \in IndexFiles : Built(p)[f] # {}}}]
  BY DEF RemovePartition
<1>2. root \in 1..Len(Roots) /\ p \in discover /\ p \in IndexPartitions /\ refresh.at = "merging"
  BY DiscoverIsIndexed DEF RefreshInv, IndexTyped, RemovePartition
<1>3. /\ index' \in [1..Len(Roots) -> [IndexPartitions -> [IndexFiles -> SUBSET (Live \cup Known)]]]
      /\ \A r \in 1..Len(Roots), q \in IndexPartitions, f \in IndexFiles :
           index'[r][q][f] = IF r = root /\ q = p /\ f \notin left THEN {} ELSE index[r][q][f]
  <2>1. IndexShaped(index') /\ Removes(root, p, left)
    BY <1>1, <1>2, RemovalEffect
  <2> QED
    BY <2>1 DEF IndexShaped, Removes
<1>4. unremoved' \subseteq (1..Len(Roots)) \X IndexPartitions
  BY <1>1, <1>2 DEF RefreshInv, IndexTyped
<1>5. \A r, q : <<r, q>> # <<root, p>> => (<<r, q>> \in unremoved' <=> <<r, q>> \in unremoved)
  BY <1>1
<1>6. FormerKept'
  BY <1>2, <1>3 DEF RefreshInv, FormerKept, discover
<1>7. CASE left # {} /\ Roots[root] = "local"
  <2>1. refresh' = [at |-> "idle", todo |-> {}, root |-> 1, copy |-> {}]
    BY <1>1, <1>7 DEF Resting
  <2> QED
    BY <1>3, <1>4, <1>6, <2>1 DEF RefreshInv, IndexTyped, RecentMerged, discover
<1>8. CASE ~(left # {} /\ Roots[root] = "local")
  <2> DEFINE copy == {<<p, f>> : f \in {f \in IndexFiles : Built(p)[f] # {}}}
  <2>1. refresh' = [at |-> "copying", todo |-> refresh.todo \ {p}, root |-> root, copy |-> copy]
    BY <1>1, <1>8 DEF RefreshInv, IndexTyped
  <2>2. copy \subseteq discover \X IndexFiles
    BY <1>2
  <2>3. \A f \in IndexFiles : <<p, f>> \notin copy => Built(p)[f] = {}
    OBVIOUS
  <2>4. left = {} \/ (Roots[root] = "s3" /\ <<root, p>> \in unremoved')
    BY <1>1, <1>2, <1>8, IndexAssumption
  <2> HIDE DEF copy
  <2>5. IndexTyped'
    BY <1>2, <1>3, <1>4, <2>1, <2>2 DEF RefreshInv, IndexTyped, discover
  <2>6. ASSUME NEW r \in 1..Len(Roots), NEW q \in discover, NEW f \in IndexFiles, Passed(r, q, f)'
        PROVE  Current(r, q, f)'
    <3>1. CASE r = root /\ q = p
      <4>1. <<p, f>> \notin copy
        BY <1>2, <2>1, <2>6, <3>1 DEF Passed
      <4>2. Built(p)[f] = {}
        BY <2>3, <4>1
      <4>3. left = {} => index'[r][q][f] = {}
        BY <1>2, <1>3, <3>1
      <4> QED
        BY <2>4, <3>1, <4>2, <4>3 DEF Current, Built
    <3>2. CASE ~(r = root /\ q = p)
      <4>1. Passed(r, q, f)
        BY <1>2, <2>1, <2>6, <3>2 DEF Passed, RefreshInv, IndexTyped
      <4>2. Current(r, q, f)
        BY <1>2, <4>1 DEF RefreshInv, RecentMerged
      <4>3. index'[r][q][f] = index[r][q][f] /\ (<<r, q>> \in unremoved' <=> <<r, q>> \in unremoved)
        BY <1>3, <1>5, <3>2, DiscoverIsIndexed
      <4> QED
        BY <4>2, <4>3 DEF Current, Built
    <3> QED
      BY <3>1, <3>2
  <2>7. RecentMerged'
    BY <2>1, <2>6 DEF RecentMerged, discover
  <2> QED
    BY <1>6, <2>5, <2>7 DEF RefreshInv
<1> QED
  BY <1>7, <1>8

LEMMA CopyEffect ==
  ASSUME RefreshInv, NEW root \in 1..Len(Roots), NEW p \in IndexPartitions, NEW g \in IndexFiles,
         index' = [index EXCEPT ![root][p][g] = Built(p)[g]]
  PROVE  IndexShaped(index') /\ Copies(root, p, g)
<1>1. index[root] \in [IndexPartitions -> [IndexFiles -> SUBSET (Live \cup Known)]]
  BY DEF RefreshInv, IndexTyped
<1>2. Built(p)[g] \in SUBSET (Live \cup Known)
  BY BuiltTyped
<1>3. index' = [index EXCEPT ![root] = [index[root] EXCEPT ![p] = [index[root][p] EXCEPT ![g] = Built(p)[g]]]]
  OBVIOUS
<1> DEFINE b == Built(p)[g]
           files == [index[root][p] EXCEPT ![g] = b]
           tree == [index[root] EXCEPT ![p] = files]
<1> HIDE DEF b
<1>4. index[root][p] \in [IndexFiles -> SUBSET (Live \cup Known)]
  BY <1>1
<1>5. /\ files \in [IndexFiles -> SUBSET (Live \cup Known)]
      /\ \A f \in IndexFiles : files[f] = IF f = g THEN b ELSE index[root][p][f]
  BY <1>2, <1>4 DEF b
<1> HIDE DEF files
<1>6. /\ tree \in [IndexPartitions -> [IndexFiles -> SUBSET (Live \cup Known)]]
      /\ \A q \in IndexPartitions : tree[q] = IF q = p THEN files ELSE index[root][q]
  BY <1>1, <1>5
<1>7. index' = [index EXCEPT ![root] = tree]
  BY <1>3 DEF tree, files, b
<1> HIDE DEF tree
<1>8. /\ index' \in [1..Len(Roots) -> [IndexPartitions -> [IndexFiles -> SUBSET (Live \cup Known)]]]
      /\ \A r \in 1..Len(Roots) : index'[r] = IF r = root THEN tree ELSE index[r]
  BY <1>6, <1>7 DEF RefreshInv, IndexTyped
<1>9. ASSUME NEW r \in 1..Len(Roots), NEW q \in IndexPartitions, NEW f \in IndexFiles
      PROVE  index'[r][q][f] = IF r = root /\ q = p /\ f = g THEN b ELSE index[r][q][f]
  BY <1>5, <1>6, <1>8
<1> QED
  BY <1>8, <1>9 DEF b, IndexShaped, Copies

LEMMA CopyFileKeeps == ASSUME RefreshInv, CopyFile PROVE RefreshInv'
<1> DEFINE root == refresh.root
<1>1. PICK file \in refresh.copy :
        /\ index' = [index EXCEPT ![root][file[1]][file[2]] = Built(file[1])[file[2]]]
        /\ refresh' = AfterCopy(refresh.copy \ {file})
  BY DEF CopyFile
<1> DEFINE copy == refresh.copy \ {file}
<1>2. unremoved' = unremoved /\ refresh.at = "copying"
  BY DEF CopyFile
<1>3. root \in 1..Len(Roots) /\ file[1] \in discover /\ file[2] \in IndexFiles /\ file = <<file[1], file[2]>>
  BY <1>2 DEF RefreshInv, IndexTyped
<1>4. /\ index' \in [1..Len(Roots) -> [IndexPartitions -> [IndexFiles -> SUBSET (Live \cup Known)]]]
      /\ \A r \in 1..Len(Roots), q \in IndexPartitions, f \in IndexFiles :
           index'[r][q][f] = IF r = root /\ q = file[1] /\ f = file[2] THEN Built(file[1])[file[2]]
                             ELSE index[r][q][f]
  <2>1. file[1] \in IndexPartitions
    BY <1>3, DiscoverIsIndexed
  <2>2. IndexShaped(index') /\ Copies(root, file[1], file[2])
    BY <1>1, <1>3, <2>1, CopyEffect
  <2> QED
    BY <2>2 DEF IndexShaped, Copies
<1>5. FormerKept'
  BY <1>3, <1>4 DEF RefreshInv, FormerKept, discover
<1>6. ASSUME NEW r \in 1..Len(Roots), NEW q \in discover, NEW f \in IndexFiles,
             r < root \/ (r = root /\ q \notin refresh.todo /\ <<q, f>> \notin copy)
      PROVE  Current(r, q, f)'
  <2>1. CASE r = root /\ q = file[1] /\ f = file[2]
    <3>1. index'[r][q][f] = Built(q)[f]
      BY <1>4, <2>1, DiscoverIsIndexed
    <3> QED
      BY <3>1 DEF Current, Built
  <2>2. CASE ~(r = root /\ q = file[1] /\ f = file[2])
    <3>1. Passed(r, q, f)
      BY <1>3, <1>6, <2>2 DEF Passed
    <3>2. Current(r, q, f)
      BY <1>2, <3>1 DEF RefreshInv, RecentMerged
    <3>3. index'[r][q][f] = index[r][q][f]
      BY <1>4, <2>2, DiscoverIsIndexed
    <3> QED
      BY <1>2, <3>2, <3>3 DEF Current, Built
  <2> QED
    BY <2>1, <2>2
<1> HIDE DEF copy
<1>7. copy \subseteq discover \X IndexFiles
  BY DEF RefreshInv, IndexTyped, copy
<1>8. refresh' = AfterCopy(copy) /\ root \in Nat /\ refresh.todo \subseteq discover
  BY <1>1 DEF copy, RefreshInv, IndexTyped
<1>9. CASE copy # {}
  <2>1. refresh' = [at |-> "copying", todo |-> refresh.todo, root |-> root, copy |-> copy]
    BY <1>2, <1>8, <1>9 DEF AfterCopy, RefreshInv, IndexTyped
  <2>2. IndexTyped'
    BY <1>2, <1>3, <1>4, <1>7, <1>8, <2>1 DEF RefreshInv, IndexTyped, discover
  <2>3. RecentMerged'
    BY <1>6, <2>1 DEF RecentMerged, Passed, discover
  <2> QED
    BY <1>5, <2>2, <2>3 DEF RefreshInv
<1>10. CASE copy = {} /\ refresh.todo # {}
  <2>1. refresh' = [at |-> "merging", todo |-> refresh.todo, root |-> root, copy |-> {}]
    BY <1>8, <1>10 DEF AfterCopy, RefreshInv, IndexTyped
  <2>2. IndexTyped'
    BY <1>2, <1>3, <1>4, <1>8, <2>1 DEF RefreshInv, IndexTyped, discover
  <2>3. RecentMerged'
    BY <1>6, <1>10, <2>1 DEF RecentMerged, Passed, discover
  <2> QED
    BY <1>5, <2>2, <2>3 DEF RefreshInv
<1>11. CASE copy = {} /\ refresh.todo = {} /\ root < Len(Roots)
  <2>1. refresh' = [at |-> "merging", todo |-> discover, root |-> root + 1, copy |-> {}]
    BY <1>8, <1>11 DEF AfterCopy, RefreshInv, IndexTyped
  <2>2. IndexTyped'
    BY <1>2, <1>3, <1>4, <1>8, <1>11, <2>1, IndexAssumption DEF RefreshInv, IndexTyped, discover
  <2>3. ASSUME NEW r \in 1..Len(Roots), NEW q \in discover, NEW f \in IndexFiles, Passed(r, q, f)'
        PROVE  Current(r, q, f)'
    <3>1. r < root + 1
      BY <2>1, <2>3 DEF Passed
    <3>2. r < root \/ r = root
      BY <3>1, <1>8
    <3> QED
      BY <1>6, <1>11, <3>2
  <2>4. RecentMerged'
    BY <2>1, <2>3 DEF RecentMerged, discover
  <2> QED
    BY <1>5, <2>2, <2>4 DEF RefreshInv
<1>12. CASE copy = {} /\ refresh.todo = {} /\ ~(root < Len(Roots))
  <2>1. refresh' = [at |-> "done", todo |-> {}, root |-> 1, copy |-> {}]
    BY <1>8, <1>12 DEF AfterCopy, Resting
  <2>2. \A r \in 1..Len(Roots) : r < root \/ r = root
    BY <1>3, <1>12, IndexAssumption
  <2>3. IndexTyped'
    BY <1>2, <1>3, <1>4, <2>1 DEF RefreshInv, IndexTyped, discover
  <2>4. \A r \in 1..Len(Roots), q \in discover, f \in IndexFiles : Current(r, q, f)'
    BY <1>6, <1>12, <2>2
  <2>5. RecentMerged'
    BY <2>4 DEF RecentMerged, discover
  <2> QED
    BY <1>5, <2>3, <2>5 DEF RefreshInv
<1> QED
  BY <1>9, <1>10, <1>11, <1>12

LEMMA RefreshStays == ASSUME RefreshInv, UNCHANGED refreshVars PROVE RefreshInv'
BY DEF RefreshInv, refreshVars, IndexTyped, FormerKept, RecentMerged, Passed, Current, discover, Built

LEMMA RefreshIsCurrent == ASSUME RefreshInv PROVE IndexIsCurrent
<1>1. ASSUME NEW r \in 1..Len(Roots), NEW p \in IndexPartitions, NEW f \in IndexFiles
      PROVE  /\ p \notin discover => index[r][p][f] = Filed(Known, p)[f]
             /\ (refresh.at = "done" /\ p \in discover) => Current(r, p, f)
  BY DEF RefreshInv, FormerKept, RecentMerged
<1> QED
  BY <1>1 DEF Current, IndexIsCurrent

-----------------------------------------------------------------------------
(* The rewriting of a file of the index.                                   *)

\* With the size of row_group_size_for a file of any number of rows has at most two groups.
THEOREM RewrittenInTwoGroups ==
  ASSUME NEW rows \in Nat \ {0}
  PROVE  Groups(rows, row_group_size_for(rows)) \in 1..2
<1> DEFINE half == CeilDiv(rows, 2)
           count == CeilDiv(half, VectorSize)
           size == VectorSize * count
<1>1. VectorSize \in Nat \ {0}
  BY IndexAssumption
<1>2. half \in Nat \ {0} /\ 2 * half >= rows
  BY DEF CeilDiv
<1> HIDE DEF half
<1>3. ASSUME NEW a \in Nat \ {0}, NEW b \in Nat \ {0}
      PROVE  /\ (a + b - 1) \div b \in Nat \ {0}
             /\ b * ((a + b - 1) \div b) >= a
  <2> DEFINE q == (a + b - 1) \div b
  <2>1. q \in Int /\ a + b - 1 = b * q + ((a + b - 1) % b) /\ (a + b - 1) % b \in 0..(b - 1)
    OBVIOUS
  <2> HIDE DEF q
  <2>2. b * q \in Int /\ b * q >= a
    BY <2>1
  <2>3. q > 0
    <3>1. ASSUME q <= 0 PROVE FALSE
      <4>1. b * q <= 0
        BY <3>1, <2>1
      <4> QED
        BY <4>1, <2>2
    <3> QED
      BY <3>1, <2>1
  <2> QED
    BY <2>1, <2>2, <2>3 DEF q
<1>4. count \in Nat \ {0} /\ size >= half
  BY <1>1, <1>2, <1>3 DEF CeilDiv
<1> HIDE DEF count
<1>5. size \in Nat \ {0}
  <2>1. size \in Nat
    BY <1>1, <1>4
  <2> HIDE DEF size
  <2> QED
    BY <2>1, <1>2, <1>4
<1>6. 2 * size >= rows
  <2> HIDE DEF size
  <2> QED
    BY <1>2, <1>4, <1>5
<1> HIDE DEF size
<1> DEFINE full == rows \div size
           rest == rows % size
<1>7. full \in Nat /\ rest \in 0..(size - 1) /\ rows = size * full + rest
  BY <1>5
<1> HIDE DEF full, rest
<1>8. full <= 2 /\ (full = 2 => rest = 0)
  <2>1. full >= 3 => size * full >= size * 3
    BY <1>5, <1>7
  <2>2. full = 2 => rows = 2 * size + rest
    BY <1>5, <1>7
  <2>3. size * full \in Nat
    BY <1>5, <1>7
  <2>4. ~(full >= 3)
    BY <2>1, <2>3, <1>5, <1>6, <1>7
  <2> QED
    BY <2>2, <2>4, <1>5, <1>6, <1>7
<1>9. row_group_size_for(rows) = size
  BY DEF row_group_size_for, size, count, half
<1>10. Groups(rows, size) = IF full = 0 THEN 1 ELSE IF rest < VectorSize THEN full ELSE full + 1
  BY DEF Groups, full, rest
<1> QED
  BY <1>1, <1>5, <1>7, <1>8, <1>9, <1>10

Contents == UNION {ToSet(o.rows) : o \in Published}

\* A file of the index, or a part of one: of rows that were published together.
IsFile(x) ==
  /\ x = [rows |-> x.rows, groups |-> x.groups]
  /\ x.groups \in 1..3
  /\ x.rows \in Seq(Contents)
  /\ \E o \in Published : ToSet(x.rows) \subseteq ToSet(o.rows)

RewriteInv ==
  /\ IsFile(object) /\ object.rows # <<>>
  /\ rewrite = [at |-> rewrite.at, before |-> rewrite.before]
  /\ rewrite.at \in {"idle", "staged", "verified", "copied", "done"}
  /\ rewrite.at \in {"staged", "verified"} => IsFile(staged)
  /\ rewrite.at = "staged" => IsFile(rewrite.before) /\ rewrite.before.rows # <<>>
  /\ rewrite.at = "verified" =>
       /\ staged.rows # <<>> /\ staged.groups <= 2
       /\ republished \/ staged.rows = object.rows

LEMMA PublishedIsFile == ASSUME NEW o \in Published PROVE IsFile(o) /\ o.rows # <<>>
<1>1. o = [rows |-> o.rows, groups |-> o.groups] /\ o.groups \in 1..3
  BY IndexAssumption
<1>2. o.rows \in Seq(ToSet(o.rows)) /\ o.rows # <<>>
  BY IndexAssumption
<1>3. ToSet(o.rows) \subseteq Contents
  BY DEF Contents
<1>4. o.rows \in Seq(Contents)
  <2>1. ASSUME NEW S, NEW T, S \subseteq T, NEW q \in Seq(S) PROVE q \in Seq(T)
    BY <2>1
  <2> QED
    BY <1>2, <1>3, <2>1
<1> QED
  BY <1>1, <1>2, <1>4 DEF IsFile

\* What is staged is made of the rows of the file.
LEMMA RewrittenIsFile ==
  ASSUME NEW o, IsFile(o), o.rows # <<>>, NEW x \in Rewritten(o)
  PROVE  IsFile(x)
<1>1. PICK rows \in {o.rows, Reverse(o.rows), SubSeq(o.rows, 1, Len(o.rows) - 1)},
           g \in {3, Groups(Len(o.rows), row_group_size_for(Len(o.rows)))} :
        x = [rows |-> rows, groups |-> g]
  BY DEF Rewritten
<1>2. o.rows \in Seq(Contents) /\ Len(o.rows) \in Nat \ {0}
  BY DEF IsFile
<1>3. g \in 1..3
  BY <1>2, RewrittenInTwoGroups
<1>4. rows \in Seq(Contents) /\ ToSet(rows) \subseteq ToSet(o.rows)
  <2>1. CASE rows = o.rows
    BY <2>1, <1>2
  <2>2. CASE rows = Reverse(o.rows)
    <3>1. rows = [i \in 1..Len(o.rows) |-> o.rows[(Len(o.rows) - i) + 1]]
      BY <2>2 DEF Reverse
    <3>2. \A i \in 1..Len(o.rows) : o.rows[(Len(o.rows) - i) + 1] \in Contents
      BY <1>2
    <3> QED
      BY <3>1, <3>2, <1>2 DEF ToSet
  <2>3. CASE rows = SubSeq(o.rows, 1, Len(o.rows) - 1)
    BY <2>3, <1>2 DEF ToSet
  <2> QED
    BY <2>1, <2>2, <2>3
<1>5. PICK p \in Published : ToSet(o.rows) \subseteq ToSet(p.rows)
  BY DEF IsFile
<1>6. ToSet(rows) \subseteq ToSet(p.rows)
  BY <1>4, <1>5
<1> QED
  BY <1>1, <1>3, <1>4, <1>6 DEF IsFile

LEMMA RewriteInit == ASSUME IndexInit PROVE RewriteInv
BY PublishedIsFile DEF IndexInit, RewriteInv

LEMMA RewriteKeeps == ASSUME RewriteInv, RewriteNext PROVE RewriteInv'
<1>1. CASE Stage
  <2>1. rewrite' = [at |-> "staged", before |-> object] /\ UNCHANGED <<object, republished>>
    BY <1>1 DEF Stage
  <2>2. IsFile(staged')
    BY <1>1, RewrittenIsFile DEF Stage, RewriteInv
  <2> QED
    BY <2>1, <2>2 DEF RewriteInv, IsFile
<1>2. CASE Verify
  <2>1. UNCHANGED <<object, staged>>
    BY <1>2 DEF Verify
  <2>2. rewrite' = [at |-> IF Agrees(rewrite.before) THEN "verified" ELSE "done", before |-> rewrite.before]
    BY <1>2 DEF Verify, RewriteInv
  <2>3. Agrees(rewrite.before) => staged.rows # <<>> /\ staged.groups <= 2 /\ staged.rows = object.rows
    BY DEF Agrees, RewriteInv
  <2>4. IsFile(staged)
    BY <1>2 DEF Verify, RewriteInv
  <2> QED
    BY <2>1, <2>2, <2>3, <2>4 DEF RewriteInv, IsFile
<1>3. CASE CopyOver
  <2>1. UNCHANGED <<staged, republished>> /\ object' = staged
    BY <1>3 DEF CopyOver
  <2>2. rewrite' = [at |-> "copied", before |-> rewrite.before]
    BY <1>3 DEF CopyOver, RewriteInv
  <2>3. IsFile(staged) /\ staged.rows # <<>>
    BY <1>3 DEF CopyOver, RewriteInv
  <2> QED
    BY <2>1, <2>2, <2>3 DEF RewriteInv, IsFile
<1>4. CASE DeleteStaged
  BY <1>4 DEF DeleteStaged, RewriteInv, IsFile
<1>5. CASE RewriteCrashes
  BY <1>5 DEF RewriteCrashes, RewriteInv, IsFile
<1>6. CASE Republish
  <2>1. IsFile(object') /\ object'.rows # <<>>
    BY <1>6, PublishedIsFile DEF Republish
  <2>2. UNCHANGED <<staged, rewrite>> /\ republished' = TRUE
    BY <1>6 DEF Republish
  <2> QED
    BY <2>1, <2>2 DEF RewriteInv, IsFile
<1> QED
  BY <1>1, <1>2, <1>3, <1>4, <1>5, <1>6 DEF RewriteNext

LEMMA RewriteStays == ASSUME RewriteInv, UNCHANGED rewriteVars PROVE RewriteInv'
BY DEF RewriteInv, rewriteVars, IsFile

\* The only step from a verified file to a copied one copies it.
LEMMA CopiesWhatAgrees ==
  ASSUME RewriteInv, LakeNext, rewrite.at = "verified", rewrite'.at = "copied", ~republished
  PROVE  object'.rows = object.rows /\ object'.groups <= 2
<1>1. ~UNCHANGED rewrite
  OBVIOUS
<1>2. RewriteNext
  BY <1>1 DEF LakeNext, lakeVars, indexVars, rewriteVars, RefreshNext, RefreshStarts, RemovePartition, CopyFile, RefreshCrashes
<1>3. CopyOver
  BY <1>1, <1>2 DEF RewriteNext, Stage, Verify, DeleteStaged, RewriteCrashes, Republish, RewriteInv
<1> QED
  BY <1>3 DEF CopyOver, RewriteInv

-----------------------------------------------------------------------------
(* Discovery.                                                              *)

Registered == {"naip", "kyfromabove", "nj-imagery", "in-imagery"}

\* A row is of its object, its year a number.
RowOf(r, k) == r = Row(k, r.region, r.year) /\ r.year \in Int

\* What discovery may come up with for a request, and does when there is no cap.
Offered(a) ==
  {r \in Discoverable(a) : /\ r.object.cog
                           /\ r.region \in TargetRegions(a)
                           /\ a.years = {} \/ r.year \in a.years}

LEMMA AdhocYearTyped ==
  ASSUME NEW a \in Requests
  PROVE  AdhocYear(a) \in Int /\ (a.years = {} \/ AdhocYear(a) \in a.years)
<1>1. a.years \subseteq Int
  BY LakeAssumption
<1>2. CASE a.years = {}
  BY <1>2 DEF AdhocYear
<1>3. CASE a.years # {}
  BY <1>1, <1>3 DEF AdhocYear
<1> QED
  BY <1>2, <1>3

LEMMA ParsedRow ==
  ASSUME NEW a \in Requests, NEW k \in Objects, NEW r \in Parsed(a, k)
  PROVE  RowOf(r, k) /\ r.object = k
<1>1. {k.folder, k.name} \subseteq Int \cup {None}
  BY BucketAssumption DEF Objects
<1>2. CASE a.collection = "naip"
  BY <1>1, <1>2 DEF Parsed, naip_key_parser, Row, RowOf
<1>3. CASE a.collection = "kyfromabove"
  BY <1>1, <1>3 DEF Parsed, ky_key_parser, Row, RowOf
<1>4. CASE a.collection = "nj-imagery"
  BY <1>1, <1>4 DEF Parsed, nj_key_parser, Row, RowOf
<1>5. CASE a.collection = "in-imagery"
  BY <1>1, <1>5 DEF Parsed, in_key_parser, Row, RowOf
<1>6. CASE a.collection \notin Registered
  BY <1>6, AdhocYearTyped DEF Parsed, register_adhoc_collection, Row, RowOf, Registered
<1> QED
  BY <1>2, <1>3, <1>4, <1>5, <1>6 DEF Registered

\* A listing is of the bucket of the collection.
LEMMA ListedInBucket ==
  ASSUME NEW a \in Requests, NEW k, NEW region, NEW year, Listed(a, k, region, year)
  PROVE  k.bucket = a.bucket
BY LakeAssumption DEF Listed, naip_enumerate_prefixes, ky_enumerate_prefixes, nj_enumerate_prefixes, in_enumerate_prefixes

\* What is listed for a region and a year is parsed to rows of that region and year.
LEMMA ListedAsAsked ==
  ASSUME NEW a \in Requests, NEW k \in Objects, NEW r \in Parsed(a, k),
         NEW region \in TargetRegions(a), NEW year,
         Listed(a, k, region, year), (year = None /\ a.years = {}) \/ year \in a.years
  PROVE  r.region \in TargetRegions(a) /\ (a.years = {} \/ r.year \in a.years)
<1>1. None \notin Int /\ a.years \subseteq Int
  BY BucketAssumption, LakeAssumption
<1>2. CASE a.collection = "naip"
  BY <1>1, <1>2 DEF Parsed, naip_key_parser, Row, Listed, naip_enumerate_prefixes, TargetRegions
<1>3. CASE a.collection = "kyfromabove"
  <2>1. k.bucket = "kyfromabove" /\ k.name # None => k.folder = k.name
    BY BucketAssumption DEF Objects
  <2> QED
    BY <1>1, <1>3, <2>1 DEF Parsed, ky_key_parser, Row, Listed, ky_enumerate_prefixes, TargetRegions
<1>4. CASE a.collection = "nj-imagery"
  BY <1>1, <1>4 DEF Parsed, nj_key_parser, Row, Listed, nj_enumerate_prefixes, TargetRegions
<1>5. CASE a.collection = "in-imagery"
  BY <1>1, <1>5 DEF Parsed, in_key_parser, Row, Listed, in_enumerate_prefixes, TargetRegions
<1>6. CASE a.collection \notin Registered
  BY <1>6, AdhocYearTyped DEF Parsed, register_adhoc_collection, Row, Registered, TargetRegions
<1> QED
  BY <1>2, <1>3, <1>4, <1>5, <1>6 DEF Registered

\* Every image of the bucket is listed for the region and the year of its row, and for
\* its region without a year.
LEMMA ListedForItsYear ==
  ASSUME NEW a \in Requests, NEW k \in Objects, NEW r \in Parsed(a, k), k.cog, k.bucket = a.bucket,
         NEW year \in {None, r.year}
  PROVE  Listed(a, k, r.region, year)
<1>1. None \notin Int /\ {k.folder, k.name} \subseteq Int \cup {None}
  BY BucketAssumption DEF Objects
<1>2. CASE a.collection = "naip"
  BY <1>1, <1>2, LakeAssumption DEF Parsed, naip_key_parser, Row, Listed, naip_enumerate_prefixes
<1>3. CASE a.collection = "kyfromabove"
  <2>1. k.bucket = "kyfromabove" /\ k.name # None => k.folder = k.name
    BY BucketAssumption DEF Objects
  <2>2. a.bucket = "kyfromabove"
    BY <1>3, LakeAssumption
  <2> QED
    BY <1>1, <1>3, <2>1, <2>2 DEF Parsed, ky_key_parser, Row, Listed, ky_enumerate_prefixes
<1>4. CASE a.collection = "nj-imagery"
  BY <1>1, <1>4, LakeAssumption DEF Parsed, nj_key_parser, Row, Listed, nj_enumerate_prefixes
<1>5. CASE a.collection = "in-imagery"
  BY <1>1, <1>5, LakeAssumption DEF Parsed, in_key_parser, Row, Listed, in_enumerate_prefixes
<1>6. CASE a.collection \notin Registered
  BY <1>6 DEF Listed, Registered
<1> QED
  BY <1>2, <1>3, <1>4, <1>5, <1>6 DEF Registered

LEMMA KeptIsOffered ==
  ASSUME NEW a \in Requests, NEW region \in TargetRegions(a),
         NEW year \in IF a.years = {} THEN {None} ELSE a.years, NEW r \in Kept(a, region, year)
  PROVE  r \in Offered(a)
<1>1. PICK i \in DOMAIN Bucket : Bucket[i].cog /\ Listed(a, Bucket[i], region, year) /\ r \in Parsed(a, Bucket[i])
  BY DEF Kept
<1> DEFINE k == Bucket[i]
<1>2. k \in Objects /\ k.cog /\ Listed(a, k, region, year) /\ r \in Parsed(a, k)
  BY <1>1 DEF Objects
<1> HIDE DEF k
<1>3. k.bucket = a.bucket /\ r.object = k
  BY <1>2, ListedInBucket, ParsedRow
<1>4. r \in Discoverable(a)
  BY <1>2, <1>3 DEF Discoverable
<1>5. (year = None /\ a.years = {}) \/ year \in a.years
  OBVIOUS
<1>6. r.region \in TargetRegions(a) /\ (a.years = {} \/ r.year \in a.years)
  BY <1>2, <1>5, ListedAsAsked
<1> QED
  BY <1>2, <1>3, <1>4, <1>6 DEF Offered

LEMMA DiscoveredIsOffered == ASSUME NEW a \in Requests PROVE Discovered(a) \subseteq Offered(a)
BY KeptIsOffered DEF Discovered

LEMMA OfferedIsDiscovered ==
  ASSUME NEW a \in Requests, a.cap = 0
  PROVE  Offered(a) \subseteq Discovered(a)
<1>1. SUFFICES ASSUME NEW r \in Offered(a) PROVE r \in Discovered(a)
  OBVIOUS
<1>2. PICK k \in Objects : k.bucket = a.bucket /\ r \in Parsed(a, k)
  BY DEF Offered, Discoverable
<1>3. r.object = k /\ k.cog
  BY <1>2, ParsedRow DEF Offered
<1> DEFINE year == IF a.years = {} THEN None ELSE r.year
<1>4. Listed(a, k, r.region, year)
  BY <1>2, <1>3, ListedForItsYear
<1>5. r \in Kept(a, r.region, year)
  <2> HIDE DEF year
  <2>1. PICK i \in DOMAIN Bucket : Bucket[i] = k
    BY DEF Objects
  <2> QED
    BY <1>2, <1>3, <1>4, <2>1 DEF Kept
<1>6. r.region \in TargetRegions(a) /\ year \in IF a.years = {} THEN {None} ELSE a.years
  BY DEF Offered
<1> HIDE DEF year
<1> QED
  BY <1>5, <1>6 DEF Discovered

LEMMA OfferedRow ==
  ASSUME NEW a \in Requests, NEW r \in Offered(a)
  PROVE  /\ r.object \in Objects /\ r \in Parsed(a, r.object) /\ RowOf(r, r.object)
         /\ r.object.cog /\ r.object.bucket = a.bucket
         /\ r.region \in a.regions
<1>1. PICK k \in Objects : k.bucket = a.bucket /\ r \in Parsed(a, k)
  BY DEF Offered, Discoverable
<1>2. RowOf(r, k) /\ r.object = k
  BY <1>1, ParsedRow
<1>3. r.region \in a.regions
  BY DEF Offered, TargetRegions
<1> QED
  BY <1>1, <1>2, <1>3 DEF Offered

\* The years that a request may write are those of its discovery.
LEMMA DiscoveredYear ==
  ASSUME NEW a \in Requests, NEW r \in enumerate(a)
  PROVE  r \in Offered(a) /\ r.year \in YearsWanted(a, r.region)
<1> DEFINE offered(region) == IF a.years = {} THEN YearsOf(a, region) ELSE YearsOf(a, region) \cap a.years
<1>1. r \in Discovered(a) /\ (a.latest => r.year = LatestOf(Discovered(a), r.region))
  BY DEF enumerate
<1>2. r \in Offered(a)
  BY <1>1, DiscoveredIsOffered
<1>3. ASSUME NEW s \in Offered(a) PROVE s.year \in offered(s.region)
  <2>1. s.object \in Objects /\ s \in Parsed(a, s.object) /\ s.object.cog /\ s.object.bucket = a.bucket
    BY OfferedRow
  <2>2. s.year \in YearsOf(a, s.region)
    BY <2>1 DEF YearsOf
  <2> QED
    BY <2>2 DEF Offered
<1>4. CASE ~(a.latest /\ a.cap = 0)
  <2>1. YearsWanted(a, r.region) = offered(r.region)
    BY <1>4 DEF YearsWanted
  <2> QED
    BY <1>2, <1>3, <2>1
<1>5. CASE a.latest /\ a.cap = 0
  <2> DEFINE found == {s.year : s \in {s \in Discovered(a) : s.region = r.region}}
  <2>1. found \subseteq offered(r.region)
    BY <1>3, DiscoveredIsOffered
  <2>2. ASSUME NEW y \in offered(r.region) PROVE y \in found
    <3>0. PICK k \in Objects : k.cog /\ k.bucket = a.bucket /\ \E s \in Parsed(a, k) : s.region = r.region /\ s.year = y
      BY DEF YearsOf
    <3>1. PICK s \in Parsed(a, k) : k.cog /\ k.bucket = a.bucket /\ s.region = r.region /\ s.year = y
      BY <3>0
    <3>2. s.object = k
      BY <3>1, ParsedRow
    <3>3. s \in Offered(a)
      BY <1>2, <3>1, <3>2 DEF Offered, Discoverable
    <3>4. s \in Discovered(a)
      BY <1>5, <3>3, OfferedIsDiscovered
    <3> QED
      BY <3>1, <3>4
  <2>3. found = offered(r.region)
    BY <2>1, <2>2
  <2>4. r.year = Max(found)
    BY <1>1, <1>5 DEF LatestOf
  <2> HIDE DEF found
  <2>5. YearsWanted(a, r.region) = {Max(offered(r.region))}
    BY <1>5 DEF YearsWanted
  <2>6. r.year \in YearsWanted(a, r.region)
    BY <2>3, <2>4, <2>5
  <2> QED
    BY <1>2, <2>6
<1> QED
  BY <1>4, <1>5

-----------------------------------------------------------------------------
(* Acquisition.                                                            *)

\* What the payloads of a run that was asked for a can rely on.
Fits(a, got) ==
  /\ got \subseteq Rows /\ PartitionsOf(a.collection, got) \subseteq Partitions
  /\ \A r \in got : /\ r.region \in a.regions
                    /\ YearsTold(a) => r.year \in YearsWanted(a, r.region)
  /\ a.strict => reconcile_completeness(Discovery[a], got)

LEMMA DiscoveryOf == ASSUME NEW a \in Requests PROVE Discovery[a] = enumerate(a) /\ Matches[a] = Joined(a, enumerate(a))
BY DEF Discovery, Matches

LEMMA DiscoverableIsRow ==
  ASSUME NEW a \in Requests, NEW r \in Discoverable(a)
  PROVE  r \in Rows /\ Partition(a.collection, r) \in Partitions
BY DEF Rows, Partitions, PartitionsOf

\* An item of EarthSearch dates its row as the request asks, when the request is for one year.
LEMMA JoinedYear ==
  ASSUME NEW a \in Requests, NEW r \in Joined(a, enumerate(a)), YearsTold(a)
  PROVE  Stac[r.object].year = r.year
<1> DEFINE rows == enumerate(a)
           asked == YearAsked(a, rows, r.region)
<1>1. a.collection = "naip" /\ ~a.headers /\ r \in rows /\ r.object \in build_stac_index(a, rows)
  BY DEF Joined
<1>2. r \in Offered(a) /\ a.years \subseteq Int /\ None \notin Int
  BY <1>1, DiscoveredYear, LakeAssumption, BucketAssumption
<1>3. r.object.region = r.region /\ r.year \in Int
  <2>1. r \in Parsed(a, r.object) /\ RowOf(r, r.object)
    BY <1>2, OfferedRow
  <2> QED
    BY <1>1, <2>1 DEF Parsed, naip_key_parser, Row, RowOf
<1>4. Stac[r.object].year = asked \/ asked = None
  <2>1. PICK state \in a.regions : r.object \in earthsearch_items_for_state(state, YearAsked(a, rows, state))
    BY <1>1 DEF build_stac_index
  <2> QED
    BY <1>3, <2>1 DEF earthsearch_items_for_state
<1>5. CASE a.latest
  <2> DEFINE years == {s.year : s \in {s \in rows : s.region = r.region}}
  <2>1. asked = Max(years)
    BY <1>1, <1>5 DEF YearAsked, LatestOf
  <2>2. \A s \in rows : s.year = LatestOf(Discovered(a), s.region)
    BY <1>5 DEF enumerate
  <2>3. years = {r.year}
    BY <1>1, <2>2
  <2>4. Max({r.year}) = r.year
    BY <1>3 DEF Max
  <2> HIDE DEF years, rows, asked
  <2> QED
    BY <1>2, <1>3, <1>4, <2>1, <2>3, <2>4
<1>6. CASE ~a.latest
  <2>1. Cardinality(a.years) = 1
    BY <1>1, <1>6 DEF YearsTold
  <2>2. asked = CHOOSE y \in a.years : TRUE
    BY <1>6, <2>1 DEF YearAsked
  <2>3. PICK y : a.years = {y}
    <3>1. IsFiniteSet(a.years)
      BY LakeAssumption
    <3> QED
      BY <2>1, <3>1, FS_Singleton
  <2>4. r.year = y
    BY <1>2, <2>3 DEF Offered
  <2>5. asked = y
    BY <2>2, <2>3
  <2> QED
    BY <1>2, <1>3, <1>4, <2>4, <2>5
<1> QED
  BY <1>5, <1>6

\* The row of an item is one of EarthSearch, of the region of its object.
LEMMA InsertableRow ==
  ASSUME NEW a \in Requests, NEW r \in Joined(a, enumerate(a))
  PROVE  /\ row_to_insertable(r) \in Dated
         /\ row_to_insertable(r).region = r.region
         /\ row_to_insertable(r).year = Stac[r.object].year
         /\ a.collection = "naip"
<1>1. a.collection = "naip" /\ r \in enumerate(a) /\ r.object \in build_stac_index(a, enumerate(a))
  BY DEF Joined
<1>2. r \in Parsed(a, r.object) /\ RowOf(r, r.object)
  BY <1>1, DiscoveredYear, OfferedRow
<1>3. r.region = r.object.region
  BY <1>1, <1>2 DEF Parsed, naip_key_parser, Row
<1>4. r.object \in DOMAIN Stac
  BY <1>1 DEF build_stac_index, earthsearch_items_for_state
<1>5. row_to_insertable(r) = Row(r.object, r.object.region, Stac[r.object].year)
  BY <1>2, <1>3 DEF row_to_insertable, RowOf, Row
<1>6. row_to_insertable(r) \in Dated
  BY <1>4, <1>5 DEF Dated
<1> QED
  BY <1>1, <1>3, <1>5, <1>6 DEF Row

LEMMA AcquiredFits ==
  ASSUME NEW a \in Requests, NEW read \in SUBSET enumerate(a), NEW got,
         got = read \cup {row_to_insertable(r) : r \in Joined(a, enumerate(a))},
         a.strict => reconcile_completeness(Discovery[a], got)
  PROVE  Fits(a, got)
<1>1. ASSUME NEW r \in enumerate(a)
      PROVE  /\ r \in Rows /\ Partition(a.collection, r) \in Partitions /\ r.region \in a.regions
             /\ r.year \in YearsWanted(a, r.region)
  <2>1. r \in Offered(a) /\ r.year \in YearsWanted(a, r.region)
    BY <1>1, DiscoveredYear
  <2>2. r \in Discoverable(a) /\ r.region \in a.regions
    BY <2>1, OfferedRow DEF Offered
  <2> QED
    BY <2>1, <2>2, DiscoverableIsRow
<1>2. ASSUME NEW q \in Joined(a, enumerate(a)), NEW r, r = row_to_insertable(q)
      PROVE  /\ r \in Rows /\ Partition(a.collection, r) \in Partitions /\ r.region \in a.regions
             /\ YearsTold(a) => r.year \in YearsWanted(a, r.region)
  <2>1. r \in Dated /\ r.region = q.region /\ r.year = Stac[q.object].year /\ a.collection = "naip"
    BY <1>2, InsertableRow
  <2>2. q \in enumerate(a)
    BY DEF Joined
  <2>3. r \in Rows /\ Partition(a.collection, r) \in Partitions
    BY <2>1 DEF Rows, Partitions, PartitionsOf
  <2>4. q.region \in a.regions /\ q.year \in YearsWanted(a, q.region)
    BY <1>1, <2>2
  <2>5. YearsTold(a) => r.year = q.year
    BY <2>1, JoinedYear
  <2> QED
    BY <2>1, <2>3, <2>4, <2>5
<1>3. ASSUME NEW r \in got
      PROVE  /\ r \in Rows /\ Partition(a.collection, r) \in Partitions /\ r.region \in a.regions
             /\ YearsTold(a) => r.year \in YearsWanted(a, r.region)
  <2>1. CASE r \in read
    BY <1>1, <2>1
  <2>2. CASE r \in {row_to_insertable(q) : q \in Joined(a, enumerate(a))}
    BY <1>2, <2>2
  <2> QED
    BY <2>1, <2>2
<1> QED
  BY <1>3 DEF Fits, PartitionsOf

LEMMA ReadOfRows ==
  ASSUME NEW a, NEW rows, NEW read \in HeadersRead(a, rows)
  PROVE  read \subseteq rows
BY DEF HeadersRead, process_manifest_cog_headers, process_cog_headers_generic

-----------------------------------------------------------------------------
(* The files of a partition.                                               *)

LakeTyped(l) == l \in [Partitions -> [FileNames -> SUBSET Rows]]

NoRows(files) == \A f \in FileNames : files[f] = {}

\* When no row is in two files, a reader finds each once.
LEMMA OnceEach ==
  ASSUME NEW files, NEW rows, IsFiniteSet(rows), Held(files) = rows,
         \A f, g \in DOMAIN files : f # g => files[f] \cap files[g] = {}
  PROVE  Exactly(files, rows)
<1> DEFINE at(r) == CHOOSE f \in DOMAIN files : r \in files[f]
           place == [r \in rows |-> <<at(r), r>>]
<1>1. \A r \in rows : at(r) \in DOMAIN files /\ r \in files[at(r)]
  BY DEF Held, Range
<1>2. \A x \in Readings(files) : /\ x = <<x[1], x[2]>> /\ x[1] \in DOMAIN files /\ x[2] \in files[x[1]]
                                 /\ x[2] \in rows
  BY DEF Readings, Held, Range
<1> HIDE DEF at
<1>3. \A r \in rows : <<at(r), r>> \in Readings(files)
  BY <1>1 DEF Readings
<1>4. place \in Injection(rows, Readings(files))
  BY <1>3 DEF Injection, IsInjective
<1>5. \A x \in Readings(files) : x = <<at(x[2]), x[2]>>
  BY <1>1, <1>2
<1>6. place \in Surjection(rows, Readings(files))
  <2>1. \A x \in Readings(files) : x[2] \in rows /\ place[x[2]] = x
    BY <1>2, <1>5
  <2> QED
    BY <1>3, <2>1 DEF Surjection
<1>7. ExistsBijection(rows, Readings(files))
  BY <1>4, <1>6 DEF ExistsBijection, Bijection
<1> QED
  BY <1>7, FS_Bijection DEF Exactly, SumRows

LEMMA RowsAreFinite == ASSUME NEW rows \in SUBSET Rows PROVE IsFiniteSet(rows)
BY LakeAssumption, FS_Subset

\* A copy leaves all its rows in the partition, and nothing else when it was empty.
LEMMA CopiedHolds ==
  ASSUME LakeTyped(lake), NEW p \in Partitions, NEW rows \in SUBSET Rows, NEW files \in Copied(p, rows)
  PROVE  /\ files \in [FileNames -> SUBSET Rows]
         /\ rows \subseteq Held(files)
         /\ NoRows(lake[p]) => Exactly(files, rows)
<1>1. PICK parts \in {<<rows>>} \cup {<<{r}, rows \ {r}>> : r \in {r \in rows : rows # {r}}} :
        files = [f \in FileNames |-> IF \E n \in DOMAIN parts : Files[n] = f
                                      THEN parts[CHOOSE n \in DOMAIN parts : Files[n] = f] ELSE lake[p][f]]
  BY DEF Copied
<1>2. /\ Len(Files) \in Nat /\ Len(Files) >= 2 /\ DOMAIN Files = 1..Len(Files)
      /\ \A m, n \in DOMAIN Files : Files[m] = Files[n] => m = n
      /\ FileNames = {Files[n] : n \in DOMAIN Files}
  BY LakeAssumption DEF FileNames, ToSet
<1>3. lake[p] \in [FileNames -> SUBSET Rows]
  BY DEF LakeTyped
<1>4. /\ DOMAIN parts \subseteq DOMAIN Files
      /\ \A n \in DOMAIN parts : parts[n] \subseteq rows
      /\ \A r \in rows : \E n \in DOMAIN parts : r \in parts[n]
      /\ \A m, n \in DOMAIN parts : m # n => parts[m] \cap parts[n] = {}
  <2>1. CASE parts = <<rows>>
    <3>1. DOMAIN parts = {1} /\ parts[1] = rows
      BY <2>1
    <3> QED
      BY <3>1, <1>2
  <2>2. CASE \E r \in rows : parts = <<{r}, rows \ {r}>>
    <3>1. PICK r \in rows : parts = <<{r}, rows \ {r}>>
      BY <2>2
    <3>2. DOMAIN parts = {1, 2} /\ parts[1] = {r} /\ parts[2] = rows \ {r}
      BY <3>1
    <3> QED
      BY <3>2, <1>2
  <2> QED
    BY <1>1, <2>1, <2>2
<1>5. \A n \in DOMAIN parts : Files[n] \in FileNames /\ files[Files[n]] = parts[n]
  <2> SUFFICES ASSUME NEW n \in DOMAIN parts PROVE Files[n] \in FileNames /\ files[Files[n]] = parts[n]
    OBVIOUS
  <2>1. Files[n] \in FileNames
    BY <1>2, <1>4
  <2>2. n = CHOOSE m \in DOMAIN parts : Files[m] = Files[n]
    BY <1>2, <1>4
  <2>3. \E m \in DOMAIN parts : Files[m] = Files[n]
    OBVIOUS
  <2> QED
    BY <1>1, <2>1, <2>2, <2>3
<1>6. \A f \in FileNames : files[f] = lake[p][f] \/ \E n \in DOMAIN parts : f = Files[n] /\ files[f] = parts[n]
  BY <1>1, <1>5
<1>7. files \in [FileNames -> SUBSET Rows]
  <2>1. DOMAIN files = FileNames /\ files = [f \in FileNames |-> files[f]]
    BY <1>1
  <2>2. \A f \in FileNames : files[f] \in SUBSET Rows
    BY <1>3, <1>4, <1>6
  <2> QED
    BY <2>1, <2>2
<1>8. rows \subseteq Held(files)
  BY <1>4, <1>5, <1>7 DEF Held, Range
<1>9. ASSUME NoRows(lake[p])
      PROVE  Exactly(files, rows)
  <2>1. \A f \in FileNames : files[f] = {} \/ \E n \in DOMAIN parts : f = Files[n] /\ files[f] = parts[n]
    BY <1>6, <1>9 DEF NoRows
  <2>2. Held(files) \subseteq rows
    BY <1>4, <1>7, <2>1 DEF Held, Range
  <2>3. \A f, g \in DOMAIN files : f # g => files[f] \cap files[g] = {}
    BY <1>4, <1>7, <2>1
  <2>4. Held(files) = rows
    BY <1>8, <2>2
  <2> QED
    BY <2>3, <2>4, OnceEach, RowsAreFinite
<1> QED
  BY <1>7, <1>8, <1>9

-----------------------------------------------------------------------------
(* The runs.                                                               *)

Entries ==
  [at : Stages, asked : Requests \cup {Migrating, None}, got : SUBSET Rows, clear : SUBSET Partitions,
   current : Partitions \cup {None}, keys : SUBSET FileNames, write : SUBSET Partitions,
   disturbed : SUBSET Partitions]

Busy(x) == x.at \in {"clearing", "deleting", "copying", "verifying"}
Targets(x) == PartitionsOf(x.asked.collection, x.got)

\* A run at work writes what it acquired, and clears only what it is going to write.
Works(i, x) ==
  /\ i = Migration => x.asked = Migrating /\ x.got = OldLayout /\ x.at \in {"copying", "verifying"}
  /\ i \in Ingests => x.asked \in Requests /\ Fits(x.asked, x.got) /\ x.at # "verifying"
  /\ Targets(x) \subseteq Partitions /\ x.clear \subseteq Targets(x) /\ x.write \subseteq Targets(x)
  /\ x.at = "deleting" => x.current \in Targets(x)
  /\ x.at \in {"clearing", "deleting"} => x.write = Targets(x)
  /\ x.at = "copying" => x.clear = {}
  /\ x.at = "verifying" => x.write = {}

\* How far an ingest is with a partition: it has still to clear it, is about to delete all
\* that is there, has cleared it, or written it. The migration does not clear.
Progress(i, x, p, files) ==
  /\ i \in Ingests =>
       \/ p \in x.clear
       \/ x.at = "deleting" /\ p = x.current /\ \A f \in FileNames \ x.keys : files[f] = {}
       \/ p \in x.write /\ NoRows(files)
       \/ p \notin x.write /\ Exactly(files, Of(x.asked.collection, x.got, p))
  /\ i = Migration => p \in x.write \/ Of(x.asked.collection, x.got, p) \subseteq Held(files)

Sound(i, x, l) ==
  /\ x \in Entries
  /\ Busy(x) => Works(i, x) /\ \A p \in Targets(x) \ x.disturbed : Progress(i, x, p, l[p])

ProgramTyped == program = [i \in Runs |-> program[i]]
LakeInv == LakeTyped(lake) /\ ProgramTyped /\ \A i \in Runs : Sound(i, program[i], lake)

LEMMA SoundRun == ASSUME LakeInv, NEW i \in Runs PROVE Sound(i, program[i], lake)
BY DEF LakeInv

LEMMA AtRest ==
  ASSUME NEW i, NEW l, NEW how \in {"idle", "done", "failed"}
  PROVE  Sound(i, [Idle EXCEPT !.at = how], l)
<1> DEFINE x == [Idle EXCEPT !.at = how]
<1>1. x = [at |-> how, asked |-> None, got |-> {}, clear |-> {}, current |-> None, keys |-> {},
           write |-> {}, disturbed |-> {}]
  BY DEF Idle
<1> HIDE DEF x
<1>2. x \in Entries /\ ~Busy(x)
  BY <1>1 DEF Entries, Stages, Busy
<1> QED
  BY <1>2 DEF Sound, x

\* The programs begin.
LEMMA ProgramsBegin == ASSUME ProgramsInit PROVE LakeInv
<1>1. LakeTyped(lake)
  BY DEF ProgramsInit, LakeTyped
<1>2. ProgramTyped /\ \A i \in Runs : program[i] = Idle
  BY DEF ProgramsInit, ProgramTyped
<1>3. Idle = [Idle EXCEPT !.at = "idle"]
  BY DEF Idle
<1>4. \A i \in Runs : Sound(i, program[i], lake)
  BY <1>2, <1>3, AtRest
<1> QED
  BY <1>1, <1>2, <1>4 DEF LakeInv

\* A step that changes one run and leaves the lake alone.
LEMMA OnlyRun ==
  ASSUME LakeInv, NEW i \in Runs, NEW x, program' = [program EXCEPT ![i] = x], lake' = lake,
         Sound(i, x, lake)
  PROVE  LakeInv'
<1>1. ProgramTyped' /\ \A j \in Runs : program'[j] = IF j = i THEN x ELSE program[j]
  BY DEF LakeInv, ProgramTyped
<1>2. \A j \in Runs : Sound(j, program'[j], lake)
  BY <1>1 DEF LakeInv
<1>3. LakeTyped(lake') /\ \A j \in Runs : Sound(j, program'[j], lake')
  BY <1>2 DEF LakeInv
<1> QED
  BY <1>1, <1>3 DEF LakeInv

\* Who is at work on a partition that another changes does not answer for it any longer.
LEMMA OthersSound ==
  ASSUME NEW j \in Runs, NEW y, Sound(j, y, lake), LakeTyped(lake), NEW p \in Partitions, NEW files,
         lake' = [lake EXCEPT ![p] = files]
  PROVE  /\ Busy(y) /\ p \in Targets(y) => Sound(j, [y EXCEPT !.disturbed = @ \cup {p}], lake')
         /\ ~(Busy(y) /\ p \in Targets(y)) => Sound(j, y, lake')
<1>1. \A q \in Partitions : q # p => lake'[q] = lake[q]
  BY DEF LakeTyped
<1>2. y \in Entries /\ (Busy(y) => Works(j, y) /\ \A q \in Targets(y) \ y.disturbed : Progress(j, y, q, lake[q]))
  BY DEF Sound
<1>3. Busy(y) => Targets(y) \subseteq Partitions
  BY <1>2 DEF Works
<1>4. ASSUME ~(Busy(y) /\ p \in Targets(y))
      PROVE  Sound(j, y, lake')
  <2>1. ASSUME Busy(y), NEW q \in Targets(y) \ y.disturbed
        PROVE  Progress(j, y, q, lake'[q])
    <3>1. q # p /\ q \in Partitions
      BY <1>3, <1>4, <2>1
    <3> QED
      BY <1>1, <1>2, <2>1, <3>1
  <2> QED
    BY <1>2, <2>1 DEF Sound
<1>5. ASSUME Busy(y), p \in Targets(y)
      PROVE  Sound(j, [y EXCEPT !.disturbed = @ \cup {p}], lake')
  <2> DEFINE z == [y EXCEPT !.disturbed = @ \cup {p}]
  <2>1. z \in Entries
    BY <1>2, <1>5 DEF Entries
  <2>2. /\ z.at = y.at /\ z.asked = y.asked /\ z.got = y.got /\ z.clear = y.clear /\ z.current = y.current
        /\ z.keys = y.keys /\ z.write = y.write /\ z.disturbed = y.disturbed \cup {p}
    BY <1>2 DEF Entries
  <2> HIDE DEF z
  <2>4. Targets(z) = Targets(y)
    BY <2>2 DEF Targets
  <2>5. Works(j, z)
    BY <1>2, <1>5, <2>2, <2>4 DEF Works
  <2>6. ASSUME NEW q \in Targets(z) \ z.disturbed
        PROVE  Progress(j, z, q, lake'[q])
    <3>1. q \in Targets(y) \ y.disturbed /\ q # p /\ q \in Partitions
      BY <1>3, <1>5, <2>2, <2>4
    <3>2. Progress(j, y, q, lake[q]) /\ lake'[q] = lake[q]
      BY <1>1, <1>2, <1>5, <3>1
    <3> QED
      BY <2>2, <3>2 DEF Progress
  <2> QED
    BY <2>1, <2>5, <2>6 DEF Sound, z
<1> QED
  BY <1>4, <1>5

\* A step that changes a partition.
LEMMA ChangeKeeps ==
  ASSUME LakeInv, NEW i \in Runs, NEW p \in Partitions, NEW files \in [FileNames -> SUBSET Rows], NEW next,
         Change(i, p, files, next), Sound(i, next, lake')
  PROVE  LakeInv'
<1>1. lake' = [lake EXCEPT ![p] = files] /\ LakeTyped(lake)
  BY DEF Change, LakeInv
<1>2. LakeTyped(lake')
  BY <1>1 DEF LakeTyped
<1>3. ProgramTyped'
  BY DEF Change, ProgramTyped
<1>4. ASSUME NEW j \in Runs PROVE Sound(j, program'[j], lake')
  <2>1. CASE j = i
    BY <2>1 DEF Change
  <2>2. CASE j # i
    <3>1. program'[j] = IF Busy(program[j]) /\ p \in Targets(program[j])
                          THEN [program[j] EXCEPT !.disturbed = @ \cup {p}] ELSE program[j]
      BY <2>2 DEF Change, AtWork, Writes, Busy, Targets
    <3>2. Sound(j, program[j], lake)
      BY SoundRun
    <3> DEFINE y == program[j]
    <3> HIDE DEF y
    <3>3. /\ Busy(y) /\ p \in Targets(y) => Sound(j, [y EXCEPT !.disturbed = @ \cup {p}], lake')
          /\ ~(Busy(y) /\ p \in Targets(y)) => Sound(j, y, lake')
      BY <1>1, <3>2, OthersSound DEF y
    <3> QED
      BY <3>1, <3>3 DEF y
  <2> QED
    BY <2>1, <2>2
<1> QED
  BY <1>2, <1>3, <1>4 DEF LakeInv

LEMMA RunsApart == Migration \notin Ingests /\ Ingests \subseteq Runs /\ Migration \in Runs
BY LakeAssumption DEF Runs

LEMMA ActiveRun ==
  ASSUME LakeInv, NEW i \in Runs, Busy(program[i])
  PROVE  /\ program[i] \in Entries /\ Works(i, program[i])
         /\ \A p \in Targets(program[i]) \ program[i].disturbed : Progress(i, program[i], p, lake[p])
BY SoundRun DEF Sound

\* What a run is when it begins.
Begun(a, got, at, clear) ==
  [at |-> at, asked |-> a, got |-> got, clear |-> clear, current |-> None, keys |-> {},
   write |-> PartitionsOf(a.collection, got), disturbed |-> {}]

LEMMA IngestStartsKeeps == ASSUME LakeInv, NEW i \in Ingests, IngestStarts(i) PROVE LakeInv'
<1>1. PICK a \in Requests : acquire_payloads(i, a)
  BY DEF IngestStarts
<1>2. lake' = lake /\ i \in Runs /\ i # Migration
  BY RunsApart DEF IngestStarts
<1>3. CASE \E how \in {"done", "failed"} : End(i, how)
  <2>1. PICK how \in {"done", "failed"} : program' = [program EXCEPT ![i] = [Idle EXCEPT !.at = how]]
    BY <1>3 DEF End
  <2>2. Sound(i, [Idle EXCEPT !.at = how], lake)
    BY AtRest
  <2> QED
    BY <1>2, <2>1, <2>2, OnlyRun
<1>4. CASE \E got : Fits(a, got) /\ export(i, a, got)
  <2>1. PICK got : Fits(a, got) /\ export(i, a, got)
    BY <1>4
  <2> DEFINE x == Begun(a, got, "clearing", PartitionsOf(a.collection, got))
  <2>2. program' = [program EXCEPT ![i] = x]
    BY <2>1 DEF export, Begin, Begun
  <2>3. /\ x.at = "clearing" /\ x.asked = a /\ x.got = got /\ x.clear = PartitionsOf(a.collection, got)
        /\ x.current = None /\ x.keys = {} /\ x.write = PartitionsOf(a.collection, got) /\ x.disturbed = {}
    BY DEF Begun
  <2>4. x \in Entries
    BY <2>1 DEF Begun, Entries, Stages, Fits
  <2> HIDE DEF x
  <2>5. Targets(x) = x.clear
    BY <2>3 DEF Targets
  <2>7. Works(i, x)
    BY <1>2, <2>1, <2>3, <2>5 DEF Works, Fits
  <2>8. \A p \in Targets(x) : Progress(i, x, p, lake[p])
    BY <1>2, <2>5 DEF Progress
  <2>9. Sound(i, x, lake)
    BY <2>4, <2>7, <2>8 DEF Sound
  <2> QED
    BY <1>2, <2>2, <2>9, OnlyRun
<1>5. CASE \E read \in HeadersRead(a, Discovery[a] \ Matches[a]) :
             \E got \in {read \cup {row_to_insertable(r) : r \in Matches[a]}} :
               IF a.strict /\ ~reconcile_completeness(Discovery[a], got) THEN End(i, "failed")
               ELSE IF got = {} THEN End(i, "done")
               ELSE export(i, a, got)
  <2>1. PICK read \in HeadersRead(a, Discovery[a] \ Matches[a]) :
             \E got \in {read \cup {row_to_insertable(r) : r \in Matches[a]}} :
               IF a.strict /\ ~reconcile_completeness(Discovery[a], got) THEN End(i, "failed")
               ELSE IF got = {} THEN End(i, "done")
               ELSE export(i, a, got)
    BY <1>5
  <2>2. PICK got \in {read \cup {row_to_insertable(r) : r \in Matches[a]}} :
               IF a.strict /\ ~reconcile_completeness(Discovery[a], got) THEN End(i, "failed")
               ELSE IF got = {} THEN End(i, "done")
               ELSE export(i, a, got)
    BY <2>1
  <2>3. CASE (a.strict /\ ~reconcile_completeness(Discovery[a], got)) \/ got = {}
    BY <1>3, <2>2, <2>3
  <2>4. CASE ~(a.strict /\ ~reconcile_completeness(Discovery[a], got)) /\ got # {}
    <3>1. export(i, a, got)
      BY <2>2, <2>4
    <3>2. read \subseteq enumerate(a)
      BY ReadOfRows, DiscoveryOf
    <3>3. got = read \cup {row_to_insertable(r) : r \in Joined(a, enumerate(a))}
      BY <2>2, DiscoveryOf
    <3>4. a.strict => reconcile_completeness(Discovery[a], got)
      BY <2>4
    <3>5. Fits(a, got)
      BY <3>2, <3>3, <3>4, AcquiredFits
    <3> QED
      BY <1>4, <3>1, <3>5
  <2> QED
    BY <2>3, <2>4
<1> QED
  BY <1>1, <1>3, <1>5 DEF acquire_payloads

MovedTo(y, x, at, clear, current, keys) ==
  /\ y \in Entries
  /\ y.at = at /\ y.asked = x.asked /\ y.got = x.got /\ y.clear = clear /\ y.current = current
  /\ y.keys = keys /\ y.write = x.write /\ y.disturbed = x.disturbed /\ Targets(y) = Targets(x)

LEMMA Moved ==
  ASSUME NEW x \in Entries, NEW at \in Stages, NEW clear \in SUBSET Partitions,
         NEW current \in Partitions \cup {None}, NEW keys \in SUBSET FileNames, NEW y,
         y = [x EXCEPT !.at = at, !.clear = clear, !.current = current, !.keys = keys]
  PROVE  MovedTo(y, x, at, clear, current, keys)
BY DEF Entries, Targets, MovedTo

LEMMA MovedOn ==
  ASSUME NEW x \in Entries, NEW at \in Stages,
         NEW current \in Partitions \cup {None}, NEW keys \in SUBSET FileNames, NEW y,
         y = [x EXCEPT !.at = at, !.current = current, !.keys = keys]
  PROVE  MovedTo(y, x, at, x.clear, current, keys)
BY DEF Entries, Targets, MovedTo

LEMMA ListPartitionKeeps == ASSUME LakeInv, NEW i \in Runs, ListPartition(i) PROVE LakeInv'
<1> DEFINE x == program[i]
<1>1. PICK p \in x.clear :
        program' = [program EXCEPT ![i].at = "deleting", ![i].clear = @ \ {p}, ![i].current = p,
                                   ![i].keys = {f \in FileNames : lake[p][f] # {}}]
  BY DEF ListPartition
<1> DEFINE keys == {f \in FileNames : lake[p][f] # {}}
           y == [x EXCEPT !.at = "deleting", !.clear = x.clear \ {p}, !.current = p, !.keys = keys]
<1>2. lake' = lake /\ x.at = "clearing" /\ Busy(x)
  BY DEF ListPartition, Busy
<1>3. x \in Entries /\ Works(i, x) /\ \A q \in Targets(x) \ x.disturbed : Progress(i, x, q, lake[q])
  BY <1>2, ActiveRun
<1>4. program' = [program EXCEPT ![i] = y]
  BY <1>1, Zenon
<1>5. p \in Partitions /\ p \in Targets(x) /\ i \in Ingests
  BY <1>2, <1>3 DEF Works, Runs
<1>6. /\ y \in Entries
      /\ y.at = "deleting" /\ y.asked = x.asked /\ y.got = x.got /\ y.clear = x.clear \ {p} /\ y.current = p
      /\ y.keys = keys /\ y.write = x.write /\ y.disturbed = x.disturbed /\ Targets(y) = Targets(x)
  <2>1. x.clear \ {p} \in SUBSET Partitions /\ "deleting" \in Stages /\ keys \in SUBSET FileNames
    BY <1>3 DEF Entries, Stages
  <2>2. y = [x EXCEPT !.at = "deleting", !.clear = x.clear \ {p}, !.current = p, !.keys = keys]
    OBVIOUS
  <2> HIDE DEF y, x, keys
  <2>3. MovedTo(y, x, "deleting", x.clear \ {p}, p, keys)
    BY <1>3, <1>5, <2>1, <2>2, Moved
  <2> QED
    BY <2>3 DEF MovedTo
<1> HIDE DEF y
<1>8. Works(i, y)
  BY <1>2, <1>3, <1>5, <1>6 DEF Works
<1>9. ASSUME NEW q \in Targets(y) \ y.disturbed
      PROVE  Progress(i, y, q, lake[q])
  <2>1. i # Migration
    BY <1>5, RunsApart
  <2>2. CASE q = p
    BY <1>6, <2>1, <2>2 DEF Progress
  <2>3. CASE q # p
    <3>1. Progress(i, x, q, lake[q])
      BY <1>3, <1>6, <1>9
    <3> QED
      BY <1>2, <1>6, <2>1, <2>3, <3>1 DEF Progress
  <2> QED
    BY <2>2, <2>3
<1>10. Sound(i, y, lake)
  BY <1>6, <1>8, <1>9 DEF Sound
<1> QED
  BY <1>2, <1>4, <1>10, OnlyRun

LEMMA DeleteListedKeeps == ASSUME LakeInv, NEW i \in Runs, DeleteListed(i) PROVE LakeInv'
<1> DEFINE x == program[i]
           p == x.current
           at == IF x.clear = {} THEN "copying" ELSE "clearing"
           y == [x EXCEPT !.at = at, !.current = None, !.keys = {}]
           files == [f \in FileNames |-> IF f \in x.keys THEN {} ELSE lake[p][f]]
<1>1. x.at = "deleting" /\ Busy(x)
  BY DEF DeleteListed, Busy
<1>2. x \in Entries /\ Works(i, x) /\ \A q \in Targets(x) \ x.disturbed : Progress(i, x, q, lake[q])
  BY <1>1, ActiveRun
<1>3. p \in Partitions /\ p \in Targets(x) /\ i \in Ingests /\ i # Migration
  BY <1>1, <1>2, RunsApart DEF Works, Runs
<1>4. Change(i, p, files, y)
  BY DEF DeleteListed, Remaining
<1>5. lake[p] \in [FileNames -> SUBSET Rows] /\ LakeTyped(lake)
  BY <1>3 DEF LakeInv, LakeTyped
<1>6. files \in [FileNames -> SUBSET Rows] /\ \A f \in FileNames : files[f] = IF f \in x.keys THEN {} ELSE lake[p][f]
  BY <1>5
<1> HIDE DEF files
<1>7. lake'[p] = files /\ \A q \in Partitions : q # p => lake'[q] = lake[q]
  BY <1>3, <1>4, <1>5 DEF Change, LakeTyped
<1>8. /\ y \in Entries
      /\ y.at = at /\ y.asked = x.asked /\ y.got = x.got /\ y.clear = x.clear /\ y.current = None
      /\ y.keys = {} /\ y.write = x.write /\ y.disturbed = x.disturbed /\ Targets(y) = Targets(x)
  <2>1. at \in Stages
    BY DEF Stages
  <2>2. y = [x EXCEPT !.at = at, !.current = None, !.keys = {}]
    OBVIOUS
  <2> HIDE DEF y, x, at
  <2>3. MovedTo(y, x, at, x.clear, None, {})
    BY <1>2, <2>1, <2>2, MovedOn
  <2> QED
    BY <2>3 DEF MovedTo
<1> HIDE DEF y
<1>10. Works(i, y)
  BY <1>1, <1>2, <1>3, <1>8 DEF Works
<1>11. ASSUME NEW q \in Targets(y) \ y.disturbed
       PROVE  Progress(i, y, q, lake'[q])
  <2>1. Progress(i, x, q, lake[q]) /\ q \in Partitions /\ x.write = Targets(x) /\ q \in Targets(x)
    BY <1>1, <1>2, <1>8, <1>11 DEF Works
  <2>2. CASE q = p
    <3>1. q \in x.clear \/ NoRows(files)
      BY <1>3, <1>6, <2>1, <2>2 DEF Progress, NoRows
    <3> QED
      BY <1>3, <1>7, <1>8, <2>1, <2>2, <3>1 DEF Progress
  <2>3. CASE q # p
    BY <1>3, <1>7, <1>8, <2>1, <2>3 DEF Progress
  <2> QED
    BY <2>2, <2>3
<1>12. Sound(i, y, lake')
  BY <1>8, <1>10, <1>11 DEF Sound
<1> QED
  BY <1>3, <1>4, <1>6, <1>12, ChangeKeeps

\* What a run becomes when it has written p.
Further(i, x, p) ==
  IF x.write # {p} THEN [x EXCEPT !.write = @ \ {p}]
  ELSE IF i = Migration THEN [x EXCEPT !.write = {}, !.at = "verifying"]
  ELSE [Idle EXCEPT !.at = "done"]

\* Run i writes the files of partition p.
Writing(i, p, files) ==
  /\ Change(i, p, files, Further(i, program[i], p))
  /\ p \in program[i].write /\ p \in Targets(program[i])
  /\ lake'[p] = files /\ \A q \in Partitions : q # p => lake'[q] = lake[q]
  /\ Of(program[i].asked.collection, program[i].got, p) \subseteq Held(files)
  /\ NoRows(lake[p]) => Exactly(files, Of(program[i].asked.collection, program[i].got, p))

LEMMA CopyWrites ==
  ASSUME LakeInv, NEW i \in Runs, CopyPartition(i)
  PROVE  \E p \in Partitions, files \in [FileNames -> SUBSET Rows] : Writing(i, p, files)
<1>1. PICK p \in program[i].write :
           \E files \in Copied(p, Of(program[i].asked.collection, program[i].got, p)) :
             Change(i, p, files, Further(i, program[i], p))
  BY DEF CopyPartition, Further
<1>2. PICK files \in Copied(p, Of(program[i].asked.collection, program[i].got, p)) :
             Change(i, p, files, Further(i, program[i], p))
  BY <1>1
<1>3. p \in Partitions /\ p \in Targets(program[i])
  <2>1. Busy(program[i])
    BY DEF CopyPartition, Busy
  <2> QED
    BY <2>1, ActiveRun DEF Entries, Works
<1>4. Of(program[i].asked.collection, program[i].got, p) \in SUBSET Rows /\ LakeTyped(lake)
  BY SoundRun DEF Of, Sound, Entries, LakeInv
<1>5. /\ files \in [FileNames -> SUBSET Rows]
      /\ Of(program[i].asked.collection, program[i].got, p) \subseteq Held(files)
      /\ NoRows(lake[p]) => Exactly(files, Of(program[i].asked.collection, program[i].got, p))
  BY <1>3, <1>4, CopiedHolds
<1>6. lake'[p] = files /\ \A q \in Partitions : q # p => lake'[q] = lake[q]
  BY <1>2, <1>3, <1>4, <1>5 DEF Change, LakeTyped
<1> QED
  BY <1>2, <1>3, <1>5, <1>6 DEF Writing

LEMMA CopyPartitionKeeps == ASSUME LakeInv, NEW i \in Runs, CopyPartition(i) PROVE LakeInv'
<1>1. PICK p \in Partitions, files \in [FileNames -> SUBSET Rows] : Writing(i, p, files)
  BY CopyWrites
<1> DEFINE x == program[i]
           y == Further(i, x, p)
<1>2. x.at = "copying" /\ Busy(x)
  BY DEF CopyPartition, Busy
<1>3. x \in Entries /\ Works(i, x) /\ \A q \in Targets(x) \ x.disturbed : Progress(i, x, q, lake[q])
  BY <1>2, ActiveRun
<1>4. p \in x.write /\ x.clear = {} /\ Targets(x) \subseteq Partitions
  BY <1>1, <1>2, <1>3 DEF Writing, Works
<1>5. /\ lake'[p] = files /\ \A q \in Partitions : q # p => lake'[q] = lake[q]
      /\ Of(x.asked.collection, x.got, p) \subseteq Held(files)
      /\ NoRows(lake[p]) => Exactly(files, Of(x.asked.collection, x.got, p))
  BY <1>1 DEF Writing
<1> HIDE DEF x
\* What becomes of the partitions, when those but p keep their place in the writing.
<1>6. ASSUME NEW z, z.asked = x.asked, z.got = x.got, z.disturbed = x.disturbed, z.clear = {},
             z.write = x.write \ {p}, NEW q \in Targets(z) \ z.disturbed
      PROVE  Progress(i, z, q, lake'[q])
  <2>1. q \in Targets(x) \ x.disturbed /\ q \in Partitions
    BY <1>4, <1>6 DEF Targets
  <2>2. Progress(i, x, q, lake[q])
    BY <1>3, <2>1
  <2>3. CASE q = p
    BY <1>2, <1>4, <1>5, <1>6, <2>2, <2>3 DEF Progress
  <2>4. CASE q # p
    BY <1>2, <1>4, <1>5, <1>6, <2>1, <2>2, <2>4 DEF Progress
  <2> QED
    BY <2>3, <2>4
<1>7. CASE x.write # {p}
  <2>1. y = [x EXCEPT !.write = x.write \ {p}]
    BY <1>7 DEF Further
  <2>2. /\ y \in Entries /\ y.asked = x.asked /\ y.got = x.got /\ y.disturbed = x.disturbed
        /\ y.clear = {} /\ y.write = x.write \ {p} /\ y.at = "copying"
    BY <1>2, <1>3, <1>4, <2>1 DEF Entries
  <2> HIDE DEF y
  <2>3. Targets(y) = Targets(x)
    BY <2>2 DEF Targets
  <2>4. Works(i, y)
    BY <1>2, <1>3, <2>2, <2>3 DEF Works
  <2>5. Sound(i, y, lake')
    BY <1>6, <2>2, <2>4 DEF Sound
  <2> QED
    BY <1>1, <2>5, ChangeKeeps DEF Writing, x, y
<1>8. CASE x.write = {p} /\ i = Migration
  <2>1. y = [x EXCEPT !.write = {}, !.at = "verifying"]
    BY <1>8 DEF Further
  <2>2. /\ y \in Entries /\ y.asked = x.asked /\ y.got = x.got /\ y.disturbed = x.disturbed
        /\ y.clear = {} /\ y.write = {} /\ y.at = "verifying"
    BY <1>2, <1>3, <1>4, <2>1 DEF Entries, Stages
  <2> HIDE DEF y
  <2>3. Targets(y) = Targets(x)
    BY <2>2 DEF Targets
  <2>4. Works(i, y)
    BY <1>2, <1>3, <1>8, <2>2, <2>3, RunsApart DEF Works
  <2>5. Sound(i, y, lake')
    BY <1>6, <1>8, <2>2, <2>4 DEF Sound
  <2> QED
    BY <1>1, <2>5, ChangeKeeps DEF Writing, x, y
<1>9. CASE x.write = {p} /\ i # Migration
  <2>1. Sound(i, y, lake')
    BY <1>9, AtRest DEF Further
  <2> QED
    BY <1>1, <2>1, ChangeKeeps DEF Writing, x
<1> QED
  BY <1>7, <1>8, <1>9

LEMMA EndKeeps ==
  ASSUME LakeInv, NEW i \in Runs, NEW how \in {"done", "failed"}, End(i, how), lake' = lake
  PROVE  LakeInv'
BY AtRest, OnlyRun DEF End

LEMMA MigrationStartsKeeps == ASSUME LakeInv, MigrationStarts PROVE LakeInv'
<1> DEFINE x == Begun(Migrating, OldLayout, "copying", {})
<1>1. program' = [program EXCEPT ![Migration] = x] /\ lake' = lake
  BY DEF MigrationStarts, Begin, Begun
<1>2. Migrating.collection = "naip"
  BY DEF Migrating
<1>3. OldLayout \subseteq Rows /\ PartitionsOf("naip", OldLayout) \subseteq Partitions
  BY DEF Rows, Partitions, PartitionsOf
<1>4. /\ x.at = "copying" /\ x.asked = Migrating /\ x.got = OldLayout /\ x.clear = {}
      /\ x.current = None /\ x.keys = {} /\ x.write = PartitionsOf("naip", OldLayout) /\ x.disturbed = {}
  BY <1>2 DEF Begun
<1>5. x \in Entries
  BY <1>2, <1>3 DEF Begun, Entries, Stages
<1> HIDE DEF x
<1>6. Targets(x) = x.write
  BY <1>2, <1>4 DEF Targets
<1>7. Works(Migration, x)
  BY <1>3, <1>4, <1>6, RunsApart DEF Works
<1>8. \A p \in Targets(x) : Progress(Migration, x, p, lake[p])
  BY <1>6, RunsApart DEF Progress
<1>9. Sound(Migration, x, lake)
  BY <1>5, <1>7, <1>8 DEF Sound
<1> QED
  BY <1>1, <1>9, OnlyRun, RunsApart

LEMMA ProgramsKeep == ASSUME LakeInv, ProgramsNext PROVE LakeInv'
<1>1. CASE \E i \in Ingests : IngestStarts(i)
  BY <1>1, IngestStartsKeeps
<1>2. CASE \E i \in Runs : ListPartition(i)
  BY <1>2, ListPartitionKeeps
<1>3. CASE \E i \in Runs : DeleteListed(i)
  BY <1>3, DeleteListedKeeps
<1>4. CASE \E i \in Runs : CopyPartition(i)
  BY <1>4, CopyPartitionKeeps
<1>5. CASE \E i \in Runs : Crash(i)
  BY <1>5, EndKeeps DEF Crash
<1>6. CASE MigrationStarts
  BY <1>6, MigrationStartsKeeps
<1>7. CASE MigrationVerifies
  BY <1>7, EndKeeps, RunsApart DEF MigrationVerifies
<1> QED
  BY <1>1, <1>2, <1>3, <1>4, <1>5, <1>6, <1>7 DEF ProgramsNext

LEMMA ProgramsStay == ASSUME LakeInv, UNCHANGED programVars PROVE LakeInv'
<1>1. lake' = lake /\ program' = program
  BY DEF programVars
<1> QED
  BY <1>1 DEF LakeInv, ProgramTyped

LEMMA ProgramsTyped == ASSUME LakeInv PROVE TypeOK
<1>1. ASSUME NEW i \in Runs PROVE program[i] \in Entries
  BY SoundRun DEF Sound
<1> QED
  BY <1>1 DEF LakeInv, LakeTyped, Entries, TypeOK

-----------------------------------------------------------------------------
(* What the steps of the programs may do.                                  *)

\* Another run's step leaves the stage of a run alone.
LEMMA StageOfOthers ==
  ASSUME LakeInv, NEW i \in Runs, NEW j \in Runs, i # j, NEW p, NEW files, NEW next, Change(j, p, files, next)
  PROVE  program'[i].at = program[i].at
<1>1. program[i] \in Entries
  BY SoundRun DEF Sound
<1>2. program'[i] = program[i] \/ program'[i] = [program[i] EXCEPT !.disturbed = @ \cup {p}]
  BY DEF Change
<1> QED
  BY <1>1, <1>2 DEF Entries

\* An ingest ends by writing its last partition.
LEMMA EndsByWriting == ASSUME LakeInv, ProgramsNext, NEW i \in Ingests, Ends(i) PROVE CopyPartition(i)
<1>1. i \in Runs /\ i # Migration /\ program[i].at = "copying" /\ program'[i].at = "done"
  BY RunsApart DEF Ends
<1>2. ProgramTyped
  BY DEF LakeInv
<1>3. ASSUME NEW j \in Runs, NEW x, program' = [program EXCEPT ![j] = x], j = i => x.at # "done"
      PROVE  FALSE
  BY <1>1, <1>2, <1>3 DEF ProgramTyped
<1>4. ASSUME NEW j \in Ingests, IngestStarts(j)
      PROVE  FALSE
  <2>1. program[j].at = "idle" /\ j \in Runs /\ j # i
    BY <1>1, <1>4, RunsApart DEF IngestStarts
  <2>2. \E x : program' = [program EXCEPT ![j] = x]
    BY <1>4 DEF IngestStarts, acquire_payloads, export, Begin, End
  <2> QED
    BY <1>3, <2>1, <2>2
<1>5. ASSUME NEW j \in Runs, ListPartition(j)
      PROVE  FALSE
  <2>1. program[j].at = "clearing" /\ j # i
    BY <1>1, <1>5 DEF ListPartition
  <2>2. \E x : program' = [program EXCEPT ![j] = x]
    <3>1. PICK p \in program[j].clear :
            program' = [program EXCEPT ![j].at = "deleting", ![j].clear = @ \ {p}, ![j].current = p,
                                       ![j].keys = {f \in FileNames : lake[p][f] # {}}]
      BY <1>5 DEF ListPartition
    <3>2. program' = [program EXCEPT ![j] = [program[j] EXCEPT !.at = "deleting", !.clear = program[j].clear \ {p},
                        !.current = p, !.keys = {f \in FileNames : lake[p][f] # {}}]]
      BY <3>1, Zenon
    <3> QED
      BY <3>2
  <2> QED
    BY <1>3, <2>1, <2>2
<1>6. ASSUME NEW j \in Runs, DeleteListed(j)
      PROVE  FALSE
  <2>1. program[j].at = "deleting" /\ j # i
    BY <1>1, <1>6 DEF DeleteListed
  <2>2. \E p, files, next : Change(j, p, files, next)
    BY <1>6 DEF DeleteListed
  <2> QED
    BY <1>1, <2>1, <2>2, StageOfOthers
<1>7. ASSUME NEW j \in Runs, CopyPartition(j), j # i
      PROVE  FALSE
  <2>1. \E p, files, next : Change(j, p, files, next)
    BY <1>7, CopyWrites DEF Writing
  <2> QED
    BY <1>1, <1>7, <2>1, StageOfOthers
<1>8. ASSUME NEW j \in Runs, Crash(j)
      PROVE  FALSE
  <2>1. program' = [program EXCEPT ![j] = [Idle EXCEPT !.at = "failed"]]
    BY <1>8 DEF Crash, End
  <2>2. [Idle EXCEPT !.at = "failed"].at # "done"
    BY DEF Idle
  <2> QED
    BY <1>3, <2>1, <2>2
<1>9. ASSUME MigrationStarts \/ MigrationVerifies
      PROVE  FALSE
  <2>1. \E x : program' = [program EXCEPT ![Migration] = x]
    BY <1>9 DEF MigrationStarts, MigrationVerifies, Begin, End
  <2> QED
    BY <1>1, <1>3, <2>1, RunsApart
<1> QED
  BY <1>4, <1>5, <1>6, <1>7, <1>8, <1>9 DEF ProgramsNext

\* What an ingest leaves where nobody disturbed it.
LEMMA LeavesItsOwn ==
  ASSUME LakeInv, ProgramsNext, NEW i \in Ingests, Ends(i), NEW p \in Untroubled(i)
  PROVE  Exactly(lake'[p], Of(program[i].asked.collection, program[i].got, p))
<1> DEFINE x == program[i]
<1>1. i \in Runs /\ i # Migration /\ x.at = "copying" /\ Busy(x)
  BY RunsApart DEF Ends, Busy
<1>2. PICK q \in Partitions, files \in [FileNames -> SUBSET Rows] : Writing(i, q, files)
  BY <1>1, EndsByWriting, CopyWrites
<1>3. /\ program'[i] = Further(i, x, q) /\ q \in x.write
      /\ lake'[q] = files /\ \A s \in Partitions : s # q => lake'[s] = lake[s]
      /\ NoRows(lake[q]) => Exactly(files, Of(x.asked.collection, x.got, q))
  BY <1>1, <1>2 DEF Writing, Change
<1>4. x \in Entries /\ Works(i, x) /\ \A s \in Targets(x) \ x.disturbed : Progress(i, x, s, lake[s])
  BY <1>1, ActiveRun
<1>5. x.write = {q}
  <2>1. [x EXCEPT !.write = x.write \ {q}].at = "copying"
    BY <1>1, <1>4 DEF Entries
  <2>2. x.write # {q} => program'[i].at = "copying"
    BY <1>3, <2>1 DEF Further
  <2> QED
    BY <2>2 DEF Ends
<1>6. p \in Targets(x) \ x.disturbed /\ p \in Partitions /\ x.clear = {}
  BY <1>1, <1>4 DEF Untroubled, Targets, Works
<1>7. \/ p = q /\ NoRows(lake[p])
      \/ p # q /\ Exactly(lake[p], Of(x.asked.collection, x.got, p))
  BY <1>1, <1>4, <1>5, <1>6 DEF Progress
<1> QED
  BY <1>3, <1>6, <1>7

LEMMA Replaces ==
  ASSUME LakeInv, [ProgramsNext]_programVars
  PROVE  \A i \in Ingests : Ends(i) =>
           \A p \in Untroubled(i) : Exactly(lake'[p], Of(program[i].asked.collection, program[i].got, p))
<1>1. CASE ProgramsNext
  BY <1>1, LeavesItsOwn
<1>2. CASE UNCHANGED programVars
  BY <1>2 DEF programVars, Ends
<1> QED
  BY <1>1, <1>2

\* The images of a partition that discovery found something of, without a cap, are those
\* of its rows.
LEMMA ImagesOfRows ==
  ASSUME NEW a \in Requests, a.cap = 0, NEW s \in enumerate(a)
  PROVE  Cardinality(Images(a, Partition(a.collection, s))) = CountIn(enumerate(a), s.region, s.year)
<1> DEFINE p == Partition(a.collection, s)
           rows == {r \in enumerate(a) : r.region = s.region /\ r.year = s.year}
           images == Images(a, p)
           imageOf == [r \in rows |-> r.object]
<1>1. s \in Offered(a) /\ rows \subseteq Offered(a)
  BY DiscoveredYear
<1>2. \A r : Partition(a.collection, r) = p <=> (r.region = s.region /\ r.year = s.year)
  BY DEF Partition
<1> HIDE DEF p
<1>3. ASSUME NEW r \in rows PROVE r.object \in images
  <2>1. /\ r.object \in Objects /\ r \in Parsed(a, r.object) /\ r.object.cog
        /\ r.object.bucket = a.bucket
    BY <1>1, OfferedRow
  <2>2. Listed(a, r.object, r.region, r.year)
    BY <2>1, ListedForItsYear
  <2>3. Partition(a.collection, r) = p
    BY <1>2
  <2> QED
    BY <2>1, <2>2, <2>3 DEF Images
<1>4. ASSUME NEW k \in images PROVE \E r \in rows : r.object = k
  <2>1. PICK r \in Parsed(a, k) : Partition(a.collection, r) = p /\ Listed(a, k, r.region, r.year)
    BY DEF Images
  <2>2. k \in Objects /\ k.cog /\ k.bucket = a.bucket
    BY <2>1, ListedInBucket DEF Images
  <2>3. r.object = k
    BY <2>2, ParsedRow
  <2>4. r.region = s.region /\ r.year = s.year
    BY <1>2, <2>1
  <2>5. r \in Offered(a)
    BY <1>1, <2>2, <2>3, <2>4 DEF Offered, Discoverable
  <2>6. r \in Discovered(a)
    BY <2>5, OfferedIsDiscovered
  <2>7. a.latest => r.year = LatestOf(Discovered(a), r.region)
    BY <2>4 DEF enumerate
  <2>8. r \in enumerate(a)
    BY <2>6, <2>7 DEF enumerate
  <2> QED
    BY <2>3, <2>4, <2>8
<1>5. ASSUME NEW r \in rows, NEW q \in rows, r.object = q.object PROVE r = q
  <2>1. RowOf(r, r.object) /\ RowOf(q, q.object)
    BY <1>1, OfferedRow
  <2> QED
    BY <1>5, <2>1 DEF RowOf
<1>6. IsFiniteSet(rows)
  <2>1. rows \subseteq Rows
    BY <1>1 DEF Offered, Rows
  <2> QED
    BY <2>1, RowsAreFinite
<1>7. Cardinality(rows) = CountIn(enumerate(a), s.region, s.year)
  BY DEF CountIn
<1> HIDE DEF rows, images
<1>8. imageOf \in Injection(rows, images) /\ imageOf \in Surjection(rows, images)
  BY <1>3, <1>4, <1>5 DEF Injection, Surjection, IsInjective
<1>9. ExistsBijection(rows, images)
  BY <1>8 DEF ExistsBijection, Bijection
<1>10. Cardinality(images) = Cardinality(rows)
  BY <1>6, <1>9, FS_Bijection
<1> QED
  BY <1>7, <1>10 DEF images, p

LEMMA Completes ==
  ASSUME LakeInv, ProgramsNext, NEW i \in Ingests, Ends(i), program[i].asked.strict, program[i].asked.cap = 0,
         NEW p \in Untroubled(i) \cap PartitionsOf(program[i].asked.collection, Discovery[program[i].asked])
  PROVE  SumRows(lake'[p]) = Cardinality(Images(program[i].asked, p))
<1> DEFINE a == program[i].asked
           got == program[i].got
<1>1. i \in Runs /\ Busy(program[i])
  BY RunsApart DEF Ends, Busy
<1>2. a \in Requests /\ Fits(a, got)
  BY <1>1, ActiveRun DEF Works
<1>3. Discovery[a] = enumerate(a) /\ reconcile_completeness(enumerate(a), got)
  BY <1>2, DiscoveryOf DEF Fits
<1>4. SumRows(lake'[p]) = Cardinality(Of(a.collection, got, p))
  BY LeavesItsOwn DEF Exactly
<1>5. PICK s \in enumerate(a) : p = Partition(a.collection, s)
  BY <1>3 DEF PartitionsOf
<1>6. Of(a.collection, got, p) = {r \in got : r.region = s.region /\ r.year = s.year}
  BY <1>5 DEF Of, Partition
<1>7. Cardinality(Of(a.collection, got, p)) = CountIn(got, s.region, s.year)
  BY <1>6 DEF CountIn
<1>8. CountIn(got, s.region, s.year) = CountIn(enumerate(a), s.region, s.year)
  BY <1>3 DEF reconcile_completeness
<1> HIDE DEF a, got
<1>9. Cardinality(Images(a, p)) = CountIn(enumerate(a), s.region, s.year)
  BY <1>2, <1>5, ImagesOfRows DEF a
<1> QED
  BY <1>4, <1>7, <1>8, <1>9 DEF a

\* A partition is changed by a run at work that has rows of it.
LEMMA ChangedByWriter ==
  ASSUME LakeInv, ProgramsNext, NEW p \in Partitions, lake'[p] # lake[p]
  PROVE  \E i \in Runs : Busy(program[i]) /\ p \in Targets(program[i])
<1>1. PICK i \in Runs : DeleteListed(i) \/ CopyPartition(i)
  BY DEF ProgramsNext, IngestStarts, ListPartition, Crash, MigrationStarts, MigrationVerifies
<1>2. Busy(program[i])
  BY <1>1 DEF DeleteListed, CopyPartition, Busy
<1>3. CASE DeleteListed(i)
  <2>1. \E files, next : Change(i, program[i].current, files, next)
    BY <1>3 DEF DeleteListed
  <2>2. p = program[i].current
    BY <2>1 DEF Change, LakeInv, LakeTyped
  <2>3. p \in Targets(program[i])
    BY <1>2, <1>3, <2>2, ActiveRun DEF Works, DeleteListed
  <2> QED
    BY <1>2, <2>3
<1>4. CASE CopyPartition(i)
  <2>1. PICK q \in Partitions, files \in [FileNames -> SUBSET Rows] : Writing(i, q, files)
    BY <1>4, CopyWrites
  <2>2. p = q
    BY <2>1 DEF Writing
  <2> QED
    BY <1>2, <2>1, <2>2 DEF Writing
<1> QED
  BY <1>1, <1>3, <1>4

LEMMA ChangedAsAsked ==
  ASSUME LakeInv, ProgramsNext, NEW p \in Partitions, lake'[p] # lake[p]
  PROVE  \E i \in Runs :
           /\ AtWork(i) /\ program[i].asked.collection = p.collection
           /\ i \in Ingests =>
                /\ p.region \in program[i].asked.regions
                /\ YearsTold(program[i].asked) => p.year \in YearsWanted(program[i].asked, p.region)
<1>1. PICK i \in Runs : Busy(program[i]) /\ p \in Targets(program[i])
  BY ChangedByWriter
<1> DEFINE a == program[i].asked
<1>2. PICK r \in program[i].got : p = Partition(a.collection, r)
  BY <1>1 DEF Targets, PartitionsOf
<1>3. p.collection = a.collection /\ p.region = r.region /\ p.year = r.year
  BY <1>2 DEF Partition
<1>4. ASSUME i \in Ingests
      PROVE  r.region \in a.regions /\ (YearsTold(a) => r.year \in YearsWanted(a, r.region))
  BY <1>1, <1>4, ActiveRun DEF Works, Fits
<1>5. AtWork(i)
  BY <1>1 DEF AtWork, Busy
<1> QED
  BY <1>3, <1>4, <1>5

\* The migration says that the old tree may go only when the counts agree.
LEMMA VerifiedByCount ==
  ASSUME LakeInv, ProgramsNext, program[Migration].at = "verifying", program'[Migration].at = "done"
  PROVE  RowCountsAgree
<1>1. ProgramTyped /\ Migration \in Runs
  BY RunsApart DEF LakeInv
<1>2. ASSUME NEW j \in Runs, NEW x, program' = [program EXCEPT ![j] = x], j = Migration => x.at # "done"
      PROVE  FALSE
  BY <1>1, <1>2 DEF ProgramTyped
<1>3. ASSUME NEW j \in Ingests, IngestStarts(j)
      PROVE  FALSE
  <2>1. j \in Runs /\ j # Migration
    BY RunsApart
  <2>2. \E x : program' = [program EXCEPT ![j] = x]
    BY <1>3 DEF IngestStarts, acquire_payloads, export, Begin, End
  <2> QED
    BY <1>2, <2>1, <2>2
<1>4. ASSUME NEW j \in Runs, ListPartition(j)
      PROVE  FALSE
  <2>1. program[j].at = "clearing" /\ j # Migration
    BY <1>4 DEF ListPartition
  <2>2. PICK p \in program[j].clear :
          program' = [program EXCEPT ![j].at = "deleting", ![j].clear = @ \ {p}, ![j].current = p,
                                     ![j].keys = {f \in FileNames : lake[p][f] # {}}]
    BY <1>4 DEF ListPartition
  <2>3. program' = [program EXCEPT ![j] = [program[j] EXCEPT !.at = "deleting", !.clear = program[j].clear \ {p},
                      !.current = p, !.keys = {f \in FileNames : lake[p][f] # {}}]]
    BY <2>2, Zenon
  <2> QED
    BY <1>2, <2>1, <2>3
<1>5. ASSUME NEW j \in Runs, DeleteListed(j) \/ CopyPartition(j)
      PROVE  FALSE
  <2>1. j # Migration
    BY <1>5 DEF DeleteListed, CopyPartition
  <2>2. CASE DeleteListed(j)
    <3>1. \E p, files, next : Change(j, p, files, next)
      BY <2>2 DEF DeleteListed
    <3> QED
      BY <1>1, <2>1, <3>1, StageOfOthers
  <2>3. CASE CopyPartition(j)
    <3>1. \E p, files, next : Change(j, p, files, next)
      BY <2>3, CopyWrites DEF Writing
    <3> QED
      BY <1>1, <2>1, <3>1, StageOfOthers
  <2> QED
    BY <1>5, <2>2, <2>3
<1>6. ASSUME NEW j \in Runs, Crash(j)
      PROVE  FALSE
  <2>1. program' = [program EXCEPT ![j] = [Idle EXCEPT !.at = "failed"]]
    BY <1>6 DEF Crash, End
  <2>2. [Idle EXCEPT !.at = "failed"].at # "done"
    BY DEF Idle
  <2> QED
    BY <1>2, <2>1, <2>2
<1>7. ~MigrationStarts
  BY DEF MigrationStarts
<1>8. ASSUME MigrationVerifies, ~RowCountsAgree
      PROVE  FALSE
  <2>1. program' = [program EXCEPT ![Migration] = [Idle EXCEPT !.at = "failed"]]
    BY <1>8 DEF MigrationVerifies, End
  <2>2. [Idle EXCEPT !.at = "failed"].at # "done"
    BY DEF Idle
  <2> QED
    BY <1>1, <1>2, <2>1, <2>2
<1> QED
  BY <1>3, <1>4, <1>5, <1>6, <1>7, <1>8 DEF ProgramsNext

\* What a reader of NAIP finds: each row with its file and its partition.
NaipPartitions == {p \in Partitions : p.collection = "naip"}
NaipReadings == UNION {{p} \X Readings(lake[p]) : p \in NaipPartitions}

LEMMA NaipIsFinite == ASSUME LakeTyped(lake) PROVE IsFiniteSet(NaipReadings)
<1> DEFINE places == {Partition("naip", r) : r \in Rows}
           of == [r \in Rows |-> Partition("naip", r)]
           file == [n \in 1..Len(Files) |-> Files[n]]
<1>1. IsFiniteSet(Rows) /\ Len(Files) \in Nat
  BY LakeAssumption
<1>2. of \in Surjection(Rows, places)
  BY DEF Surjection
<1>3. IsFiniteSet(places)
  BY <1>1, <1>2, FS_Surjection
<1>4. IsFiniteSet(1..Len(Files)) /\ file \in Surjection(1..Len(Files), FileNames)
  <2>1. DOMAIN Files = 1..Len(Files)
    BY LakeAssumption
  <2> QED
    BY <1>1, <2>1, FS_Interval DEF Surjection, FileNames, ToSet
<1>5. IsFiniteSet(FileNames)
  BY <1>4, FS_Surjection
<1> HIDE DEF places
<1>6. IsFiniteSet(FileNames \X Rows)
  BY <1>1, <1>5, FS_Product
<1>7. IsFiniteSet(places \X (FileNames \X Rows))
  BY <1>3, <1>6, FS_Product
<1>8. NaipPartitions \subseteq places
  <2>1. ASSUME NEW p \in NaipPartitions PROVE p \in places
    <3>1. CASE p \in PartitionsOf("naip", Dated \cup OldLayout)
      BY <3>1 DEF PartitionsOf, places, Rows
    <3>2. ASSUME NEW a \in Requests, p \in PartitionsOf(a.collection, Discoverable(a))
          PROVE  p \in places
      <4>1. PICK r \in Discoverable(a) : p = Partition(a.collection, r)
        BY <3>2 DEF PartitionsOf
      <4>2. a.collection = "naip" /\ r \in Rows
        BY <4>1 DEF Partition, NaipPartitions, Rows
      <4> QED
        BY <4>1, <4>2 DEF places
    <3> QED
      BY <3>1, <3>2 DEF NaipPartitions, Partitions
  <2> QED
    BY <2>1
<1>9. \A p \in NaipPartitions : Readings(lake[p]) \subseteq FileNames \X Rows
  BY DEF NaipPartitions, LakeTyped, Readings
<1>10. NaipReadings \subseteq places \X (FileNames \X Rows)
  BY <1>8, <1>9 DEF NaipReadings
<1> QED
  BY <1>7, <1>10, FS_Subset

\* A count that agrees leaves no room for anything but the old rows, each once.
LEMMA AgreeingCount ==
  ASSUME LakeTyped(lake), RowCountsAgree,
         \A r \in OldLayout : r \in Held(lake[Partition("naip", r)]),
         NEW p \in Partitions, p.collection = "naip"
  PROVE  Exactly(lake[p], Of("naip", OldLayout, p))
<1> DEFINE place(r) == Partition("naip", r)
           at(r) == CHOOSE f \in FileNames : r \in lake[place(r)][f]
           find == [r \in OldLayout |-> <<place(r), <<at(r), r>>>>]
<1>1. \A r \in OldLayout : place(r) \in NaipPartitions
  BY DEF Partitions, PartitionsOf, NaipPartitions, Partition
<1>2. \A q \in Partitions : lake[q] \in [FileNames -> SUBSET Rows]
  BY DEF LakeTyped
<1>3. \A r \in OldLayout : at(r) \in FileNames /\ r \in lake[place(r)][at(r)]
  BY <1>1, <1>2 DEF Held, Range, NaipPartitions
<1> HIDE DEF at, place
<1>4. \A r \in OldLayout : find[r] \in NaipReadings
  BY <1>1, <1>2, <1>3 DEF NaipReadings, Readings, NaipPartitions
<1>5. find \in Injection(OldLayout, NaipReadings)
  BY <1>4 DEF Injection, IsInjective
<1>6. Cardinality(OldLayout) = Cardinality(NaipReadings)
  BY DEF RowCountsAgree, Counted, NaipReadings, NaipPartitions
<1>7. find \in Surjection(OldLayout, NaipReadings)
  BY <1>5, <1>6, NaipIsFinite, FS_Injection
<1>8. ASSUME NEW f \in FileNames, NEW r \in lake[p][f]
      PROVE  r \in OldLayout /\ place(r) = p /\ at(r) = f
  <2>1. <<f, r>> \in Readings(lake[p])
    BY <1>2 DEF Readings
  <2>2. <<p, <<f, r>>>> \in NaipReadings
    BY <2>1 DEF NaipReadings, NaipPartitions
  <2>3. PICK s \in OldLayout : find[s] = <<p, <<f, r>>>>
    BY <1>7, <2>2 DEF Surjection
  <2> QED
    BY <2>3
<1>9. Held(lake[p]) = Of("naip", OldLayout, p)
  <2>1. Held(lake[p]) = UNION {lake[p][f] : f \in FileNames}
    BY <1>2 DEF Held, Range
  <2>2. \A r \in Of("naip", OldLayout, p) : r \in lake[p][at(r)] /\ at(r) \in FileNames
    BY <1>3 DEF Of, place
  <2> QED
    BY <1>8, <2>1, <2>2 DEF Of, place
<1>10. \A f, g \in DOMAIN lake[p] : f # g => lake[p][f] \cap lake[p][g] = {}
  BY <1>2, <1>8
<1>11. IsFiniteSet(Of("naip", OldLayout, p))
  <2>1. Of("naip", OldLayout, p) \subseteq Rows
    BY DEF Of, Rows
  <2> QED
    BY <2>1, RowsAreFinite
<1> QED
  BY <1>9, <1>10, <1>11, OnceEach

LEMMA Verifies ==
  ASSUME LakeInv, ProgramsNext, program[Migration].at = "verifying", program'[Migration].at = "done",
         program[Migration].disturbed = {}, NEW p \in Partitions, p.collection = "naip"
  PROVE  Exactly(lake[p], Of("naip", OldLayout, p))
<1> DEFINE x == program[Migration]
<1>1. Migration \in Runs /\ Busy(x)
  BY RunsApart DEF Busy
<1>2. Works(Migration, x) /\ \A q \in Targets(x) : Progress(Migration, x, q, lake[q])
  BY <1>1, ActiveRun
<1>3. x.asked = Migrating /\ x.got = OldLayout /\ x.write = {} /\ x.asked.collection = "naip"
  BY <1>2 DEF Works, Migrating
<1>4. ASSUME NEW r \in OldLayout
      PROVE  r \in Held(lake[Partition("naip", r)])
  <2>1. Partition("naip", r) \in Targets(x)
    BY <1>3 DEF Targets, PartitionsOf
  <2>2. Of("naip", OldLayout, Partition("naip", r)) \subseteq Held(lake[Partition("naip", r)])
    BY <1>2, <1>3, <2>1 DEF Progress
  <2> QED
    BY <2>2 DEF Of
<1>5. LakeTyped(lake) /\ RowCountsAgree
  BY VerifiedByCount DEF LakeInv
<1> QED
  BY <1>4, <1>5, AgreeingCount

-----------------------------------------------------------------------------
(* The programs side by side.                                              *)

LakesInv == LakeInv /\ RefreshInv /\ RewriteInv

everyVars == <<programVars, indexVars, lakeVars>>

LEMMA EachMoves ==
  ASSUME [LakeNext]_everyVars
  PROVE  [ProgramsNext]_programVars /\ [RefreshNext]_refreshVars /\ [RewriteNext]_rewriteVars
<1>1. \/ ProgramsNext /\ UNCHANGED <<refreshVars, rewriteVars>>
      \/ (RefreshNext \/ RewriteNext) /\ UNCHANGED programVars
      \/ UNCHANGED <<programVars, refreshVars, rewriteVars>>
  BY DEF LakeNext, everyVars, indexVars
<1>2. RefreshNext => UNCHANGED rewriteVars
  BY ZenonT(30) DEF RefreshNext, RefreshStarts, RemovePartition, CopyFile, RefreshCrashes
<1>3. RewriteNext => UNCHANGED refreshVars
  BY DEF RewriteNext, Stage, Verify, CopyOver, DeleteStaged, RewriteCrashes, Republish, refreshVars
<1> QED
  BY <1>1, <1>2, <1>3

LEMMA LakesStep == LakesInv /\ [LakeNext]_everyVars => LakesInv'
<1> SUFFICES ASSUME LakesInv, [LakeNext]_everyVars
             PROVE  LakesInv'
  OBVIOUS
<1>1. LakeInv /\ RefreshInv /\ RewriteInv
  BY DEF LakesInv
<1>2. [ProgramsNext]_programVars /\ [RefreshNext]_refreshVars /\ [RewriteNext]_rewriteVars
  BY EachMoves
<1>3. LakeInv'
  BY <1>1, <1>2, ProgramsKeep, ProgramsStay
<1>4. RefreshInv'
  BY <1>1, <1>2, RefreshStartsKeeps, RemovePartitionKeeps, CopyFileKeeps, RefreshCrashesKeeps, RefreshStays
     DEF RefreshNext
<1>5. RewriteInv'
  BY <1>1, <1>2, RewriteKeeps, RewriteStays
<1> QED
  BY <1>3, <1>4, <1>5 DEF LakesInv

LEMMA LakesInvariance == LakeSpec => []LakesInv
<1>1. LakeInit => LakesInv
  BY ProgramsBegin, RefreshInit, RewriteInit DEF LakeInit, LakesInv
<1> QED
  BY <1>1, LakesStep, PTL DEF LakeSpec, everyVars

\* "A re-ingest replaces rather than appends": for any number of ingests and migrations side
\* by side, killed anywhere and run again, an ingest that ends leaves in every partition that
\* nobody else changed since it began to write its own rows, each once (export,
\* _delete_partition_prefixes).
THEOREM IngestsReplace == LakeSpec => IngestReplaces
<1>1. LakesInv /\ [LakeNext]_everyVars =>
        [\A i \in Ingests : Ends(i) =>
           \A p \in Untroubled(i) :
             Exactly(lake'[p], Of(program[i].asked.collection, program[i].got, p))]_programVars
  BY EachMoves, Replaces DEF LakesInv
<1> QED
  BY <1>1, LakesInvariance, PTL DEF LakeSpec, IngestReplaces, everyVars

\* "Completeness = correctness": for any bucket, where a strict ingest without a cap ends, a
\* reader counts as many rows as the bucket has images of the partition (enumerate,
\* reconcile_completeness, export).
THEOREM StrictIngestsComplete == LakeSpec => StrictIsComplete
<1>1. LakesInv /\ [LakeNext]_everyVars =>
        [\A i \in Ingests : (Ends(i) /\ program[i].asked.strict /\ program[i].asked.cap = 0) =>
           \A p \in Untroubled(i) \cap PartitionsOf(program[i].asked.collection, Discovery[program[i].asked]) :
             SumRows(lake'[p]) = Cardinality(Images(program[i].asked, p))]_programVars
  BY EachMoves, Completes DEF LakesInv
<1> QED
  BY <1>1, LakesInvariance, PTL DEF LakeSpec, StrictIsComplete, everyVars

\* "Re-ingesting one year leaves the other years intact": for any bucket and EarthSearch, a
\* partition changes only by a run that was asked for its collection, region and year
\* (acquire_payloads, row_to_insertable, export).
THEOREM OnlyAskedChanges == LakeSpec => AskedOnly
<1>1. LakesInv /\ [LakeNext]_everyVars =>
        [\A p \in Partitions : lake'[p] # lake[p] =>
           \E i \in Runs :
             /\ AtWork(i) /\ program[i].asked.collection = p.collection
             /\ i \in Ingests =>
                  /\ p.region \in program[i].asked.regions
                  /\ YearsTold(program[i].asked) =>
                       p.year \in YearsWanted(program[i].asked, p.region)]_programVars
  <2> SUFFICES ASSUME LakesInv, ProgramsNext, NEW p \in Partitions, lake'[p] # lake[p]
               PROVE  \E i \in Runs :
                        /\ AtWork(i) /\ program[i].asked.collection = p.collection
                        /\ i \in Ingests =>
                             /\ p.region \in program[i].asked.regions
                             /\ YearsTold(program[i].asked) =>
                                  p.year \in YearsWanted(program[i].asked, p.region)
    BY EachMoves
  <2> QED
    BY ChangedAsAsked DEF LakesInv
<1> QED
  BY <1>1, LakesInvariance, PTL DEF LakeSpec, AskedOnly, everyVars

\* For any old layout: when the migration says that the old tree may go and nobody wrote its
\* partitions meanwhile, the new layout has every old row once and nothing else, since counts
\* that agree leave no room for a former one (migrate_lake_layout.py, main).
THEOREM MigrationsVerified == LakeSpec => MigrationVerified
<1>1. LakesInv /\ [LakeNext]_everyVars =>
        [(/\ program[Migration].at = "verifying" /\ program'[Migration].at = "done"
          /\ program[Migration].disturbed = {}) =>
           \A p \in Partitions : p.collection = "naip" =>
             Exactly(lake[p], Of("naip", OldLayout, p))]_programVars
  BY EachMoves, Verifies DEF LakesInv
<1> QED
  BY <1>1, LakesInvariance, PTL DEF LakeSpec, MigrationVerified, everyVars

\* For any roots, buckets and years: after a refresh, whatever crashes and failed removals went
\* before, every root has the keys of the live bucket in its recent partitions, but for files
\* that a failed removal left behind, and the files of former years are untouched
\* (refresh_manifest_index.py, main and _merge_partition).
THEOREM IndexStaysRefreshed == LakeSpec => []IndexRefreshed
<1>1. LakesInv => IndexRefreshed
  <2> SUFFICES ASSUME LakesInv
               PROVE  IndexRefreshed
    OBVIOUS
  <2>1. TypeOK /\ IndexIsCurrent
    BY ProgramsTyped, RefreshIsCurrent DEF LakesInv
  <2>2. refresh.todo \subseteq IndexPartitions /\ refresh.copy \subseteq IndexPartitions \X IndexFiles
    BY DiscoverIsIndexed DEF LakesInv, RefreshInv, IndexTyped
  <2>3. IndexTypeOK
    BY <2>2 DEF LakesInv, RefreshInv, IndexTyped, RewriteInv, IsFile, IndexTypeOK
  <2> QED
    BY <2>1, <2>3 DEF IndexRefreshed
<1> QED
  BY <1>1, LakesInvariance, PTL

\* "What it does not change: same row order": a file of the index is replaced by one with the
\* same rows in the same order and at most two groups, unless it is published again between its
\* verification and the copy (rewrite_index_layout.py, main).
THEOREM LayoutIsOnlyChanged == LakeSpec => LayoutOnly
<1>1. LakesInv /\ [LakeNext]_everyVars =>
        [(rewrite.at = "verified" /\ rewrite'.at = "copied" /\ ~republished) =>
           /\ object'.rows = object.rows
           /\ object'.groups <= 2]_rewriteVars
  <2> SUFFICES ASSUME LakesInv, [LakeNext]_everyVars, rewrite.at = "verified", rewrite'.at = "copied", ~republished
               PROVE  object'.rows = object.rows /\ object'.groups <= 2
    OBVIOUS
  <2>1. LakeNext
    BY DEF everyVars, indexVars, rewriteVars
  <2> QED
    BY <2>1, CopiesWhatAgrees DEF LakesInv
<1> QED
  BY <1>1, LakesInvariance, PTL DEF LakeSpec, LayoutOnly, everyVars
=============================================================================
