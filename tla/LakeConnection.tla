--------------------------- MODULE LakeConnection ---------------------------
(***************************************************************************)
(* lake.py and duckdb_s3.py: the one DuckDB connection that all requests    *)
(* of the API share, made again when its session ends, when a query was     *)
(* refused for an expired token, or when a fatal query has invalidated it.  *)
(* Each request is a thread.  What they share is read without a lock but to *)
(* make and to close the connection, one variable at a time: what a thread  *)
(* finds may be gone when it looks again.                                   *)
(***************************************************************************)
EXTENDS Integers, FiniteSets, Sequences

CONSTANTS Queries, NoCon,
  MaxKeys, MaxCons, MaxCalls  \* bounds: sessions, connections and calls of a behaviour

ASSUME ConnectionAssumption == NoCon \notin Nat /\ MaxKeys \in Nat \ {0}

Keys == 1..MaxKeys

VARIABLES
  stage,     \* of each session: it is fresh, about to end, over, or revoked before its time
  hostKey,   \* the session the host resolves
  knownKey,  \* the session in _cached_creds, 0 for None
  con,       \* _lake_duckdb_con
  conKey,    \* _lake_duckdb_access_key
  conExpiry, \* the session whose end is _lake_duckdb_expiry, 0 for 300 seconds, NoCon for none
  cons,      \* the connections made: the session each has in its secret, and its health
  thread,    \* the requests
  calls      \* auxiliary: how many there were

connectionVars == <<con, conKey, conExpiry, cons>>
lakeVars == <<stage, hostKey, knownKey, connectionVars, thread, calls>>

Kinds == {"query", "health"}

LooksFresh(k) == stage[k] \in {"fresh", "revoked"}
Dead(k) == stage[k] \in {"over", "revoked"}
Running == {r \in Queries : thread[r].pc \notin {"idle", "failed"}}
\* It has dropped the connection that failed, to try once more.
Healing(r) == thread[r].retried \/ thread[r].pc = "forget"

ConnectionInit ==
  /\ stage = [k \in Keys |-> "fresh"]
  /\ hostKey = 1 /\ knownKey = 0
  /\ con = NoCon /\ conKey = 0 /\ conExpiry = NoCon
  /\ cons = <<>>
  /\ thread = [r \in Queries |-> [pc |-> "idle"]]
  /\ calls = 0

\* A session nears its end, ends, or is revoked; the host has the next one by then.
SessionEnds ==
  /\ \E k \in Keys :
       /\ k <= hostKey
       /\ \/ stage[k] = "fresh" /\ stage' = [stage EXCEPT ![k] = "ending"]
          \/ k < hostKey /\ stage[k] = "ending" /\ stage' = [stage EXCEPT ![k] = "over"]
          \/ k < hostKey /\ stage[k] = "fresh" /\ stage' = [stage EXCEPT ![k] = "revoked"]
  /\ thread' = [r \in Queries |-> IF r \in Running /\ Healing(r)
                                   THEN [thread[r] EXCEPT !.calm = FALSE] ELSE thread[r]]
  /\ UNCHANGED <<hostKey, knownKey, connectionVars, calls>>
HostRenews ==
  /\ hostKey < MaxKeys
  /\ hostKey' = hostKey + 1
  /\ UNCHANGED <<stage, knownKey, connectionVars, thread, calls>>

-----------------------------------------------------------------------------
\* What becomes of the others when one of them takes away what they use: they were
\* disturbed, which is remembered for the property.
Disturb(r, state, others) ==
  [t \in Queries |-> IF t = r THEN state ELSE IF t \in others
                     THEN [thread[t] EXCEPT !.calm = FALSE] ELSE thread[t]]
Go(r, pc) == [thread EXCEPT ![r].pc = pc]
\* A request that is answered leaves nothing; one that fails is remembered for the property.
Answered(r) == [thread EXCEPT ![r] = [pc |-> "idle"]]
Failure(r) == [pc |-> "failed", kind |-> thread[r].kind, calm |-> thread[r].calm]
Fail(r) == [thread EXCEPT ![r] = Failure(r)]

\* A request begins, with nothing but what it is about.
Fresh(kind, retried, calm) ==
  [pc |-> "creds", kind |-> kind, retried |-> retried, calm |-> calm,
   expired |-> FALSE, key |-> 0, held |-> NoCon]
Call(r, kind) ==
  /\ thread[r].pc \in {"idle", "failed"}
  /\ calls < MaxCalls /\ calls' = calls + 1
  /\ thread' = [thread EXCEPT ![r] = Fresh(kind, FALSE, TRUE)]
  /\ UNCHANGED <<stage, hostKey, knownKey, connectionVars>>

-----------------------------------------------------------------------------
\* get_aws_credentials: _cached_creds is read for None, for its end, for its key, and for
\* the secret and the token; a thread that finds None where it has just found credentials
\* fails, and no retry catches it.
RememberCredentials(r) ==
  /\ thread[r].pc = "creds"
  /\ thread' = Go(r, IF knownKey = 0 THEN "resolve" ELSE "fresh")
  /\ UNCHANGED <<stage, hostKey, knownKey, connectionVars, calls>>
CompareExpiry(r) ==
  /\ thread[r].pc = "fresh"
  /\ thread' = IF knownKey = 0 THEN Fail(r)
               ELSE Go(r, IF LooksFresh(knownKey) THEN "take" ELSE "resolve")
  /\ UNCHANGED <<stage, hostKey, knownKey, connectionVars, calls>>
TakeKey(r) ==
  /\ thread[r].pc = "take"
  /\ thread' = IF knownKey = 0 THEN Fail(r)
               ELSE [thread EXCEPT ![r].key = knownKey, ![r].pc = "secret"]
  /\ UNCHANGED <<stage, hostKey, knownKey, connectionVars, calls>>
TakeSecret(r) ==
  /\ thread[r].pc = "secret"
  /\ thread' = IF knownKey = 0 THEN Fail(r) ELSE Go(r, "check")
  /\ UNCHANGED <<stage, hostKey, knownKey, connectionVars, calls>>
\* Otherwise the host is asked, and what it resolved is kept for all.
ResolveCredentials(r) ==
  /\ thread[r].pc = "resolve"
  /\ thread' = [thread EXCEPT ![r].key = hostKey, ![r].pc = "keep"]
  /\ UNCHANGED <<stage, hostKey, knownKey, connectionVars, calls>>
KeepCredentials(r) ==
  /\ thread[r].pc = "keep"
  /\ knownKey' = thread[r].key
  /\ thread' = Go(r, "check")
  /\ UNCHANGED <<stage, hostKey, connectionVars, calls>>

-----------------------------------------------------------------------------
\* get_lake_duckdb, line by line.
CheckConnection(r) ==
  /\ thread[r].pc = "check"
  /\ thread' = Go(r, IF con = NoCon THEN "make" ELSE "compare")
  /\ UNCHANGED <<stage, hostKey, knownKey, connectionVars, calls>>
CompareKey(r) ==
  /\ thread[r].pc = "compare"
  /\ thread' = Go(r, IF conKey # thread[r].key THEN "close" ELSE "lapsed")
  /\ UNCHANGED <<stage, hostKey, knownKey, connectionVars, calls>>
CompareLapse(r) ==
  /\ thread[r].pc = "lapsed"
  /\ \E lapsed \in IF conExpiry = 0 THEN BOOLEAN
                    ELSE {conExpiry = NoCon \/ (conExpiry # NoCon /\ ~LooksFresh(conExpiry))} :
       thread' = Go(r, IF lapsed THEN "close" ELSE "make")
  /\ UNCHANGED <<stage, hostKey, knownKey, connectionVars, calls>>

\* The lock is held while a connection that was made is noted with its key and its end.
Noting(r) == thread[r].pc \in {"note", "expiry", "end"}
Unlocked == \A t \in Queries : ~Noting(t)
Closed == IF con = NoCon THEN cons ELSE [cons EXCEPT ![con].health = "closed"]
CloseConnection(r) ==
  /\ thread[r].pc = "close" /\ Unlocked
  /\ con' = NoCon /\ cons' = Closed
  /\ thread' = Disturb(r, [thread[r] EXCEPT !.pc = "make"], Running)
  /\ UNCHANGED <<stage, hostKey, knownKey, conKey, conExpiry, calls>>
\* The secret is made from what the host resolves now, not from the credentials at hand.
MakeConnection(r) ==
  /\ thread[r].pc = "make"
  /\ IF con # NoCon THEN thread' = Go(r, "use") /\ UNCHANGED <<con, cons>>
     ELSE /\ Unlocked
          /\ Len(cons) < MaxCons
          /\ cons' = Append(cons, [key |-> hostKey, health |-> "good"])
          /\ con' = Len(cons) + 1
          /\ thread' = Go(r, "note")
  /\ UNCHANGED <<stage, hostKey, knownKey, conKey, conExpiry, calls>>
NoteKey(r) ==
  /\ thread[r].pc = "note"
  /\ conKey' = thread[r].key
  /\ thread' = Go(r, "expiry")
  /\ UNCHANGED <<stage, hostKey, knownKey, con, conExpiry, cons, calls>>
\* get_aws_credentials_expiry: _cached_creds is read for None, and for its end.
AskExpiry(r) ==
  /\ thread[r].pc = "expiry"
  /\ IF knownKey = 0 THEN conExpiry' = 0 /\ thread' = Go(r, "use")
     ELSE thread' = Go(r, "end") /\ UNCHANGED conExpiry
  /\ UNCHANGED <<stage, hostKey, knownKey, con, conKey, cons, calls>>
NoteExpiry(r) ==
  /\ thread[r].pc = "end"
  /\ IF knownKey = 0 THEN thread' = Fail(r) /\ UNCHANGED conExpiry
     ELSE conExpiry' = knownKey /\ thread' = Go(r, "use")
  /\ UNCHANGED <<stage, hostKey, knownKey, con, conKey, cons, calls>>

\* The shared variable is read once more: it may be gone.
UseConnection(r) ==
  /\ thread[r].pc = "use"
  /\ thread' = IF con = NoCon THEN Fail(r)
               ELSE [thread EXCEPT ![r].key = 0, ![r].held = con, ![r].pc = "run"]
  /\ UNCHANGED <<stage, hostKey, knownKey, connectionVars, calls>>

Recoverable_Expired(c) == c.health = "good" /\ Dead(c.key)
\* A refusal for an expired token, or an invalidated connection; not a closed one.
Recoverable(c) == c.health = "invalid" \/ (c.health = "good" /\ Dead(c.key))

\* The query runs, and may itself be a fatal one.
RunQuery(r) ==
  LET c == cons[thread[r].held]
  IN  /\ thread[r].pc = "run"
      /\ \/ /\ c.health = "good" /\ ~Dead(c.key)
            /\ thread' = Answered(r) /\ UNCHANGED cons
         \/ /\ c.health = "good" /\ ~Dead(c.key) /\ thread[r].kind # "health"
            /\ cons' = [cons EXCEPT ![thread[r].held].health = "invalid"]
            /\ thread' = Disturb(r, [Failure(r) EXCEPT !.calm = FALSE], Running)
         \/ /\ c.health # "good" \/ Dead(c.key)
            /\ thread' = IF Recoverable(c) /\ thread[r].kind # "health"
                         THEN [thread EXCEPT ![r].pc = "reset", ![r].expired = c.health = "good"]
                         ELSE Fail(r)
            /\ UNCHANGED cons
      /\ UNCHANGED <<stage, hostKey, knownKey, con, conKey, conExpiry, calls>>

\* lake_query: the connection is dropped, even on the last attempt; then the credentials,
\* when the token had expired; then the query is run once more.
Reset(r) ==
  /\ thread[r].pc = "reset" /\ Unlocked
  /\ con' = NoCon /\ cons' = Closed
  /\ thread' = Disturb(r, [thread[r] EXCEPT !.pc = "forget"], Running)
  /\ UNCHANGED <<stage, hostKey, knownKey, conKey, conExpiry, calls>>
\* Those that have found credentials and are about to read on.
ReadingOn == {r \in Queries : thread[r].pc \in {"fresh", "take", "secret", "end"}}
Forget(r) ==
  /\ thread[r].pc = "forget"
  /\ knownKey' = IF thread[r].expired THEN 0 ELSE knownKey
  /\ thread' = Disturb(r, IF thread[r].retried THEN Failure(r)
                          ELSE Fresh(thread[r].kind, TRUE, thread[r].calm),
                       IF thread[r].expired THEN ReadingOn ELSE {})
  /\ UNCHANGED <<stage, hostKey, connectionVars, calls>>

Serve(r) ==
  \/ \E kind \in Kinds : Call(r, kind)
  \/ RememberCredentials(r) \/ CompareExpiry(r) \/ TakeKey(r) \/ TakeSecret(r)
  \/ ResolveCredentials(r) \/ KeepCredentials(r)
  \/ CheckConnection(r) \/ CompareKey(r) \/ CompareLapse(r) \/ CloseConnection(r)
  \/ MakeConnection(r) \/ NoteKey(r) \/ AskExpiry(r) \/ NoteExpiry(r)
  \/ UseConnection(r) \/ RunQuery(r) \/ Reset(r) \/ Forget(r)

ConnectionNext ==
  \/ SessionEnds \/ HostRenews
  \/ \E r \in Queries : Serve(r)

ConnectionSpec == ConnectionInit /\ [][ConnectionNext]_lakeVars

-----------------------------------------------------------------------------
\* What a request is about while it runs, and what is left of it.
Active == [pc : {"creds", "fresh", "take", "secret", "resolve", "keep", "check", "compare", "lapsed",
                 "close", "make", "note", "expiry", "end", "use", "run", "reset", "forget"}, kind : Kinds,
           retried : BOOLEAN, calm : BOOLEAN, expired : BOOLEAN, key : Keys \cup {0},
           held : Nat \cup {NoCon}]
Ended == [pc : {"failed"}, kind : Kinds, calm : BOOLEAN]
ConnectionTypeOK ==
  /\ stage \in [Keys -> {"fresh", "ending", "over", "revoked"}]
  /\ hostKey \in Keys /\ {knownKey, conKey} \subseteq Keys \cup {0} /\ conExpiry \in Keys \cup {0, NoCon}
  /\ cons \in Seq([key : Keys, health : {"good", "invalid", "closed"}])
  /\ con = NoCon \/ (con \in DOMAIN cons /\ cons[con].health # "closed")
  /\ thread \in [Queries -> [pc : {"idle"}] \cup Active \cup Ended]
  /\ \A r \in Running : thread[r].held = NoCon \/ thread[r].held \in DOMAIN cons

\* A query that nobody disturbed never fails for the connection's sake, whatever state of
\* it earlier requests, their failures and their half-done resets have left.  It is
\* disturbed when another request closes or spoils the connection while it runs, when a
\* token ends after it has dropped the connection to try once more, and when another
\* request resets the credentials between two of its reads of them: aws_s3.py:93 and :38
\* find them and index None, the TypeError is none that lake_query retries, and at :38 a
\* connection stays shared whose end was not noted.
QueriesHeal ==
  /\ ConnectionTypeOK
  /\ \A r \in Queries : thread[r].pc = "failed" /\ thread[r].kind # "health" => ~thread[r].calm
=============================================================================
