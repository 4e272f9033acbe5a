----------------------------- MODULE IngestPanel -----------------------------
(***************************************************************************)
(* The viewer's ingest panel (app/viewer/app.js) beside the jobs of the    *)
(* API: it starts an ingest, asks for its status every 1.5 seconds, and,   *)
(* when it is told that the ingest completed, asks again which years there *)
(* are, for the search and for its own dropdowns.                          *)
(*                                                                         *)
(* Each ingest has a chain of requests and timers of its own.  One         *)
(* variable, ingestStatusPollId, holds the last timer of them all, and the *)
(* server's registry may have dropped the record that a chain asks for.    *)
(***************************************************************************)
EXTENDS IngestService

CONSTANTS
  MaxReloads, \* bound: availabilities the rest of the page asks for
  MaxFaults   \* bound: requests that fail

\* Null is not the id of a job.
ASSUME PanelAssumption == None \notin Jobs

VARIABLES
  chain,     \* chain[j]: where the chain of job j stands
  told,      \* told[j]: the status in the answer that is on its way, None before
  pollId,    \* ingestStatusPollId: the job whose timer it is, or None
  calls,     \* requests of /availability under way: [who, seq, year]
  asked,     \* how many were asked
  available, \* searchAvailability: the newest year
  marked,    \* the newest year the panel's dropdowns mark as ingested
  answered,  \* the latest request of /availability that was answered (history)
  excused,   \* an answer came after that of a later request, or none (history)
  reloads, faults

panelVars ==
  <<chain, told, pollId, calls, asked, available, marked, answered, excused, reloads, faults>>

\* "stopped" when its timer was cleared, "over" when it was told of no completion, "lost"
\* when a request of it failed, "done" when it has shown what the ingest added.
Ended == {"stopped", "over", "lost", "done"}
Chains == {"none", "config", "posting", "polling", "waiting", "environment", "availability", "options"} \cup Ended

PanelInit ==
  /\ chain = [j \in Jobs |-> "none"] /\ told = [j \in Jobs |-> None] /\ pollId = None
  /\ calls = {} /\ asked = 0 /\ available = 0 /\ marked = 0
  /\ answered = 0 /\ excused = FALSE /\ reloads = 0 /\ faults = 0

-----------------------------------------------------------------------------
(* The requests.                                                           *)

Goes(j, from, to) == chain[j] = from /\ chain' = [chain EXCEPT ![j] = to]

\* apiFetch("/availability") is sent.
Asks(who) ==
  /\ asked' = asked + 1
  /\ calls' = calls \cup {[who |-> who, seq |-> asked + 1, year |-> None]}

Fault == faults < MaxFaults /\ faults' = faults + 1

\* The server lists the lake for one.
AvailabilityRead(c) ==
  /\ c.year = None
  /\ calls' = (calls \ {c}) \cup {[c EXCEPT !.year = newest]}
  /\ UNCHANGED <<vars, chain, told, pollId, asked, available, marked, answered, excused, reloads, faults>>

\* refreshAvailability goes on, and the chain that waits for it asks for the options.
Refreshed(c, year) ==
  /\ calls' = calls \ {c}
  /\ available' = year
  /\ chain' = IF c.who = None THEN chain ELSE [chain EXCEPT ![c.who] = "options"]
  /\ UNCHANGED <<vars, told, pollId, asked, marked, reloads>>

AvailabilityAnswers(c) ==
  /\ c.year # None /\ Refreshed(c, c.year)
  /\ excused' = (excused \/ c.seq < answered)
  /\ answered' = IF c.seq > answered THEN c.seq ELSE answered
  /\ UNCHANGED faults

\* It fails: nothing is available.
AvailabilityFails(c) ==
  /\ Fault /\ Refreshed(c, 0)
  /\ excused' = TRUE /\ UNCHANGED answered

\* Another collection is selected, or the page has just loaded.
PageReloads ==
  /\ reloads < MaxReloads /\ reloads' = reloads + 1
  /\ Asks(None)
  /\ UNCHANGED <<vars, chain, told, pollId, available, marked, answered, excused, faults>>

-----------------------------------------------------------------------------
(* A chain.                                                                *)

Rest == <<calls, asked, available, marked, answered, excused, reloads>>

\* runIngest to its await of the configuration: the timer in the variable is cleared.
RunIngest(j) ==
  /\ chain[j] = "none"
  /\ chain' = [k \in Jobs |-> IF k = j THEN "config"
                              ELSE IF k = pollId /\ chain[k] = "waiting" THEN "stopped" ELSE chain[k]]
  /\ pollId' = None
  /\ UNCHANGED <<vars, told, Rest, faults>>

\* getIngestConfig: the server takes ingests in the background.
ConfigAnswers(j) ==
  /\ Goes(j, "config", "posting")
  /\ UNCHANGED <<vars, told, pollId, Rest, faults>>

Launched(j) == chain[j] = "posting" /\ Launch(j) /\ UNCHANGED panelVars
PostAnswers(j) ==
  /\ stage[j] # "idle" /\ Goes(j, "posting", "polling")
  /\ UNCHANGED <<vars, told, pollId, Rest, faults>>

\* GET /ingest/status: the status of the record; a dropped one is not found, and has none.
StatusRead(j) ==
  /\ chain[j] = "polling" /\ told[j] = None
  /\ told' = [told EXCEPT ![j] = IF Registered(j)
       THEN registry[CHOOSE i \in DOMAIN registry : registry[i].job = j].status ELSE "absent"]
  /\ UNCHANGED <<vars, chain, pollId, Rest, faults>>

\* Mutant of Polled: the completion of an ingest is dropped while another's timer runs.
Polled_LatestOnly(j) ==
  /\ told[j] # None /\ told' = [told EXCEPT ![j] = None]
  /\ Goes(j, "polling", IF told[j] = "running" THEN "waiting"
                        ELSE IF told[j] = "completed" /\ pollId \in {j, None} THEN "environment"
                        ELSE IF told[j] = "completed" THEN "done" ELSE "over")
  /\ pollId' = IF told[j] = "running" THEN j ELSE None
  /\ UNCHANGED <<vars, Rest, faults>>

\* pollIngestStatus goes on: another poll while it runs, what is there now once completed.
Polled(j) ==
  /\ told[j] # None /\ told' = [told EXCEPT ![j] = None]
  /\ Goes(j, "polling", CASE told[j] = "running" -> "waiting"
                          [] told[j] = "completed" -> "environment"
                          [] OTHER -> "over")
  /\ pollId' = IF told[j] = "running" THEN j ELSE None
  /\ UNCHANGED <<vars, Rest, faults>>

TimerFires(j) ==
  /\ Goes(j, "waiting", "polling")
  /\ UNCHANGED <<vars, told, pollId, Rest, faults>>

EnvironmentAnswers(j) ==
  /\ Goes(j, "environment", "availability") /\ Asks(j)
  /\ UNCHANGED <<vars, told, pollId, available, marked, answered, excused, reloads, faults>>

\* loadIngestCatalogOptions: the dropdowns are filled anew, with marks from searchAvailability.
OptionsAnswer(j) ==
  /\ Goes(j, "options", "done") /\ marked' = available
  /\ UNCHANGED <<vars, told, pollId, calls, asked, available, answered, excused, reloads, faults>>
OptionsFail(j) ==
  /\ Fault /\ Goes(j, "options", "lost")
  /\ UNCHANGED <<vars, told, pollId, Rest>>

\* The request that starts or polls fails: the chain ends.
RequestFails(j) ==
  /\ Fault /\ chain[j] \in {"posting", "polling"}
  /\ chain' = [chain EXCEPT ![j] = "lost"] /\ told' = [told EXCEPT ![j] = None]
  /\ pollId' = IF chain[j] = "polling" THEN None ELSE pollId
  /\ UNCHANGED <<vars, Rest>>

Server == \E j \in Jobs : \/ Spawn(j) \/ Log(j) \/ Write(j) \/ Exit(j) \/ ResetLatestYears(j) \/ Finish(j)

PanelNext ==
  \/ \E j \in Jobs : \/ RunIngest(j) \/ ConfigAnswers(j) \/ Launched(j) \/ PostAnswers(j) \/ StatusRead(j)
                    \/ Polled(j) \/ TimerFires(j) \/ EnvironmentAnswers(j) \/ OptionsAnswer(j)
                    \/ OptionsFail(j) \/ RequestFails(j)
  \/ \E c \in calls : AvailabilityRead(c) \/ AvailabilityAnswers(c) \/ AvailabilityFails(c)
  \/ PageReloads
  \/ Server /\ UNCHANGED panelVars

PanelSpec == Init /\ PanelInit /\ [][PanelNext]_<<vars, panelVars>>

-----------------------------------------------------------------------------
PanelTypeOK ==
  /\ chain \in [Jobs -> Chains]
  /\ told \in [Jobs -> {"running", "completed", "failed", "absent", None}]
  /\ pollId \in Jobs \cup {None}
  /\ \A c \in calls : c.who \in Jobs \cup {None} /\ c.seq \in 1..asked /\ c.year \in 0..newest \cup {None}
  /\ available \in 0..newest /\ marked \in 0..newest

\* The comments on a completed ingest, "refresh the Viewer's State->Year availability dropdowns
\* to surface it" (app.js:5346) and "the ingest panel's own dropdowns" (5351): a chain that
\* ended with its ingest completed has shown the year it added, in both, whichever chains ran
\* beside it and whatever else the page asked -- unless an availability failed, or was answered
\* after one that was asked later.  A chain that gave up on an ingest under way did so because
\* the registry had dropped its record.
IngestsSurface ==
  /\ PanelTypeOK
  /\ ~excused => \A j \in Jobs :
       chain[j] = "done" => stage[j] = "completed" /\ yearOf[j] <= available /\ yearOf[j] <= marked
  /\ \A j \in Jobs : chain[j] = "over" /\ Underway(j) =>
       ~\E i \in DOMAIN registry : registry[i] = [job |-> j, status |-> "running"]
=============================================================================
