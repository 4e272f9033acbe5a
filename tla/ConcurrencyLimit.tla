-------------------------- MODULE ConcurrencyLimit --------------------------
(***************************************************************************)
(* What a ConcurrencyLimiter promises to the sources that read through it: *)
(* per origin at most MaxRequests reads run at a time, a read waits only   *)
(* while its origin is saturated, and a waiting read either runs or is     *)
(* dropped.  How waiters are stored and chosen is left open.               *)
(***************************************************************************)
EXTENDS Integers, FiniteSets

CONSTANTS
  Fetches,      \* the reads
  Origins,      \* the URL origins they go to
  originOf,     \* the origin of each read
  MaxRequests   \* slots per origin

VARIABLE phase  \* phase[f]: where read f stands

Phases == {"idle", "waiting", "running", "settled"}

Running(o) == {f \in Fetches : originOf[f] = o /\ phase[f] = "running"}
Waiting(o) == {f \in Fetches : originOf[f] = o /\ phase[f] = "waiting"}

\* No origin runs more reads than it has slots.
Capped == \A o \in Origins : Cardinality(Running(o)) <= MaxRequests

\* No read waits at an origin that has a free slot.
WorkConserving ==
  \A o \in Origins : Waiting(o) # {} => Cardinality(Running(o)) = MaxRequests

\* The moves of one read.  "settled" -> "idle" is the next read of its source.
Moves == {<<"idle", "waiting">>, <<"idle", "running">>, <<"idle", "settled">>,
          <<"waiting", "running">>, <<"waiting", "settled">>,
          <<"running", "settled">>, <<"settled", "idle">>}

Init == phase = [f \in Fetches |-> "idle"]

\* One read moves, or one settles and hands its slot to another.
Next ==
  /\ phase' \in [Fetches -> Phases]
  /\ \A f \in Fetches :
       phase'[f] # phase[f] => <<phase[f], phase'[f]>> \in Moves
  /\ \A f, g \in Fetches :
       (f # g /\ phase'[f] # phase[f] /\ phase'[g] # phase[g])
         => /\ originOf[f] = originOf[g]
            /\ {phase'[f], phase'[g]} = {"running", "settled"}
  /\ Capped'
  /\ WorkConserving'

\* A waiting read does not wait for ever.
Progress == \A f \in Fetches : phase[f] = "waiting" ~> phase[f] # "waiting"

Safety == Init /\ [][Next]_phase

Spec == Safety /\ Progress
=============================================================================
