----------------------------- MODULE MCLimiter -----------------------------
(***************************************************************************)
(* Instances of Limiter for TLC.                                           *)
(***************************************************************************)
EXTENDS Limiter

CONSTANTS f1, f2, f3, f4, f5, near, far, A, B

\* Three reads compete for origin A and two for origin B.
TwoOrigins == [f \in Fetches |-> IF f \in {f1, f2, f3} THEN A ELSE B]
OneOrigin == [f \in Fetches |-> A]

\* Panning from near to far turns the order of f2 and f3 around, f4 gives a
\* tuple that ties with f2 but for a trailing element, or a NaN.
Panned == [v \in Views |-> [f \in Fetches |->
  CASE f = f1 -> <<0>>
    [] f = f2 -> IF v = near THEN <<1>> ELSE <<3>>
    [] f = f3 -> IF v = near THEN <<2>> ELSE <<1, 0>>
    [] f = f5 -> <<1>>
    [] OTHER  -> IF v = near THEN <<1, 5>> ELSE <<NaN>>]]

\* No getPriority callback at all: every read counts as 0.
Unprioritised == [v \in Views |-> [f \in Fetches |-> <<0>>]]
=============================================================================
