------------------------------ MODULE MCBackoff ------------------------------
(***************************************************************************)
(* The node service with a history of the polls it has given up, to ask    *)
(* for the exponential backoff apiBackoff is said to implement.            *)
(***************************************************************************)
EXTENDS MCNode

VARIABLE givenUp  \* history: pulls given up since one last came through

GivesUp      == phase' = "loop" /\ pull.pc \in {"config", "users"} /\ pull'.pc = "idle"
ComesThrough == pull.pc = "users" /\ pull'.pc = "send"

BackoffInit == Init /\ givenUp = 0

BackoffNext ==
  /\ Next
  /\ givenUp' = CASE GivesUp -> givenUp + 1
                  [] ComesThrough -> 0
                  [] OTHER -> givenUp

BackoffSpec == BackoffInit /\ [][BackoffNext]_<<vars, givenUp>>

\* "apiBackoff implements simple exponential backoff for API failures" (service.go:111): a
\* pull given up skips one poll, and twice as many as the last one, up to eight, when no
\* pull has come through since.
BackoffIsExponential ==
  [][GivesUp => pull'.skip = IF givenUp < 3 THEN 2 ^ givenUp ELSE 8]_<<vars, givenUp>>
=============================================================================
