--------------------------- MODULE InteractionLog ---------------------------
(***************************************************************************)
(* What the observation store promises (docs/architecture.md): the newest  *)
(* Retention interactions, oldest first, until they are cleared.  There    *)
(* are no crashes here: a restart of the program is not visible.           *)
(***************************************************************************)
EXTENDS Integers, Sequences

CONSTANT Retention

VARIABLES
    log,      \* the interactions kept
    count     \* how many were recorded; the n-th is the number n

LogInit == log = <<>> /\ count = 0

(* The last n elements of s. *)
Newest(s, n) == IF Len(s) > n THEN SubSeq(s, Len(s) - n + 1, Len(s)) ELSE s

Add ==
    /\ count' = count + 1
    /\ log' = Newest(Append(log, count'), Retention)

Forget ==
    /\ log' = <<>>
    /\ UNCHANGED count

LogNext == Add \/ Forget

logVars == <<log, count>>

LogSpec == LogInit /\ [][LogNext]_logVars
=============================================================================
