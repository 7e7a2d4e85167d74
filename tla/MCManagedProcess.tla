-------------------------- MODULE MCManagedProcess --------------------------
(* Model-checking instances of ManagedProcess: sets of process             *)
(* specifications.                                                         *)
EXTENDS ManagedProcess

CONSTANTS k1, k2, r1, r2

\* Restarted once, no health check, nothing captured.
Plain ==
  [mode |-> "always", maxRetries |-> 1, health |-> "none", retries |-> 1,
   preStop |-> FALSE, piped |-> FALSE]

Polled == [Plain EXCEPT !.health = "poll", !.retries = 2]

Watched == [Plain EXCEPT !.health = "stdout-match", !.preStop = TRUE, !.piped = TRUE]

Unattended == {Polled, [Polled EXCEPT !.maxRetries = 2],
               [Plain EXCEPT !.mode = "on-failure", !.preStop = TRUE],
               [Plain EXCEPT !.mode = "never"]}

Attended == {Watched, [Plain EXCEPT !.preStop = TRUE]}

Mixed == Unattended \cup Attended

\* A polled process with a pre-stop command.
PolledPreStop == {[Polled EXCEPT !.preStop = TRUE]}

PlainOnly == {Plain}

PolledOnly == {Polled}

Captured == {[Plain EXCEPT !.piped = TRUE]}

Unexpected == {[Plain EXCEPT !.mode = "on-unexpected-exit"]}

NeverRestarted == {[Plain EXCEPT !.mode = "never"]}
=============================================================================
