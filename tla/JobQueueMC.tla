----------------------------- MODULE JobQueueMC -----------------------------
(* A finite instance of JobQueue for TLC. *)
EXTENDS JobQueue

\* A bulk call of two payloads, and a call that repeats it with one.
MCCallers == {"a", "b"}
MCItems == [c \in MCCallers |-> IF c = "a" THEN 2 ELSE 1]
MCBaseKey == [c \in MCCallers |-> "k"]

\* One cancel or retry, of the first job.
MCControls == {"x"}
MCSubject == [x \in MCControls |-> <<"a", 1>>]
=============================================================================
