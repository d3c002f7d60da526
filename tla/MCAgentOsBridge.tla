---------------------------- MODULE MCAgentOsBridge ----------------------------
(* Model values for TLC: the commands clients may send and the lanes. *)
EXTENDS AgentOsBridge, TLC

CONSTANTS s1, s2, s3, start1, start2, resume1, resume2, pause1, cancel1

MCKindOf == [c \in Commands |->
    CASE c \in {start1, start2} -> "start"
      [] c \in {resume1, resume2} -> "resume"
      [] c = pause1 -> "pause"
      [] OTHER -> "cancel"]

\* A key per command, but the second start's key comes again under the second
\* resume: payload drift.
MCKeyOf == [c \in Commands |-> IF c = resume2 THEN start2 ELSE c]

\* The first session changes a repository, the others only read.
MCLaneOf == [s \in Runs |->
    CASE s = s1 -> "governed_repository_change"
      [] s = s2 -> "a2a_return_review"
      [] OTHER  -> "runtime_degradation_recovery"]

=============================================================================
