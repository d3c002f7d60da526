------------------------- MODULE MCAdmissionRefresh --------------------------
(***************************************************************************)
(* Instances of AdmissionRefresh for TLC: the stack reader and one organ   *)
(* reader, the measured candidate service and one organ candidate.         *)
(***************************************************************************)
EXTENDS AdmissionRefresh

MCReaders == {"stack", "organ"}
MCConsumers == {"candidate", "memo"}
MCStrict == {"candidate"}
=============================================================================
