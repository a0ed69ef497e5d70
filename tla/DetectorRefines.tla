--------------------------- MODULE DetectorRefines ---------------------------
(***************************************************************************)
(* The detector implements Verdict.  The mapping reads the phase off the   *)
(* program counter and off the CrashInfo; what is due to the tainting      *)
(* instruction follows from the reorder buffer and the wires.              *)
(***************************************************************************)
EXTENDS Detector

Phase ==
  CASE pc = "done"   -> "closed"
    [] pc = "report" -> "decided"
    [] OTHER         -> IF crash.taintFound THEN "tracking" ELSE "watching"

\* A writer of identity 0 is no instruction of the buffer.
Due ==
  IF ~crash.taintFound                           THEN "none"
  ELSE IF fate # "inflight"                      THEN "gone"
  ELSE IF TaintSlots \subseteq Committing(rob, sig) THEN "commits"
  ELSE IF TaintSlots \subseteq Squashed(rob, sig)   THEN "dies"
  ELSE "stays"

Decision ==
  IF crash.isTaintArchitectural THEN "architectural"
  ELSE IF crash.flushFound      THEN "flush"
  ELSE "none"

Abs == INSTANCE Verdict WITH
         phase <- Phase, due <- Due, decision <- Decision, verdict <- verdict

\* Every behaviour of the cycle loop (main.cc:243-306), CrashInfo and the
\* decoded flush is one that Verdict allows: no squash of the tainting
\* instruction passes undecided, and each decision is one the core carries out.
ImplementsVerdict == Abs!Spec
=============================================================================
