------------------------------- MODULE Verdict -------------------------------
(***************************************************************************)
(* What one run of the detector promises, without reorder buffer, wires or *)
(* branch masks: it watches until a register turns tainted, tracks the     *)
(* instruction that wrote the taint, and decides.                          *)
(*                                                                         *)
(* The promise is about the clock edges it lets pass and the decisions it  *)
(* takes.  No edge that squashes the tracked instruction passes            *)
(* undecided; a flush is blamed only if it squashes the instruction; and a *)
(* taint is called architectural only if the instruction retires.  What is *)
(* not promised is to notice every retirement: an instruction may be gone. *)
(***************************************************************************)

VARIABLES
  phase,     \* watching, tracking, decided or closed
  due,       \* what the next edge does to the tainting instruction
  decision,  \* none, flush or architectural
  verdict    \* what main does with the run

vars == <<phase, due, decision, verdict>>

Transient == {"MDS", "Spectre_v1_static", "Spectre_v1_training", "Spectre_v1_new",
              "Spectre_RSB", "Spectre_v2", "Spectre_v4", "Meltdown", "OOO",
              "Flush_Unknown"}

\* The verdicts main may give for a decision, with or without taint.
VerdictsFor(d, tainted) ==
  IF ~tainted         THEN {"clean"}
  ELSE IF d = "flush" THEN Transient
  ELSE {"No_flush"}

Dues == {"stays", "commits", "dies", "gone"}

\* What may be due after an edge: an instruction that retires is gone for good,
\* and one that is squashed is a case the detector never lets happen.
AfterEdge(d) ==
  CASE d = "none"    -> {"none"}
    [] d = "stays"   -> {"stays", "commits", "dies"}
    [] d = "commits" -> {"gone"}
    [] d = "gone"    -> {"gone"}
    [] OTHER         -> {}

Init ==
  /\ phase = "watching" /\ due = "none"
  /\ decision = "none" /\ verdict = "none"

Edge ==
  /\ phase \in {"watching", "tracking"}
  /\ due' \in AfterEdge(due)
  /\ UNCHANGED <<phase, decision, verdict>>

Taint ==
  /\ phase = "watching"
  /\ phase' = "tracking"
  /\ due' \in Dues
  /\ UNCHANGED <<decision, verdict>>

DecideFlush ==
  /\ phase = "tracking" /\ due \in {"dies", "gone"}
  /\ phase' = "decided" /\ decision' = "flush"
  /\ UNCHANGED <<due, verdict>>

DecideArchitectural ==
  /\ phase = "tracking" /\ due \in {"commits", "gone"}
  /\ phase' = "decided" /\ decision' = "architectural"
  /\ UNCHANGED <<due, verdict>>

\* The loop reaches one of its bounds.
GiveUp ==
  /\ phase \in {"watching", "tracking"}
  /\ phase' = "decided"
  /\ UNCHANGED <<due, decision, verdict>>

\* The run reaches an illegal instruction before any taint.
Exit ==
  /\ phase = "watching"
  /\ phase' = "closed" /\ verdict' = "exit"
  /\ UNCHANGED <<due, decision>>

Close ==
  /\ phase = "decided"
  /\ phase' = "closed"
  /\ verdict' \in VerdictsFor(decision, due # "none")
  /\ UNCHANGED <<due, decision>>

Next == Edge \/ Taint \/ DecideFlush \/ DecideArchitectural \/ GiveUp \/ Exit \/ Close

Spec == Init /\ [][Next]_vars
=============================================================================
