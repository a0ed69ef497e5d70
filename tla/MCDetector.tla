----------------------------- MODULE MCDetector -----------------------------
(***************************************************************************)
(* Small programs for Detector.                                            *)
(***************************************************************************)
EXTENDS DetectorRefines

\* A branch and an integer load.
IntPCs == {"br", "ld"}
IntUop == [br |-> "branch", ld |-> "load"]

\* Loads into both register files.
LoadPCs == {"ld", "fld"}
LoadUop == [ld |-> "load", fld |-> "fpload"]

\* Every class of instruction, for one bank.
AllPCs == {"br", "ret", "jmp", "ld", "fld", "ill", "bad", "fence"}
AllUop == [br |-> "branch", ret |-> "ret", jmp |-> "jump", ld |-> "load",
           fld |-> "fpload", ill |-> "illegal", bad |-> "badfetch",
           fence |-> "fence"]
=============================================================================
