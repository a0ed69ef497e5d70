--------------------------- MODULE CampaignProofs ---------------------------
(***************************************************************************)
(* What bug_timings is worth, for any number of fuzzers, names, causes and *)
(* expected bugs.                                                          *)
(*                                                                         *)
(* A line stays right while causes are added, since they are added at the  *)
(* end.  That every bug found has a first cause is part of the invariant:  *)
(* it grows with the causes, so that no induction over them is needed.     *)
(***************************************************************************)
EXTENDS Campaign, TLAPS

\* Every cause has a first one of its name.
HasFirst ==
  \A i \in 1..Len(causes) : \E k \in 1..Len(causes) :
    causes[k] = causes[i] /\ \A j \in 1..(k - 1) : causes[j] # causes[k]

\* How far the helper has come, and what it has by then.
Progress ==
  /\ helper \in {"found", "open", "scanned", "written", "done"} => FoundAll
  /\ helper = "scanned" => Covers(dict) /\ \A l \in dict : IsFirst(l)
  /\ helper \in {"polling", "found"} => timings.state = "missing"
  /\ helper \in {"open", "scanned"} => timings.state = "open"
  /\ helper \in {"written", "done"} => timings.state = "written"

\* A main fuzzer that is gone was stopped from outside or by the helper.
MainGone ==
  /\ Main \notin alive => interrupted \/ timings.state = "written"
  /\ script # "waiting" => Main \notin alive
  /\ script = "exited" => helper \in {"done", "gone"}
  /\ eval = "gave_up" => script = "exited" /\ timings.lines = {}

IInv == TypeOK /\ HasFirst /\ Progress /\ TimingsAreFirst /\ MainGone

\* A new cause (Classification.h's report) leaves the earlier ones alone.
LEMMA CausesGrow ==
  ASSUME IInv, NEW raw \in Raw, causes' = Append(causes, raw)
  PROVE  /\ causes' \in Seq(Raw)
         /\ Len(causes) \in Nat /\ Len(causes') = Len(causes) + 1
         /\ \A i \in 1..Len(causes) : causes'[i] = causes[i]
         /\ causes'[Len(causes')] = raw
BY DEF IInv, TypeOK

\* A line that is right stays right when a cause is added.
LEMMA FirstStays ==
  ASSUME IInv, NEW raw \in Raw, causes' = Append(causes, raw),
         NEW l \in Raw \X Nat, IsFirst(l)
  PROVE  IsFirst(l)'
<1>1. /\ Len(causes) \in Nat /\ Len(causes') = Len(causes) + 1
      /\ \A i \in 1..Len(causes) : causes'[i] = causes[i]
  BY CausesGrow
<1>2. l[2] \in Nat /\ l' = l
  OBVIOUS
<1> QED BY <1>1, <1>2 DEF IsFirst

\* Every cause still has a first one of its name when a cause is added.
LEMMA HasFirstStays ==
  ASSUME IInv, NEW raw \in Raw, causes' = Append(causes, raw)
  PROVE  HasFirst'
<1> DEFINE n == Len(causes)
<1>1. /\ n \in Nat /\ Len(causes') = n + 1
      /\ \A i \in 1..n : causes'[i] = causes[i]
      /\ causes'[n + 1] = raw
  BY CausesGrow
<1>2. \A i \in 1..n : \E k \in 1..n :
        causes[k] = causes[i] /\ \A j \in 1..(k - 1) : causes[j] # causes[k]
  BY DEF IInv, HasFirst
<1>3. ASSUME NEW i \in 1..n
      PROVE  \E k \in 1..n :
               causes'[k] = causes'[i] /\ \A j \in 1..(k - 1) : causes'[j] # causes'[k]
  <2>1. PICK k \in 1..n :
          causes[k] = causes[i] /\ \A j \in 1..(k - 1) : causes[j] # causes[k]
    BY <1>2
  <2>2. \A j \in 1..(k - 1) : j \in 1..n
    BY <1>1
  <2> QED BY <2>1, <2>2, <1>1
<1>4. \E k \in 1..(n + 1) :
        causes'[k] = raw /\ \A j \in 1..(k - 1) : causes'[j] # causes'[k]
  <2>1. CASE \E i \in 1..n : causes[i] = raw
    <3>1. PICK i \in 1..n : causes[i] = raw
      BY <2>1
    <3> QED BY <3>1, <1>1, <1>3
  <2>2. CASE ~\E i \in 1..n : causes[i] = raw
    <3>1. \A j \in 1..n : causes'[j] # causes'[n + 1]
      BY <2>2, <1>1
    <3>2. n + 1 \in 1..(n + 1) /\ (n + 1) - 1 = n
      BY <1>1
    <3> HIDE DEF n
    <3> QED BY <1>1, <3>1, <3>2
  <2> QED BY <2>1, <2>2
<1> HIDE DEF n
<1>5. \A i \in 1..(n + 1) : \E k \in 1..(n + 1) :
        causes'[k] = causes'[i] /\ \A j \in 1..(k - 1) : causes'[j] # causes'[k]
  <2> TAKE i \in 1..(n + 1)
  <2>1. CASE i \in 1..n
    <3>1. PICK k \in 1..n :
            causes'[k] = causes'[i] /\ \A j \in 1..(k - 1) : causes'[j] # causes'[k]
      BY <2>1, <1>3
    <3>2. k \in 1..(n + 1)
      BY <1>1
    <3> QED BY <3>1, <3>2
  <2>2. CASE i = n + 1
    BY <2>2, <1>1, <1>4
  <2> QED BY <2>1, <2>2, <1>1
<1>6. Len(causes') = n + 1
  BY <1>1
<1> QED BY <1>5, <1>6, Zenon DEF HasFirst

\* The invariant holds when the script has started the fuzzers and the helper.
LEMMA InitInv == Init => IInv
<1> SUFFICES ASSUME Init PROVE IInv
  OBVIOUS
<1> USE CampaignAssumption DEF Init
<1>1. TypeOK
  <2>1. causes \in Seq(Raw) /\ expected \in SUBSET Names
    OBVIOUS
  <2>2. timings \in [state : {"missing", "open", "written"}, lines : SUBSET (Raw \X Nat)]
    OBVIOUS
  <2> QED BY <2>1, <2>2 DEF TypeOK
<1>2. HasFirst /\ TimingsAreFirst
  BY DEF HasFirst, TimingsAreFirst
<1>3. Progress /\ MainGone
  BY DEF Progress, MainGone
<1> QED BY <1>1, <1>2, <1>3 DEF IInv

\* A fuzzer finds a bug.
LEMMA FindBugInv ==
  ASSUME IInv, NEW f \in Fuzzers, NEW raw \in Raw, FindBug(f, raw)
  PROVE  IInv'
<1>1. /\ causes' = Append(causes, raw)
      /\ UNCHANGED <<expected, alive, helper, dict, timings, script, interrupted, eval>>
  BY DEF FindBug
<1>2. TypeOK'
  BY <1>1, CausesGrow DEF IInv, TypeOK
<1>3. HasFirst'
  BY <1>1, HasFirstStays
<1>4. ASSUME NEW lines \in SUBSET (Raw \X Nat), \A l \in lines : IsFirst(l)
      PROVE  \A l \in lines : IsFirst(l)'
  BY <1>1, <1>4, FirstStays
<1>5. TimingsAreFirst'
  <2>1. timings.lines \in SUBSET (Raw \X Nat)
    BY DEF IInv, TypeOK
  <2>2. CASE timings.state = "written"
    <3>1. Covers(timings.lines) /\ \A l \in timings.lines : IsFirst(l)
      BY <2>2 DEF IInv, TimingsAreFirst
    <3>2. \A l \in timings.lines : IsFirst(l)'
      BY <1>4, <2>1, <3>1
    <3> QED BY <1>1, <3>1, <3>2 DEF TimingsAreFirst, Covers, IsFirst
  <2> QED BY <1>1, <2>2 DEF TimingsAreFirst
<1>6. FoundAll => FoundAll'
  BY <1>1, CausesGrow DEF FoundAll, get_found_bugs
<1>7. Progress'
  <2>1. dict \in SUBSET (Raw \X Nat)
    BY DEF IInv, TypeOK
  <2>2. helper = "scanned" => Covers(dict) /\ \A l \in dict : IsFirst(l)'
    BY <1>4, <2>1 DEF IInv, Progress
  <2>3. helper = "scanned" => Covers(dict)' /\ (\A l \in dict : IsFirst(l))'
    BY <1>1, <2>2 DEF Covers, IsFirst
  <2> QED BY <1>1, <1>6, <2>3 DEF IInv, Progress
<1>8. MainGone'
  BY <1>1 DEF IInv, MainGone
<1> QED BY <1>2, <1>3, <1>5, <1>7, <1>8 DEF IInv

\* What the scan of the helper finds is right and complete.
LEMMA ScanIsRight ==
  ASSUME IInv, FoundAll
  PROVE  /\ get_found_bugs_with_time \in SUBSET (Raw \X Nat)
         /\ \A l \in get_found_bugs_with_time : IsFirst(l)
         /\ Covers(get_found_bugs_with_time)
<1>1. causes \in Seq(Raw) /\ Len(causes) \in Nat /\ \A i \in 1..Len(causes) : causes[i] \in Raw
  BY DEF IInv, TypeOK
<1>2. get_found_bugs_with_time \in SUBSET (Raw \X Nat)
  BY <1>1 DEF get_found_bugs_with_time
<1>3. \A l \in get_found_bugs_with_time : IsFirst(l)
  BY <1>1 DEF get_found_bugs_with_time, IsFirst
<1>4. ASSUME NEW b \in expected
      PROVE  \E l \in get_found_bugs_with_time : Spaced[l[1]] = b
  <2>1. PICK i \in 1..Len(causes) : Spaced[causes[i]] = b
    BY DEF FoundAll, get_found_bugs
  <2>2. PICK k \in 1..Len(causes) :
          causes[k] = causes[i] /\ \A j \in 1..(k - 1) : causes[j] # causes[k]
    BY DEF IInv, HasFirst
  <2>3. <<causes[k], k>> \in get_found_bugs_with_time
    BY <2>2 DEF get_found_bugs_with_time
  <2> QED BY <2>1, <2>2, <2>3
<1> QED BY <1>2, <1>3, <1>4 DEF Covers

\* A fuzzer stops.
LEMMA StopInv ==
  ASSUME IInv, NEW f \in Fuzzers, Stop(f)
  PROVE  IInv'
<1> USE DEF Stop, IInv
<1>1. TypeOK'
  BY DEF TypeOK
<1>2. HasFirst' /\ TimingsAreFirst'
  BY DEF HasFirst, TimingsAreFirst, Covers, IsFirst
<1>3. Progress'
  BY DEF Progress, FoundAll, get_found_bugs, Covers, IsFirst
<1>4. MainGone'
  BY DEF MainGone
<1> QED BY <1>1, <1>2, <1>3, <1>4

\* The helper takes a step.
LEMMA HelperInv ==
  ASSUME IInv, HelperStep
  PROVE  IInv'
<1>1. HasFirst'
  BY DEF IInv, HasFirst, HelperStep, Poll, OpenTimings, ScanTimes, CloseTimings, KillFuzzers
<1>2. TypeOK'
  <2>1. CASE ScanTimes
    <3>1. FoundAll
      BY <2>1 DEF IInv, Progress, ScanTimes
    <3> QED BY <2>1, <3>1, ScanIsRight DEF IInv, TypeOK, ScanTimes
  <2>2. CASE Poll \/ OpenTimings \/ CloseTimings \/ KillFuzzers
    BY <2>2 DEF IInv, TypeOK, Poll, OpenTimings, CloseTimings, KillFuzzers, Survivors
  <2> QED BY <2>1, <2>2 DEF HelperStep
<1>3. Progress' /\ TimingsAreFirst' /\ MainGone'
  <2>1. CASE Poll
    BY <2>1 DEF IInv, Poll, Progress, TimingsAreFirst, MainGone, FoundAll,
                get_found_bugs, Covers, IsFirst
  <2>2. CASE OpenTimings
    <3>1. FoundAll' /\ timings.state = "missing"
      BY <2>2 DEF IInv, Progress, OpenTimings, FoundAll, get_found_bugs
    <3>2. Progress' /\ TimingsAreFirst'
      BY <2>2, <3>1 DEF OpenTimings, Progress, TimingsAreFirst
    <3>3. MainGone'
      BY <2>2, <3>1 DEF IInv, OpenTimings, MainGone
    <3> QED BY <3>2, <3>3
  <2>3. CASE ScanTimes
    <3>1. FoundAll /\ timings.state = "open"
      BY <2>3 DEF IInv, Progress, ScanTimes
    <3>2. FoundAll'
      BY <2>3, <3>1 DEF ScanTimes, FoundAll, get_found_bugs
    <3>3. Covers(dict') /\ \A l \in dict' : IsFirst(l)
      BY <2>3, <3>1, ScanIsRight DEF ScanTimes
    <3>4. Covers(dict)' /\ (\A l \in dict : IsFirst(l))'
      BY <2>3, <3>3 DEF ScanTimes, Covers, IsFirst
    <3>5. Progress' /\ TimingsAreFirst'
      BY <2>3, <3>1, <3>2, <3>4 DEF ScanTimes, Progress, TimingsAreFirst
    <3>6. MainGone'
      BY <2>3, <3>1 DEF IInv, ScanTimes, MainGone
    <3> QED BY <3>5, <3>6
  <2>4. CASE CloseTimings
    <3>1. FoundAll' /\ timings.state = "open"
      BY <2>4 DEF IInv, Progress, CloseTimings, FoundAll, get_found_bugs
    <3>2. Covers(dict) /\ \A l \in dict : IsFirst(l)
      BY <2>4 DEF IInv, Progress, CloseTimings
    <3>3. TimingsAreFirst'
      BY <2>4, <3>2 DEF CloseTimings, TimingsAreFirst, Covers, IsFirst
    <3>4. Progress'
      BY <2>4, <3>1 DEF CloseTimings, Progress
    <3>5. MainGone'
      <4>1. timings' = [state |-> "written", lines |-> dict] /\ UNCHANGED <<alive, script, eval>>
        BY <2>4 DEF CloseTimings
      <4> QED BY <4>1, <2>4 DEF IInv, MainGone, CloseTimings
    <3> QED BY <3>3, <3>4, <3>5
  <2>5. CASE KillFuzzers
    <3>1. FoundAll' /\ timings.state = "written"
      BY <2>5 DEF IInv, Progress, KillFuzzers, KillFrom, FoundAll, get_found_bugs
    <3>2. Progress' /\ MainGone'
      BY <2>5, <3>1 DEF IInv, KillFuzzers, Survivors, Progress, MainGone
    <3>3. TimingsAreFirst'
      BY <2>5 DEF IInv, KillFuzzers, TimingsAreFirst, Covers, IsFirst
    <3> QED BY <3>2, <3>3
  <2> QED BY <2>1, <2>2, <2>3, <2>4, <2>5 DEF HelperStep
<1> QED BY <1>1, <1>2, <1>3 DEF IInv

\* The script or the evaluation takes a step.
LEMMA ScriptInv ==
  ASSUME IInv, ScriptStep \/ Evaluate
  PROVE  IInv'
<1> USE DEF ScriptStep, Cleanup, Exit, Evaluate
<1>1. TypeOK'
  BY DEF IInv, TypeOK
<1>2. HasFirst' /\ TimingsAreFirst'
  BY DEF IInv, HasFirst, TimingsAreFirst, Covers, IsFirst
<1>3. Progress'
  BY DEF IInv, Progress, FoundAll, get_found_bugs, Covers, IsFirst
<1>4. MainGone'
  BY CampaignAssumption DEF IInv, MainGone
<1> QED BY <1>1, <1>2, <1>3, <1>4 DEF IInv

\* Every step of the campaign keeps the invariant.
LEMMA NextInv == IInv /\ [Next]_vars => IInv'
<1> SUFFICES ASSUME IInv, [Next]_vars PROVE IInv'
  OBVIOUS
<1>1. ASSUME NEW f \in Fuzzers, Stop(f) PROVE IInv'
  BY <1>1, StopInv
<1>2. ASSUME NEW f \in Fuzzers, NEW raw \in Raw, FindBug(f, raw) PROVE IInv'
  BY <1>2, FindBugInv
<1>3. CASE HelperStep
  BY <1>3, HelperInv
<1>4. CASE ScriptStep \/ Evaluate
  BY <1>4, ScriptInv
<1>5. CASE UNCHANGED vars
  <2>1. TypeOK' /\ HasFirst'
    BY <1>5 DEF IInv, vars, TypeOK, HasFirst
  <2>2. TimingsAreFirst' /\ MainGone'
    BY <1>5 DEF IInv, vars, TimingsAreFirst, MainGone, Covers, IsFirst
  <2>3. Progress'
    BY <1>5 DEF IInv, vars, Progress, FoundAll, get_found_bugs, Covers, IsFirst
  <2> QED BY <2>1, <2>2, <2>3 DEF IInv
<1> QED BY <1>1, <1>2, <1>3, <1>4, <1>5 DEF Next, Done

\* The invariant holds in every state of a campaign.
THEOREM CampaignInvariant == Spec => []IInv
BY InitInv, NextInv, PTL DEF Spec

\* The variables of script, helper and evaluation always have their types.
THEOREM CampaignType == Spec => []TypeOK
<1>1. IInv => TypeOK
  BY DEF IInv
<1> QED BY <1>1, CampaignInvariant, PTL

\* bug_timings, once written, has every expected bug with its first time.
THEOREM TimingsCorrect == Spec => []TimingsAreFirst
<1>1. IInv => TimingsAreFirst
  BY DEF IInv
<1> QED BY <1>1, CampaignInvariant, PTL

\* A campaign of which the evaluation makes nothing was interrupted, or had
\* nothing to find: the helper kills only when the timings are complete.
THEOREM GaveUpExplained == Spec => []GaveUpMeansInterrupted
<1>1. IInv => GaveUpMeansInterrupted
  <2> SUFFICES ASSUME IInv, eval = "gave_up", ~interrupted PROVE expected = {}
    BY DEF GaveUpMeansInterrupted
  <2>1. timings.lines = {} /\ timings.state = "written"
    BY DEF IInv, MainGone
  <2>2. Covers({})
    BY <2>1 DEF IInv, TimingsAreFirst
  <2> QED BY <2>2 DEF Covers
<1> QED BY <1>1, CampaignInvariant, PTL

\* The helper's kill: it happens only when all expected bugs have been found and
\* their times are in the file (afl_helper.py:75-89).
KillIsLast ==
  helper = "done" =>
    FoundAll /\ timings.state = "written" /\ Covers(timings.lines)

\* The fuzzers are killed only for a complete result.
THEOREM KillAfterResult == Spec => []KillIsLast
<1>1. IInv => KillIsLast
  BY DEF IInv, Progress, TimingsAreFirst, KillIsLast
<1> QED BY <1>1, CampaignInvariant, PTL
=============================================================================
