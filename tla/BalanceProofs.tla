--------------------------- MODULE BalanceProofs ---------------------------
(***************************************************************************)
(* The abort protocol and the cutoffs of btrfs_balance.sh, for all sizes,  *)
(* cutoffs and numbers of faults, abort requests and power cuts.           *)
(***************************************************************************)
EXTENDS Balance, TLAPS

\* A request that no run has heeded is still on disk, and between the test that
\* has not met it and the start no balance has been started since.
AbortSeen ==
    /\ asked => abort # None
    /\ pc = "balance" /\ asked => started = 0

\* A run that works has a cutoff of at least 5, and its target is within it.
Climbing ==
    /\ MAX_TARGET \in Nat
    /\ pc \in {"test_abort", "balance", "sleep", "wasted"} =>
          /\ MAX_TARGET >= 5
          /\ usage_target <= Cutoff

\* Between get_usages and the append of the cutoff the cache file exists.
CacheWritten == pc = "decide" => cache \in Caches

Inv == TypeOK /\ CacheWritten /\ AbortStopsRun /\ AbortSeen /\ Climbing

LEMMA InitInv == Init => Inv
<1> SUFFICES ASSUME Init PROVE Inv
    OBVIOUS
<1>1. TypeOK
    BY DEF Init, TypeOK
<1>2. AbortStopsRun /\ AbortSeen
    BY DEF Init, AbortStopsRun, AbortSeen
<1>3. Climbing /\ CacheWritten
    BY DEF Init, Climbing, CacheWritten
<1> QED
    BY <1>1, <1>2, <1>3 DEF Inv

\* Both cutoffs are at least 5, whatever the sizes.
LEMMA ThresholdsClimb == \A d : {THRESH1(d), THRESH2(d)} \subseteq Nat \ (0..4)
BY TargetsAssumption DEF THRESH1, THRESH2

LEMMA NextInv == Inv /\ [Next]_vars => Inv'
<1> SUFFICES ASSUME Inv, [Next]_vars PROVE Inv'
    OBVIOUS
<1> USE SizesAssumption DEF files, run, hist, bounds, Fault, NoFault
<1>1. CASE Begin
    <2>1. TypeOK'
        BY <1>1 DEF Inv, TypeOK, CacheWritten, Begin, Sizes, Caches
    <2>2. AbortStopsRun' /\ AbortSeen'
        BY <1>1 DEF Inv, TypeOK, AbortStopsRun, AbortSeen, Begin
    <2>3. Climbing' /\ CacheWritten'
        BY <1>1 DEF Inv, TypeOK, Climbing, CacheWritten, Cutoff, Begin
    <2> QED
        BY <2>1, <2>2, <2>3 DEF Inv
<1>2. CASE get_usages
    <2>1. TypeOK'
        BY <1>2 DEF Inv, TypeOK, CacheWritten, get_usages, Sizes, Caches
    <2>2. AbortStopsRun' /\ AbortSeen'
        BY <1>2 DEF Inv, TypeOK, AbortStopsRun, AbortSeen, get_usages
    <2>3. Climbing' /\ CacheWritten'
        BY <1>2 DEF Inv, TypeOK, Climbing, CacheWritten, Cutoff, get_usages, Sizes, Caches
    <2> QED
        BY <2>1, <2>2, <2>3 DEF Inv
<1>3. CASE Decide
    <2>1. (\E t \in Nat \ (0..4) : Work(t)) \/ Skip
        BY <1>3, ThresholdsClimb DEF Decide
    <2>2. CASE \E t \in Nat \ (0..4) : Work(t)
        <3>1. PICK t \in Nat \ (0..4) : Work(t)
            BY <2>2
        <3>2. cache' \in Caches
            BY <1>3, <3>1 DEF Inv, CacheWritten, Decide, Work, Caches
        <3>3. TypeOK'
            BY <1>3, <3>1, <3>2 DEF Inv, TypeOK, Decide, Work
        <3>4. AbortStopsRun' /\ AbortSeen' /\ Climbing' /\ CacheWritten'
            BY <1>3, <3>1 DEF Inv, TypeOK, AbortStopsRun, AbortSeen, Climbing,
                              CacheWritten, Cutoff, Decide, Work
        <3> QED
            BY <3>3, <3>4 DEF Inv
    <2>3. CASE Skip
        BY <1>3, <2>3 DEF Inv, TypeOK, AbortStopsRun, AbortSeen, Climbing,
                          CacheWritten, Cutoff, Decide, Skip
    <2> QED
        BY <2>1, <2>2, <2>3
<1>4. CASE TestAbort
    <2>1. TypeOK'
        BY <1>4 DEF Inv, TypeOK, CacheWritten, TestAbort, Sizes, Caches
    <2>2. AbortStopsRun' /\ AbortSeen'
        BY <1>4 DEF Inv, TypeOK, AbortStopsRun, AbortSeen, TestAbort
    <2>3. Climbing' /\ CacheWritten'
        BY <1>4 DEF Inv, TypeOK, Climbing, CacheWritten, Cutoff, TestAbort
    <2> QED
        BY <2>1, <2>2, <2>3 DEF Inv
<1>5. CASE StartBalance
    <2>1. TypeOK'
        <3>1. disk' \in Sizes /\ faults' \in Nat /\ started' \in Nat
            BY <1>5 DEF Inv, TypeOK, StartBalance, Sizes
        <3> QED
            BY <1>5, <3>1, Zenon DEF Inv, TypeOK, StartBalance
    <2>2. AbortStopsRun' /\ AbortSeen'
        BY <1>5 DEF Inv, TypeOK, AbortStopsRun, AbortSeen, StartBalance
    <2>3. Climbing' /\ CacheWritten'
        BY <1>5 DEF Inv, TypeOK, Climbing, CacheWritten, Cutoff, StartBalance
    <2> QED
        BY <2>1, <2>2, <2>3 DEF Inv
<1>6. CASE SleepAfterClean
    <2>1. TypeOK'
        BY <1>6 DEF Inv, TypeOK, CacheWritten, SleepAfterClean, Enter, Leave, Sizes, Caches
    <2>2. AbortStopsRun' /\ AbortSeen'
        BY <1>6 DEF Inv, TypeOK, AbortStopsRun, AbortSeen, SleepAfterClean, Enter, Leave
    <2>3. Climbing' /\ CacheWritten'
        BY <1>6, TargetsAssumption DEF Inv, TypeOK, Climbing, CacheWritten, Cutoff, SleepAfterClean, Enter, Leave
    <2> QED
        BY <2>1, <2>2, <2>3 DEF Inv
<1>7. CASE SleepInLoop
    <2>1. TypeOK'
        BY <1>7 DEF Inv, TypeOK, CacheWritten, SleepInLoop, NextPhase, Enter, Leave, Again, Sizes, Caches
    <2>2. AbortStopsRun' /\ AbortSeen'
        BY <1>7 DEF Inv, TypeOK, AbortStopsRun, AbortSeen, SleepInLoop, NextPhase, Enter, Leave, Again
    <2>3. Climbing' /\ CacheWritten'
        BY <1>7, TargetsAssumption DEF Inv, TypeOK, Climbing, CacheWritten, Cutoff, SleepInLoop, NextPhase, Enter, Leave, Again
    <2> QED
        BY <2>1, <2>2, <2>3 DEF Inv
<1>8. CASE LoopTest
    <2>1. TypeOK'
        BY <1>8 DEF Inv, TypeOK, CacheWritten, LoopTest, NextPhase, Enter, Leave, Sizes, Caches
    <2>2. AbortStopsRun' /\ AbortSeen'
        BY <1>8 DEF Inv, TypeOK, AbortStopsRun, AbortSeen, LoopTest, NextPhase, Enter, Leave
    <2>3. Climbing' /\ CacheWritten'
        BY <1>8, TargetsAssumption DEF Inv, TypeOK, Climbing, CacheWritten, Cutoff, LoopTest, NextPhase, Enter, Leave
    <2> QED
        BY <2>1, <2>2, <2>3 DEF Inv
<1>9. CASE Finish
    <2>1. TypeOK'
        BY <1>9 DEF Inv, TypeOK, CacheWritten, Finish, Sizes, Caches
    <2>2. AbortStopsRun' /\ AbortSeen'
        BY <1>9 DEF Inv, TypeOK, AbortStopsRun, AbortSeen, Finish
    <2>3. Climbing' /\ CacheWritten'
        BY <1>9 DEF Inv, TypeOK, Climbing, CacheWritten, Cutoff, Finish
    <2> QED
        BY <2>1, <2>2, <2>3 DEF Inv
<1>10. CASE RequestAbort
    <2>1. TypeOK'
        BY <1>10 DEF Inv, TypeOK, CacheWritten, RequestAbort, Sizes, Caches
    <2>2. AbortStopsRun' /\ AbortSeen'
        BY <1>10 DEF Inv, TypeOK, AbortStopsRun, AbortSeen, RequestAbort
    <2>3. Climbing' /\ CacheWritten'
        BY <1>10 DEF Inv, TypeOK, Climbing, CacheWritten, Cutoff, RequestAbort
    <2> QED
        BY <2>1, <2>2, <2>3 DEF Inv
<1>11. CASE DayPasses
    <2>1. TypeOK'
        BY <1>11 DEF Inv, TypeOK, CacheWritten, DayPasses, Sizes, Caches
    <2>2. AbortStopsRun' /\ AbortSeen'
        BY <1>11 DEF Inv, TypeOK, AbortStopsRun, AbortSeen, DayPasses
    <2>3. Climbing' /\ CacheWritten'
        BY <1>11 DEF Inv, TypeOK, Climbing, CacheWritten, Cutoff, DayPasses
    <2> QED
        BY <2>1, <2>2, <2>3 DEF Inv
<1>12. CASE PowerCut
    <2>1. TypeOK'
        <3>1. crashes' \in Nat
            BY <1>12 DEF Inv, TypeOK, PowerCut
        <3>2. abort' \in {None, "fresh", "stale"} /\ asked' \in BOOLEAN
            BY <1>12, Zenon DEF PowerCut
        <3> QED
            BY <1>12, <3>1, <3>2, Zenon DEF Inv, TypeOK, PowerCut
    <2>2. AbortStopsRun' /\ AbortSeen'
        BY <1>12 DEF Inv, TypeOK, AbortStopsRun, AbortSeen, PowerCut
    <2>3. Climbing' /\ CacheWritten'
        BY <1>12 DEF Inv, TypeOK, Climbing, CacheWritten, Cutoff, PowerCut
    <2> QED
        BY <2>1, <2>2, <2>3 DEF Inv
<1>13. CASE WriteDisk
    <2>1. TypeOK'
        BY <1>13 DEF Inv, TypeOK, CacheWritten, WriteDisk, Sizes, Caches
    <2>2. AbortStopsRun' /\ AbortSeen'
        BY <1>13 DEF Inv, TypeOK, AbortStopsRun, AbortSeen, WriteDisk
    <2>3. Climbing' /\ CacheWritten'
        BY <1>13 DEF Inv, TypeOK, Climbing, CacheWritten, Cutoff, WriteDisk
    <2> QED
        BY <2>1, <2>2, <2>3 DEF Inv
<1>14. CASE UNCHANGED vars
    BY <1>14 DEF Inv, TypeOK, CacheWritten, AbortStopsRun, AbortSeen, Climbing, Cutoff, vars
<1> QED
    BY <1>1, <1>2, <1>3, <1>4, <1>5, <1>6, <1>7, <1>8, <1>9, <1>10, <1>11, <1>12, <1>13, <1>14 DEF Next, Step

\* Every variable keeps its type; usage_target in particular never falls below
\* zero by the steps back after failures.
THEOREM TypeCorrect == Spec => []TypeOK
<1>1. Inv => TypeOK
    BY DEF Inv
<1> QED
    BY <1>1, InitInv, NextInv, PTL DEF Spec

\* At most one balance is started between an abort request and the run that
\* heeds it, for any number of requests, power cuts and failures.
THEOREM AbortIsPrompt == Spec => []AbortStopsRun
<1>1. Inv => AbortStopsRun
    BY DEF Inv
<1> QED
    BY <1>1, InitInv, NextInv, PTL DEF Spec

\* No balance is started with a target beyond the cutoff of its phase, for all
\* cutoffs of at least 5.
THEOREM CutoffIsKept == Spec => []WithinCutoff
<1>1. Inv => WithinCutoff
    BY DEF Inv, Climbing, WithinCutoff
<1> QED
    BY <1>1, InitInv, NextInv, PTL DEF Spec

----------------------------------------------------------------------------
(* Skipped runs.  The total size is not compared with the cached one, so   *)
(* what follows is about a file system that is not resized.                *)

NotResized == \A t, u \in Tot : t = u

\* If the cache c takes the sizes d for unchanged, cutoffs of d were tried: the
\* first one, and it is the one on record, or both.
EarnedFor(c, d) ==
    Unchanged(c, d) =>
        \/ c.target = THRESH1(d) /\ THRESH1(d) \in tried
        \/ {THRESH1(d), THRESH2(d)} \subseteq tried

\* The cache has the sizes that this run has read.
CacheIsSeen == cache \in Caches /\ cache.alloc = seen.alloc /\ cache.used = seen.used

\* A run that works uses the next cutoff of its sizes, and records it.
NextCutoff ==
    /\ exit_code = 0 /\ cache.target = MAX_TARGET
    /\ \/ MAX_TARGET = THRESH1(seen)
       \/ MAX_TARGET = THRESH2(seen) /\ THRESH1(seen) \in tried

\* Strengthens SkipsAreEarned: what the cache stands for at each label.
Earned ==
    aborts = 0 /\ crashes = 0 /\ faults = 0 =>
        /\ abort = None
        /\ pc \in {"idle", "usages"} => \A d \in Sizes : EarnedFor(cache, d)
        /\ pc = "usages" => exit_code = 0
        /\ pc = "decide" => CacheIsSeen /\ EarnedFor(CACHED, seen) /\ exit_code = 0
        /\ pc \in {"test_abort", "balance", "sleep", "wasted"} => CacheIsSeen /\ NextCutoff
        /\ pc = "finish" =>
               CacheIsSeen /\ (NextCutoff \/ {THRESH1(seen), THRESH2(seen)} \subseteq tried)

\* Sizes that the cache takes for those of this run have the same cutoffs.
LEMMA SameCutoffs ==
    ASSUME NotResized, TypeOK, CacheIsSeen, NEW d \in Sizes, Unchanged(cache, d)
    PROVE  THRESH1(d) = THRESH1(seen) /\ THRESH2(d) = THRESH2(seen)
<1>1. d.tot = seen.tot /\ d.alloc = seen.alloc
    BY DEF NotResized, TypeOK, CacheIsSeen, Unchanged, Sizes
<1> QED
    BY <1>1 DEF THRESH1, THRESH2, more_usage

\* Nothing is counted down.
LEMMA BalanceCountsGrow ==
    ASSUME Inv, [Next]_vars
    PROVE  /\ aborts' \in {aborts, aborts + 1} /\ crashes' \in {crashes, crashes + 1}
           /\ faults' \in {faults, faults + 1}
BY Zenon
DEF Next, Step, Begin, get_usages, Decide, TestAbort, StartBalance, SleepAfterClean,
    SleepInLoop, LoopTest, Finish, RequestAbort, DayPasses, PowerCut, WriteDisk, vars,
    bounds, Fault, NoFault

LEMMA EarnedStep ==
    ASSUME NotResized, Inv, Earned, [Next]_vars
    PROVE  Earned'
<1> USE DEF files, run, hist, bounds, NoFault
<1>1. SUFFICES ASSUME aborts' = 0, crashes' = 0, faults' = 0
               PROVE  Earned'
    BY DEF Earned
<1>2. /\ aborts = 0 /\ crashes = 0 /\ faults = 0 /\ TypeOK /\ abort = None
      /\ ~Fault
    BY <1>1, BalanceCountsGrow DEF Inv, TypeOK, Earned, Fault
<1>3. CASE Begin
    BY <1>2, <1>3 DEF Begin, Earned, EarnedFor
<1>4. CASE get_usages
    <2>1. /\ pc = "usages" /\ pc' = "decide" /\ CACHED' = cache /\ seen' = disk
          /\ cache' = [used |-> disk.used, alloc |-> disk.alloc, target |-> None]
          /\ tried' = IF Unchanged(cache, disk) THEN tried ELSE {}
          /\ UNCHANGED <<abort, exit_code>>
        BY <1>4 DEF get_usages
    <2>2. CacheIsSeen'
        BY <1>2, <2>1 DEF TypeOK, CacheIsSeen, Caches, Sizes
    <2>3. EarnedFor(cache, disk) /\ exit_code = 0
        BY <1>2, <2>1 DEF TypeOK, Earned
    <2>4. EarnedFor(CACHED, seen)'
        BY <2>1, <2>3 DEF EarnedFor
    <2> QED
        BY <1>2, <2>1, <2>2, <2>3, <2>4 DEF Earned
<1>5. CASE Decide
    <2>1. /\ pc = "decide" /\ CacheIsSeen /\ EarnedFor(CACHED, seen) /\ exit_code = 0
          /\ UNCHANGED <<abort, seen, tried>> /\ seen \in Sizes
        BY <1>2, <1>5 DEF Decide, Earned, TypeOK
    <2>2. ASSUME NEW t \in Nat, Work(t),
                 t = THRESH1(seen) \/ (t = THRESH2(seen) /\ THRESH1(seen) \in tried)
          PROVE  Earned'
        <3>1. /\ MAX_TARGET' = t /\ cache' = [cache EXCEPT !.target = t]
              /\ pc' = "test_abort" /\ exit_code' = exit_code
            BY <2>2 DEF Work
        <3>2. CacheIsSeen' /\ cache'.target = t
            BY <2>1, <3>1 DEF CacheIsSeen, Caches
        <3>3. NextCutoff'
            BY <2>1, <2>2, <3>1, <3>2 DEF NextCutoff, THRESH1, THRESH2, more_usage
        <3> QED
            BY <1>2, <2>1, <3>1, <3>2, <3>3 DEF Earned
    <2>3. CASE ~Unchanged(CACHED, seen)
        <3>1. Work(THRESH1(seen)) /\ THRESH1(seen) \in Nat
            BY <1>5, <2>3, ThresholdsClimb DEF Decide
        <3> QED
            BY <2>2, <3>1
    <2>4. CASE Unchanged(CACHED, seen) /\ CACHED.target = THRESH1(seen)
        <3>1. Work(THRESH2(seen)) /\ THRESH2(seen) \in Nat
            BY <1>5, <2>4, ThresholdsClimb DEF Decide
        <3>2. THRESH1(seen) \in tried
            BY <2>1, <2>4 DEF EarnedFor
        <3> QED
            BY <2>2, <3>1, <3>2
    <2>5. CASE Unchanged(CACHED, seen) /\ CACHED.target # THRESH1(seen)
        <3>1. Skip
            BY <1>5, <2>5 DEF Decide
        <3>2. pc' = "finish" /\ UNCHANGED cache
            BY <3>1 DEF Skip
        <3>3. {THRESH1(seen), THRESH2(seen)} \subseteq tried
            BY <2>1, <2>5 DEF EarnedFor
        <3> QED
            BY <1>2, <2>1, <3>2, <3>3
            DEF Earned, CacheIsSeen, THRESH1, THRESH2, more_usage
    <2> QED
        BY <2>3, <2>4, <2>5
<1>6. ASSUME pc \in {"test_abort", "balance", "sleep", "wasted"},
             pc' \in {"test_abort", "balance", "sleep", "wasted", "finish"},
             UNCHANGED <<cache, abort, seen, MAX_TARGET, tried>>, exit_code' = 0
      PROVE  Earned'
    <2>1. CacheIsSeen /\ NextCutoff
        BY <1>2, <1>6 DEF Earned
    <2>2. CacheIsSeen' /\ NextCutoff'
        BY <1>6, <2>1 DEF CacheIsSeen, NextCutoff, THRESH1, THRESH2, more_usage
    <2> QED
        BY <1>2, <1>6, <2>2 DEF Earned
<1>7. pc \in {"test_abort", "balance", "sleep", "wasted"} => exit_code = 0
    BY <1>2 DEF Earned, NextCutoff
<1>8. CASE TestAbort \/ StartBalance
    BY <1>2, <1>6, <1>7, <1>8 DEF TestAbort, StartBalance
<1>9. CASE SleepAfterClean
    BY <1>2, <1>6, <1>9 DEF SleepAfterClean, Enter
<1>10. CASE SleepInLoop
    BY <1>2, <1>6, <1>10 DEF SleepInLoop, NextPhase, Enter, Leave, Again
<1>11. CASE LoopTest
    BY <1>2, <1>6, <1>7, <1>11 DEF LoopTest, NextPhase, Enter, Leave
<1>12. CASE Finish
    <2>1. /\ pc = "finish" /\ pc' = "idle" /\ UNCHANGED <<abort, cache>>
          /\ tried' = IF exit_code = 0 THEN tried \cup {MAX_TARGET} ELSE tried
        BY <1>12 DEF Finish
    <2>2. CacheIsSeen /\ (NextCutoff \/ {THRESH1(seen), THRESH2(seen)} \subseteq tried)
        BY <1>2, <2>1 DEF Earned
    <2>3. ASSUME NEW d \in Sizes, Unchanged(cache, d)
          PROVE  \/ cache.target = THRESH1(d) /\ THRESH1(d) \in tried'
                 \/ {THRESH1(d), THRESH2(d)} \subseteq tried'
        <3>1. THRESH1(d) = THRESH1(seen) /\ THRESH2(d) = THRESH2(seen)
            BY <1>2, <2>2, <2>3, SameCutoffs
        <3> QED
            BY <2>1, <2>2, <3>1 DEF NextCutoff
    <2>4. (\A d \in Sizes : EarnedFor(cache, d))'
        BY <2>1, <2>3 DEF EarnedFor, Unchanged, THRESH1, THRESH2, more_usage
    <2> QED
        BY <1>2, <2>1, <2>4 DEF Earned
<1>13. CASE RequestAbort \/ PowerCut
    BY <1>1, <1>2, <1>13 DEF RequestAbort, PowerCut
<1>14. CASE DayPasses
    BY <1>2, <1>14, SizesAssumption DEF DayPasses
<1>15. CASE WriteDisk \/ UNCHANGED vars
    BY <1>2, <1>15
    DEF WriteDisk, vars, Earned, EarnedFor, Unchanged, CacheIsSeen, NextCutoff,
        THRESH1, THRESH2, more_usage
<1> QED
    BY <1>3, <1>4, <1>5, <1>8, <1>9, <1>10, <1>11, <1>12, <1>13, <1>14, <1>15
    DEF Next, Step

\* A run without an abort, a power cut or a failing command is skipped only when
\* both cutoffs were tried for the sizes at hand (114-122), for all cutoffs and
\* all sizes but the total one.
THEOREM SkipsEarned ==
    ASSUME NotResized
    PROVE  Spec => SkipsAreEarned
<1>1. Init => Inv /\ Earned
    BY InitInv, SizesAssumption DEF Init, Earned, EarnedFor, Unchanged
<1>2. Inv /\ Earned /\ [Next]_vars => Inv' /\ Earned'
    BY NextInv, EarnedStep
<1>3. ASSUME Inv, Earned, [Next]_vars, pc = "decide", pc' = "finish",
             aborts + crashes + faults = 0
      PROVE  {THRESH1(seen), THRESH2(seen)} \subseteq tried
    <2>1. aborts = 0 /\ crashes = 0 /\ faults = 0
        BY <1>3 DEF Inv, TypeOK
    <2>2. EarnedFor(CACHED, seen)
        BY <1>3, <2>1 DEF Earned
    <2>3. Decide
        BY <1>3
        DEF Next, Step, Begin, get_usages, TestAbort, StartBalance, SleepAfterClean,
            SleepInLoop, LoopTest, Finish, RequestAbort, DayPasses, PowerCut,
            WriteDisk, vars
    <2>4. Unchanged(CACHED, seen) /\ CACHED.target # THRESH1(seen)
        BY <1>3, <2>3 DEF Decide, Work
    <2> QED
        BY <2>2, <2>4 DEF EarnedFor
<1>4. Inv /\ Earned /\ [Next]_vars =>
          [pc = "decide" /\ pc' = "finish" /\ aborts + crashes + faults = 0
              => {THRESH1(seen), THRESH2(seen)} \subseteq tried]_vars
    BY <1>3
<1> QED
    BY <1>1, <1>2, <1>4, PTL DEF Spec, SkipsAreEarned
=============================================================================
