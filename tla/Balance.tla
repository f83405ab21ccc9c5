------------------------------ MODULE Balance ------------------------------
(***************************************************************************)
(* btrfs_balance.sh, the periodic balance of the file system holding the   *)
(* BEs.  A run frees empty chunks (usage cutoff 0), then rewrites metadata *)
(* and data chunks with a cutoff that climbs while space is wasted.  A     *)
(* cache file lets the next run see that the last one gained nothing, and  *)
(* an abort file lets a software upgrade stop or forestall a run.          *)
(***************************************************************************)
EXTENDS Naturals

CONSTANTS
    Tot, Alloc, Used,                          \* sizes "btrfs fi show" can print
    MAX_TARGET_THRESH1, MAX_TARGET_THRESH2,    \* cutoffs: first try, second try
    TIGHT_THRESH1, TIGHT_THRESH2,              \* the same when space is short
    MAX_META_TARGET, MAX_REBALANCES, MAX_FAILURES,
    None,                                      \* no cache file, no target in it
    MaxFaults,                                 \* commands that may fail
    MaxAborts, MaxCrashes                      \* abort requests, power cuts

ASSUME SizesAssumption ==
    /\ Tot \subseteq Nat /\ Alloc \subseteq Nat /\ None \notin Nat \cup {"fresh", "stale"}
    /\ MaxFaults \in Nat /\ MaxAborts \in Nat /\ MaxCrashes \in Nat
    /\ MAX_FAILURES \in Nat /\ MAX_REBALANCES \in Nat
\* The loops start at a cutoff of 5.
ASSUME TargetsAssumption ==
    {MAX_TARGET_THRESH1, MAX_TARGET_THRESH2, TIGHT_THRESH1, TIGHT_THRESH2,
     MAX_META_TARGET} \subseteq Nat \ (0..4)

VARIABLES
    disk,          \* size, used and allocated space now
    mixed,         \* has the file system mixed block groups ?
    cache,         \* CACHE_FILE: the sizes and the cutoff of the last run
    abort,         \* ABORT_FILE: None, "fresh" or older than a day ("stale")
    pc,            \* what the running script does next
    CACHED,        \* the cache as this run found it
    seen,          \* the sizes this run has read
    MAX_TARGET,    \* this run's cutoff
    phase,         \* balancing "clean" (cutoff 0), "meta" or "data"
    usage_target, failures, count,
    exit_code,
    asked,         \* an abort was asked for that no run has heeded yet (history)
    started,       \* balances started while that is so (history)
    tried,         \* cutoffs of complete runs since the sizes changed (history)
    faults, aborts, crashes

files == <<cache, abort>>
run   == <<CACHED, seen, MAX_TARGET, phase, usage_target, failures, count, exit_code>>
hist  == <<asked, started, tried>>
vars  == <<disk, mixed, files, pc, run, hist, faults, aborts, crashes>>

Sizes  == [tot : Tot, used : Used, alloc : Alloc]
Caches == [used : Used, alloc : Alloc, target : Nat \cup {None}]

more_usage(d) == 100 * d.alloc > 85 * d.tot
THRESH1(d) == IF more_usage(d) THEN TIGHT_THRESH1 ELSE MAX_TARGET_THRESH1
THRESH2(d) == IF more_usage(d) THEN TIGHT_THRESH2 ELSE MAX_TARGET_THRESH2

Fault   == faults < MaxFaults /\ faults' = faults + 1
NoFault == UNCHANGED faults
bounds  == <<aborts, crashes>>

----------------------------------------------------------------------------
\* A run begins: a fresh abort file cancels it, any abort file is consumed, so
\* that the run after this one works again.
Begin ==
    /\ pc = "idle"
    /\ pc' = IF abort = "fresh" THEN "idle" ELSE "usages"
    /\ exit_code' = 0
    /\ abort' = None
    /\ asked' = (asked /\ abort # "stale" /\ pc' # "idle")
    /\ NoFault
    /\ UNCHANGED <<disk, mixed, cache, CACHED, seen, MAX_TARGET, phase,
                   usage_target, failures, count, started, tried, bounds>>

\* The sizes are compared with the cached ones, the total size left out.
Unchanged(c, d) == c # None /\ c.alloc = d.alloc /\ c.used = d.used

\* Mutant: the allocated size is lost on its way to the cache.
get_usages_unparsed ==
    /\ pc = "usages"
    /\ CACHED' = cache
    /\ seen'   = disk
    /\ cache'  = [used |-> disk.used, alloc |-> None, target |-> None]
    /\ tried'  = {}
    /\ pc'     = "decide"
    /\ NoFault
    /\ UNCHANGED <<disk, mixed, abort, MAX_TARGET, phase, usage_target, failures,
                   count, exit_code, asked, started, bounds>>

\* get_usages check_cache reads the cache and overwrites it, with no cutoff yet.
get_usages ==
    /\ pc = "usages"
    /\ CACHED' = cache
    /\ seen'   = disk
    /\ cache'  = [used |-> disk.used, alloc |-> disk.alloc, target |-> None]
    /\ tried'  = IF Unchanged(cache, disk) THEN tried ELSE {}
    /\ pc'     = "decide"
    /\ NoFault
    /\ UNCHANGED <<disk, mixed, abort, MAX_TARGET, phase, usage_target, failures,
                   count, exit_code, asked, started, bounds>>

\* New sizes: the first cutoff.  The same sizes: the second cutoff if the first
\* was the last one used, otherwise nothing more.
Work(target) ==
    /\ MAX_TARGET' = target
    /\ cache' = [cache EXCEPT !.target = target]
    /\ phase' = "clean" /\ usage_target' = 0
    /\ pc' = "test_abort"
    /\ UNCHANGED exit_code

Skip == exit_code' = 1 /\ pc' = "finish"
          /\ UNCHANGED <<cache, MAX_TARGET, phase, usage_target>>

\* Mutant: the second cutoff is never tried.
DecideOnce ==
    /\ pc = "decide"
    /\ IF Unchanged(CACHED, seen) THEN Skip ELSE Work(THRESH1(seen))
    /\ NoFault
    /\ UNCHANGED <<disk, mixed, abort, CACHED, seen, failures, count, hist, bounds>>

Decide ==
    /\ pc = "decide"
    /\ CASE ~Unchanged(CACHED, seen)          -> Work(THRESH1(seen))
         [] /\ Unchanged(CACHED, seen)
            /\ CACHED.target = THRESH1(seen)  -> Work(THRESH2(seen))
         [] /\ Unchanged(CACHED, seen)
            /\ CACHED.target # THRESH1(seen)  -> Skip
    /\ NoFault
    /\ UNCHANGED <<disk, mixed, abort, CACHED, seen, failures, count, hist, bounds>>

----------------------------------------------------------------------------
\* Mutant: the abort file is removed, and the run goes on.
TestDropsAbort ==
    /\ pc = "test_abort"
    /\ abort' = None
    /\ pc' = "balance"
    /\ NoFault
    /\ UNCHANGED <<disk, mixed, cache, run, hist, bounds>>

\* run_balance: an abort file of any age ends the whole run and is removed.
TestAbort ==
    /\ pc = "test_abort"
    /\ abort' = None
    /\ \/ abort = None /\ pc' = "balance" /\ UNCHANGED <<exit_code, asked>>
       \/ abort # None /\ pc' = "idle" /\ exit_code' = 27 /\ asked' = FALSE
    /\ NoFault
    /\ UNCHANGED <<disk, mixed, cache, CACHED, seen, MAX_TARGET, phase,
                   usage_target, failures, count, started, tried, bounds>>

\* btrfs balance start: its status is dropped.  It may free chunks.
StartBalance ==
    /\ pc = "balance"
    /\ started' = IF asked THEN started + 1 ELSE started
    /\ \/ /\ \E a \in Alloc : a <= disk.alloc /\ disk' = [disk EXCEPT !.alloc = a]
          /\ NoFault
       \/ Fault /\ UNCHANGED disk
    /\ pc' = "sleep"
    /\ UNCHANGED <<mixed, files, run, asked, tried, bounds>>

\* Where a balancing phase starts, and what follows the last one.
Enter(ph) == phase' = ph /\ usage_target' = 5 /\ failures' = 0 /\ count' = 0
               /\ pc' = "wasted"
Leave     == UNCHANGED <<phase, usage_target, failures, count>> /\ pc' = "finish"
NextPhase == IF phase = "meta" THEN Enter("data") ELSE Leave

\* run_balance returns the status of sleep.  After the 0% balance it decides
\* whether the run goes on.
SleepAfterClean ==
    /\ pc = "sleep" /\ phase = "clean"
    /\ \/ /\ NoFault /\ exit_code' = 0
          /\ Enter(IF mixed THEN "data" ELSE "meta")
       \/ Fault /\ exit_code' = 1 /\ Leave
    /\ UNCHANGED <<disk, mixed, files, CACHED, seen, MAX_TARGET, hist, bounds>>

Cutoff == IF phase = "meta" THEN MAX_META_TARGET ELSE MAX_TARGET

\* Mutant: neither the cutoff nor the count moves.
AgainForever(target) == pc' = "wasted" /\ UNCHANGED <<phase, usage_target, count>>

Again(target) == usage_target' = target /\ count' = count + 1 /\ pc' = "wasted"
                   /\ UNCHANGED phase

\* Mutant: the cutoff is tested before the increment.
SleepTestsFirst ==
    /\ pc = "sleep" /\ phase # "clean"
    /\ \/ usage_target > Cutoff /\ NextPhase
       \/ usage_target <= Cutoff /\ Again(usage_target + 5) /\ failures' = 0
    /\ NoFault /\ exit_code' = 0
    /\ UNCHANGED <<disk, mixed, files, CACHED, seen, MAX_TARGET, hist, bounds>>

\* In the loops: climb by 5 up to the cutoff, or step back by 1 after a failure.
SleepInLoop ==
    /\ pc = "sleep" /\ phase # "clean"
    /\ \/ /\ NoFault /\ usage_target + 5 > Cutoff /\ NextPhase
       \/ /\ NoFault /\ usage_target + 5 <= Cutoff
          /\ Again(usage_target + 5) /\ failures' = 0
       \/ /\ Fault
          /\ IF usage_target = 0 \/ failures + 1 >= MAX_FAILURES THEN NextPhase
             ELSE Again(usage_target - 1) /\ failures' = failures + 1
    /\ exit_code' = 0
    /\ UNCHANGED <<disk, mixed, files, CACHED, seen, MAX_TARGET, hist, bounds>>

\* Is too much of the free space in allocated chunks ?  Either may be found.
get_wasted == BOOLEAN

\* The loop conditions; metadata is balanced only when space is short.
LoopTest ==
    /\ pc = "wasted"
    /\ \E wasted \in get_wasted :
          IF /\ wasted /\ count < MAX_REBALANCES
             /\ phase = "meta" => more_usage(seen)
          THEN pc' = "test_abort" /\ UNCHANGED <<phase, usage_target, failures, count>>
          ELSE NextPhase
    /\ NoFault
    /\ UNCHANGED <<disk, mixed, files, CACHED, seen, MAX_TARGET, exit_code, hist, bounds>>

Finish ==
    /\ pc = "finish"
    /\ pc' = "idle"
    /\ tried' = IF exit_code = 0 THEN tried \cup {MAX_TARGET} ELSE tried
    /\ NoFault
    /\ UNCHANGED <<disk, mixed, files, run, asked, started, bounds>>

----------------------------------------------------------------------------
\* A software upgrade asks for an abort; the file ages; /run is lost with power.
RequestAbort ==
    /\ aborts < MaxAborts /\ aborts' = aborts + 1
    /\ abort' = "fresh" /\ asked' = TRUE
    /\ started' = IF asked THEN started ELSE 0
    /\ NoFault
    /\ UNCHANGED <<disk, mixed, cache, pc, run, tried, crashes>>

DayPasses ==
    /\ abort = "fresh" /\ abort' = "stale"
    /\ NoFault
    /\ UNCHANGED <<disk, mixed, cache, pc, run, hist, bounds>>

PowerCut ==
    /\ crashes < MaxCrashes /\ crashes' = crashes + 1
    /\ pc' = "idle" /\ abort' = None /\ asked' = FALSE
    /\ NoFault
    /\ UNCHANGED <<disk, mixed, cache, run, started, tried, aborts>>

\* Files are written and deleted, or the file system is resized.
WriteDisk ==
    /\ disk' \in Sizes /\ disk'.alloc <= disk'.tot
    /\ NoFault
    /\ UNCHANGED <<mixed, files, pc, run, hist, bounds>>

Init ==
    /\ disk \in Sizes /\ disk.alloc <= disk.tot /\ mixed \in BOOLEAN
    /\ cache = None /\ abort = None /\ CACHED = None /\ seen = disk
    /\ pc = "idle" /\ MAX_TARGET = 0 /\ phase = "clean" /\ usage_target = 0
    /\ failures = 0 /\ count = 0 /\ exit_code = 0
    /\ asked = FALSE /\ started = 0 /\ tried = {}
    /\ faults = 0 /\ aborts = 0 /\ crashes = 0

Step == get_usages \/ Decide \/ TestAbort \/ StartBalance \/ SleepAfterClean
          \/ SleepInLoop \/ LoopTest \/ Finish

Next == Begin \/ Step \/ RequestAbort \/ DayPasses \/ PowerCut \/ WriteDisk

\* The shell keeps executing the script it has started.
Spec == Init /\ [][Next]_vars /\ WF_vars(Step)

TypeOK ==
    /\ disk \in Sizes /\ seen \in Sizes /\ mixed \in BOOLEAN
    /\ cache \in Caches \cup {None} /\ CACHED \in Caches \cup {None}
    /\ abort \in {None, "fresh", "stale"}
    /\ pc \in {"idle", "usages", "decide", "test_abort", "balance", "sleep",
              "wasted", "finish"}
    /\ phase \in {"clean", "meta", "data"} /\ exit_code \in {0, 1, 27}
    /\ usage_target \in Nat /\ failures \in Nat /\ count \in Nat
    /\ MAX_TARGET \in Nat /\ asked \in BOOLEAN
    /\ started \in Nat /\ tried \subseteq Nat
    /\ faults \in Nat /\ aborts \in Nat /\ crashes \in Nat

----------------------------------------------------------------------------
\* From an abort request until a run heeds it, at most the one balance about to
\* start is still started, by the run under way or by the next one: the file is
\* tested (287) before every "btrfs balance start" (295) and at the start of a
\* run (174), a request may fall between test and start, and the file is removed
\* only where the run ends.  That is all an abort does: it is heeded once, and
\* the run after that balances again, although the comment at 168 has it that
\* nothing is done for 24 hours.
AbortStopsRun == started <= 1

\* No balance rewrites chunks fuller than the cutoff of its phase, with steps
\* of 5 up, 1 down and the early break of the loops (396-400, 435-439).
WithinCutoff == pc \in {"balance", "sleep"} => usage_target <= Cutoff

\* A run is skipped for lack of change only when, for these sizes, a run with
\* each of the two cutoffs was completed before (steps 1 to 6, 114-122).
SkipsOnlyAfterTrying ==
    [][pc = "decide" /\ pc' = "finish"
          => {THRESH1(seen), THRESH2(seen)} \subseteq tried]_vars

\* SkipsOnlyAfterTrying while no run was aborted or cut off or has failed.
SkipsAreEarned ==
    [][pc = "decide" /\ pc' = "finish" /\ aborts + crashes + faults = 0
          => {THRESH1(seen), THRESH2(seen)} \subseteq tried]_vars

\* Every run ends (379, 418), whatever sizes it reads and whatever fails.
RunEnds == pc # "idle" ~> pc = "idle"
=============================================================================
