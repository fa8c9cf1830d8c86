------------------------------- MODULE Window -------------------------------
(***************************************************************************)
(* The experiment windows: run_four_h20_kv_v2_1.sh ("V2.1") and            *)
(* run_four_h20_kv_v2_2.sh ("V2.2", also V2.3 with a replicate trace),     *)
(* which run the stages of an experiment in order, each through            *)
(* run_four_h20_stage.sh, and can be killed and resumed at any point.      *)
(*                                                                         *)
(* On disk: completion markers, the attempt of the formal pair, the frozen *)
(* configurations, one directory per run, the logs of the runs, and the    *)
(* project record.  In the shell: the stage, what is left of it, and how   *)
(* far the run under way is.  A stage is a script of steps: names of runs, *)
(* "freeze" (freeze_v2_1_kv_costs, select_v2_1_formal_rps,                 *)
(* select_v2_2_thresholds), "publish" (the paired analysis) and "check"    *)
(* (a validation, the clearing of a cache: nothing that is kept here).     *)
(*                                                                         *)
(* A window may be active for HARD_LIMIT_S seconds, over all invocations   *)
(* together: no run begins when they are used up, and one under way is     *)
(* then ended by timeout.  Time is counted in coarse units.                *)
(*                                                                         *)
(* An invocation ends well, fails (a command fails, or a signal interrupts *)
(* one), or dies (SIGKILL, the machine, or a signal whose trap sees status *)
(* 0 and exits at once); dying takes the stage script along.  Dry runs are *)
(* left out, and so is --from, which demands that what it skips is done.   *)
(***************************************************************************)
EXTENDS Integers, Sequences, FiniteSets, SequencesExt

CONSTANTS
    Version,      \* "V2.1" or "V2.2"
    Replicate,    \* TRUE: V2.2 with FOUR_H20_REPLICATE_TRACE
    HardLimit,    \* HARD_LIMIT_S, in units of time
    MaxEnds       \* bound on the invocations that fail or die, see Start

ASSUME WindowAssumption ==
    /\ Version \in {"V2.1", "V2.2"} /\ Replicate \in BOOLEAN
    /\ HardLimit \in Nat /\ MaxEnds \in Nat

Stages ==
    IF Version = "V2.1" THEN <<"F00", "K01", "K02", "K03", "K04", "K05", "K07">>
    ELSE IF Replicate THEN <<"F00", "K01", "K04", "K05", "K05R", "K04R", "K07">>
    ELSE <<"F00", "K01", "K04", "K05", "K07">>

StageSet == ToSet(Stages)
PairedStages == {"K04", "K05", "K04R", "K05R"}
Freezers == IF Version = "V2.1" THEN {"K02", "K03"} ELSE {"K01"}

\* The ways a stage may go; the optional run comes after a first selection,
\* which has written its report by then.
ScriptsV21(s) ==
    CASE s = "F00" -> {<<"check">>}
      [] s = "K01" -> {<<"A", "B", "check", "C", "D", "E1", "E2", "F", "G", "check">>}
      [] s = "K02" -> {<<"recompute", "l1", "check", "l2", "freeze">>}
      [] s = "K03" -> {<<"capacity", "freeze">>,
                       <<"capacity", "freeze", "confirm", "freeze">>}
      [] s = "K07" -> {<<"publish">>}
      [] OTHER -> {<<s>>}   \* a paired stage has one run, named after it here

ScriptsV22(s) ==
    CASE s = "F00" -> {<<"check">>}
      [] s = "K01" -> {<<"default", "freeze", "check">>,
                       <<"default", "freeze", "recalibrated", "check">>}
      [] s = "K07" -> {<<"publish">>}
      [] OTHER -> {<<s>>}

Scripts(s) == IF Version = "V2.1" THEN ScriptsV21(s) ELSE ScriptsV22(s)

RunNames ==
    (UNION {ToSet(p) : p \in UNION {Scripts(s) : s \in StageSet}})
        \ {"check", "freeze", "publish"}

\* The runs that every script of s has.
Mandatory(s) ==
    {r \in RunNames : \A p \in Scripts(s) : r \in ToSet(p)}

Attempts == 1..(MaxEnds + 2)

VARIABLES
    completed,   \* disk: markers of the completed stages
    attempt,     \* disk: formal-pair-attempt, and PAIR_ATTEMPT
    records,     \* disk: the markers in the project record
    frozen,      \* disk: how often a stage froze its configuration (0: never)
    dirs,        \* disk: what the directory of each run holds
    logs,        \* disk: the runs whose router trace and metrics are in the log root
    copied,      \* disk: the runs whose directory has a copy of them
    conclusion,  \* disk: the runs the analysis was made from
    active,      \* disk: active-seconds, the time of the invocations that ended
    pc,          \* shell: off, between, steps, first, second, record, unmark, bump
    current,     \* shell: CURRENT_STAGE
    script,      \* shell: the steps that are left of it
    progress,    \* shell: the run under way: none, begun, served, joined
    recorded,    \* shell: CURRENT_RECORDED
    spent,       \* shell: elapsed_active, BASE_ACTIVE and the time of this invocation
    ends,        \* bound: invocations that failed or died
    destroyed    \* history: runs whose logs were removed and exist nowhere else

disk == <<completed, attempt, records, frozen, dirs, logs, copied, conclusion, active>>
shell == <<pc, current, script, progress, recorded, spent>>
vars == <<disk, shell, ends, destroyed>>

\* K04 and K05 put the attempt in the name of their runs; the others do not.
RunId(name) == <<name, IF name \in PairedStages THEN attempt ELSE 1>>
RunIds == RunNames \X Attempts
NoDir == [state |-> "none", used |-> [s \in Freezers |-> 0]]

\* The label under which a stage is recorded.
Label(s) == <<s, IF Version = "V2.1" /\ s \in {"K04", "K05"} THEN attempt ELSE 1>>
Recorded(s, status) == records \cup {<<Label(s), status>>}   \* _append_once

Init ==
    /\ completed = {} /\ attempt = 1 /\ records = {}
    /\ frozen = [s \in Freezers |-> 0]
    /\ dirs = [r \in RunIds |-> NoDir]
    /\ logs = {} /\ copied = {} /\ conclusion = {}
    /\ pc = "off" /\ current = "none" /\ script = <<>>
    /\ progress = "none" /\ recorded = FALSE
    /\ active = 0 /\ spent = 0
    /\ ends = 0 /\ destroyed = {}

----------------------------------------------------------------------------
(* The window script. *)

\* The shell's variables are set afresh, and lost, with every invocation.
FreshShell(to, time) ==
    /\ pc' = to /\ current' = "none" /\ script' = <<>>
    /\ progress' = "none" /\ recorded' = FALSE /\ spent' = time

\* The bound: a window that cannot be concluded is resumed once more, no more.
Start ==
    /\ pc = "off" /\ ends <= MaxEnds
    /\ FreshShell("between", active)
    /\ UNCHANGED <<disk, ends, destroyed>>

\* Time passes while the script is at work.  What lies beyond the limit is alike.
Tick ==
    /\ pc \in {"between", "steps", "first", "second"} /\ spent < HardLimit
    /\ spent' = spent + 1
    /\ UNCHANGED <<disk, pc, current, script, progress, recorded, ends, destroyed>>

\* remaining_seconds
HasTime == spent < HardLimit

\* Stages are tried in order; one with a marker is skipped.
IsNext(s) ==
    \E i \in DOMAIN Stages :
        /\ Stages[i] = s /\ s \notin completed
        /\ \A j \in 1..(i - 1) : Stages[j] \in completed

\* The frozen configuration a stage insists on.
HasConfig(s) ==
    /\ Version = "V2.1" /\ s = "K03" => frozen["K02"] > 0
    /\ Version = "V2.2" /\ s \notin {"F00", "K01"} => frozen["K01"] > 0

\* Mutant: the marker is touched when the stage begins.
BeginMarked(s) ==
    /\ pc = "between" /\ IsNext(s) /\ HasConfig(s)
    /\ completed' = completed \cup {s}
    /\ pc' = "steps" /\ current' = s
    /\ script' \in Scripts(s)
    /\ progress' = "none" /\ recorded' = FALSE
    /\ UNCHANGED <<attempt, records, frozen, dirs, logs, copied, conclusion, active,
                   spent, ends, destroyed>>

Begin(s) ==
    /\ pc = "between" /\ IsNext(s) /\ HasConfig(s)
    /\ pc' = "steps" /\ current' = s
    /\ script' \in Scripts(s)
    /\ progress' = "none" /\ recorded' = FALSE
    /\ UNCHANGED <<disk, spent, ends, destroyed>>

\* Every stage is done: finish runs with status 0.
End ==
    /\ pc = "between" /\ StageSet \subseteq completed
    /\ active' = spent
    /\ FreshShell("off", 0)
    /\ UNCHANGED <<completed, attempt, records, frozen, dirs, logs, copied, conclusion,
                   ends, destroyed>>

AtStep(step) == pc = "steps" /\ script # <<>> /\ Head(script) = step

Check ==
    /\ AtStep("check")
    /\ script' = Tail(script)
    /\ UNCHANGED <<disk, pc, current, progress, recorded, spent, ends, destroyed>>

Freeze ==
    /\ AtStep("freeze")
    /\ frozen' = [frozen EXCEPT ![current] = @ + 1]
    /\ script' = Tail(script)
    /\ UNCHANGED <<completed, attempt, records, dirs, logs, copied, conclusion, active,
                   pc, current, progress, recorded, spent, ends, destroyed>>

\* The analysis reads the directories of the pair, whatever they hold.
Publish ==
    LET pair == {RunId(s) : s \in PairedStages \cap StageSet} IN
    /\ AtStep("publish")
    /\ \A r \in pair : dirs[r].state # "none"
    /\ conclusion' = {[run |-> r, dir |-> dirs[r]] : r \in pair}
    /\ script' = Tail(script)
    /\ UNCHANGED <<completed, attempt, records, frozen, dirs, logs, copied, active,
                   pc, current, progress, recorded, spent, ends, destroyed>>

(* The stage script, run_four_h20_stage.sh. *)

\* A command fails, or it is refused: the trap begins, and it first writes down
\* the time that was spent.
Fails ==
    /\ pc' = "record" /\ active' = spent /\ ends' = ends + 1
    /\ UNCHANGED <<completed, attempt, records, frozen, dirs, logs, copied, conclusion,
                   current, script, progress, recorded, spent, destroyed>>

RunStep(name) == AtStep(name) /\ name \in RunNames

\* There is no time left for the run, or timeout ends it.
RunOutOfTime(name) == RunStep(name) /\ ~HasTime /\ Fails

\* Mutant: an older directory is not moved aside.
RunBeginsKeepsDir(name) ==
    LET r == RunId(name) IN
    /\ RunStep(name) /\ progress = "none" /\ HasTime
    /\ progress' = "begun"
    /\ logs' = logs \ {r}
    /\ copied' = copied \ {r}
    /\ destroyed' = IF r \in logs \ copied THEN destroyed \cup {r} ELSE destroyed
    /\ UNCHANGED <<completed, attempt, records, frozen, dirs, conclusion, active,
                   pc, current, script, recorded, spent, ends>>

\* An older directory of the run is moved aside, its logs are removed.
RunBegins(name) ==
    LET r == RunId(name) IN
    /\ RunStep(name) /\ progress = "none" /\ HasTime
    /\ progress' = "begun"
    /\ dirs' = [dirs EXCEPT ![r] = NoDir]
    /\ logs' = logs \ {r}
    /\ copied' = copied \ {r}
    /\ destroyed' = IF r \in logs \ copied THEN destroyed \cup {r} ELSE destroyed
    /\ UNCHANGED <<completed, attempt, records, frozen, conclusion, active,
                   pc, current, script, recorded, spent, ends>>

\* The client makes the directory, and refuses one that is there; router and
\* sampler write their logs.
RunServes(name) ==
    LET r == RunId(name) IN
    /\ RunStep(name) /\ progress = "begun"
    /\ IF dirs[r].state # "none" THEN Fails
       ELSE /\ progress' = "served"
            /\ dirs' = [dirs EXCEPT ![r] = [state |-> "partial", used |-> frozen]]
            /\ logs' = logs \cup {r}
            /\ UNCHANGED <<completed, attempt, records, frozen, copied, conclusion, active,
                           pc, current, script, recorded, spent, ends, destroyed>>

\* The traces join; only then are the logs copied into the directory.
RunJoins(name) ==
    /\ RunStep(name) /\ progress = "served"
    /\ progress' = "joined"
    /\ copied' = copied \cup {RunId(name)}
    /\ UNCHANGED <<completed, attempt, records, frozen, dirs, logs, conclusion, active,
                   pc, current, script, recorded, spent, ends, destroyed>>

RunValidates(name) ==
    /\ RunStep(name) /\ progress = "joined"
    /\ progress' = "none"
    /\ dirs' = [dirs EXCEPT ![RunId(name)].state = "passed"]
    /\ script' = Tail(script)
    /\ UNCHANGED <<completed, attempt, records, frozen, logs, copied, conclusion, active,
                   pc, current, recorded, spent, ends, destroyed>>

(* complete_stage (V2.1) records and then marks; mark_stage (V2.2) marks and
   then records. *)

RecordsNever == FALSE   \* mutant: both versions mark first
RecordsFirst == Version = "V2.1"

StepsDone ==
    /\ pc = "steps" /\ script = <<>>
    /\ pc' = "first"
    /\ UNCHANGED <<disk, current, script, progress, recorded, spent, ends, destroyed>>

RecordPass ==
    /\ pc = IF RecordsFirst THEN "first" ELSE "second"
    /\ pc' = IF RecordsFirst THEN "second" ELSE "between"
    /\ records' = Recorded(current, "PASS")
    /\ recorded' = TRUE
    /\ UNCHANGED <<completed, attempt, frozen, dirs, logs, copied, conclusion, active,
                   current, script, progress, spent, ends, destroyed>>

\* Mutant: the marker is touched where the next invocation does not look.
MarkElsewhere ==
    /\ pc = IF RecordsFirst THEN "second" ELSE "first"
    /\ pc' = IF RecordsFirst THEN "between" ELSE "second"
    /\ UNCHANGED <<disk, current, script, progress, recorded, spent, ends, destroyed>>

Mark ==
    /\ pc = IF RecordsFirst THEN "second" ELSE "first"
    /\ pc' = IF RecordsFirst THEN "between" ELSE "second"
    /\ completed' = completed \cup {current}
    /\ UNCHANGED <<attempt, records, frozen, dirs, logs, copied, conclusion, active,
                   current, script, progress, recorded, spent, ends, destroyed>>

(* The trap, finish. *)

\* A command fails, anywhere (set -e), or a signal interrupts one.
Fail ==
    /\ pc \in {"between", "steps", "first", "second"} /\ ends < MaxEnds
    /\ Fails

\* Recording the failure may itself fail.
RecordFail ==
    /\ pc = "record"
    /\ \/ UNCHANGED records
       \/ /\ current # "none" /\ (Version = "V2.1" => ~recorded)
          /\ records' = Recorded(current, "FAIL")
    /\ IF current \in PairedStages
       THEN pc' = "unmark" /\ UNCHANGED <<current, script, progress, recorded, spent>>
       ELSE FreshShell("off", 0)
    /\ UNCHANGED <<completed, attempt, frozen, dirs, logs, copied, conclusion, active,
                   ends, destroyed>>

UnmarkCurrent == completed \ {current}          \* mutant: rm of the stage's own marker
UnmarkAll == {}                                 \* mutant: rm of every marker
Unmarked == completed \ PairedStages

\* The pair is discarded as a whole: its markers first, then its attempt.
Unmark ==
    /\ pc = "unmark"
    /\ pc' = "bump"
    /\ completed' = Unmarked
    /\ UNCHANGED <<attempt, records, frozen, dirs, logs, copied, conclusion, active,
                   current, script, progress, recorded, spent, ends, destroyed>>

Bump ==
    /\ pc = "bump"
    /\ attempt' = attempt + 1
    /\ FreshShell("off", 0)
    /\ UNCHANGED <<completed, records, frozen, dirs, logs, copied, conclusion, active,
                   ends, destroyed>>

\* The shell is gone, in the trap too: the time is lost with it, unless the trap
\* had written it down.
Die ==
    /\ pc # "off" /\ ends < MaxEnds
    /\ ends' = ends + 1
    /\ active' \in {active, spent}
    /\ FreshShell("off", 0)
    /\ UNCHANGED <<completed, attempt, records, frozen, dirs, logs, copied, conclusion,
                   destroyed>>

Proceed ==
    \/ \E s \in StageSet : Begin(s)
    \/ Check \/ Freeze \/ Publish
    \/ \E name \in RunNames :
          RunBegins(name) \/ RunServes(name) \/ RunJoins(name) \/ RunValidates(name)
             \/ RunOutOfTime(name)
    \/ StepsDone \/ RecordPass \/ Mark
    \/ RecordFail \/ Unmark \/ Bump
    \/ End

Next == Start \/ Proceed \/ Tick \/ Fail \/ Die

Spec == Init /\ [][Next]_vars

\* The shell runs on, and someone resumes a window that is not complete.
FairSpec == Spec /\ WF_vars(Start) /\ WF_vars(Proceed)

----------------------------------------------------------------------------
(* Correctness. *)

\* What the disk and the shell may hold.
TypeOK ==
    /\ completed \subseteq StageSet
    /\ attempt \in Attempts
    /\ records \subseteq (StageSet \X Attempts) \X {"PASS", "FAIL"}
    /\ frozen \in [Freezers -> Nat]
    /\ dirs \in [RunIds -> [state : {"none", "partial", "passed"}, used : [Freezers -> Nat]]]
    /\ logs \subseteq RunIds /\ copied \subseteq RunIds /\ destroyed \subseteq RunIds
    /\ \A c \in conclusion : c.run \in RunIds
    /\ pc \in {"off", "between", "steps", "first", "second", "record", "unmark", "bump"}
    /\ current \in StageSet \cup {"none"}
    /\ progress \in {"none", "begun", "served", "joined"}
    /\ recorded \in BOOLEAN /\ ends \in 0..(MaxEnds + 1)
    /\ active \in 0..HardLimit /\ spent \in 0..HardLimit

\* A marker vouches for its stage, for ever: every run the stage must make is
\* there under the name that is in force now, validated, with its own logs,
\* wherever earlier invocations were cut off.
CompletedIntact ==
    \A s \in completed : \A name \in Mandatory(s) :
        dirs[RunId(name)].state = "passed" /\ RunId(name) \in copied

\* The paired analysis is only ever made of runs that passed, all of one
\* attempt, and made with one and the same frozen configuration.
PairIsFair ==
    \A c, d \in conclusion :
        c.dir.state = "passed" /\ c.dir.used = d.dir.used /\ c.run[2] = d.run[2]

\* "Allowed to continue: YES" (record_v2_1_four_h20.py) comes before the next
\* stage does: in V2.1 no stage is under way while an earlier one has no PASS
\* record for the attempt in force.
RecordedBeforeNext ==
    Version = "V2.1" /\ pc = "steps" =>
        \A i, j \in DOMAIN Stages :
            i < j /\ Stages[j] = current => <<Label(Stages[i]), "PASS">> \in records

\* Once a formal run has a directory, no calibration is ever frozen again:
\* "no change of gear after K04".
NoChangeOfGear ==
    [][(\E r \in RunIds : r[1] \in PairedStages /\ dirs[r].state # "none")
          => frozen' = frozen]_vars

\* However often it is cut off, a window that is resumed reaches its conclusion,
\* unless its time was used up while there still were runs to make.
Concluded == conclusion # {} /\ StageSet \subseteq completed
TimeIsUp == active >= HardLimit /\ \E s \in StageSet \ completed : Mandatory(s) # {}
Concludes == <>(Concluded \/ TimeIsUp)

\* What the FAIL record says: the run and its logs are kept. (The logs of a run
\* whose stage is recorded as failed are never removed without a copy.)
FailureKeepsLogs ==
    [][\A s \in StageSet, r \in destroyed' \ destroyed :
          r[1] \in UNION {ToSet(p) : p \in Scripts(s)}
              => <<<<s, r[2]>>, "FAIL">> \notin records]_vars
=============================================================================
