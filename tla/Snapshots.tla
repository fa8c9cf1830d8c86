----------------------------- MODULE Snapshots -----------------------------
(***************************************************************************)
(* The cache of repository snapshots, benchmarks/repo_context.py, and the  *)
(* command that fills it, benchmarks/prefetch_repos.py: a pool of workers  *)
(* fetches archives with curl, or commits with git, and a manifest names   *)
(* what was fetched.                                                       *)
(*                                                                         *)
(* One invocation runs at a time, as scripts/run_guarded.sh has it.  It    *)
(* may be killed at any point; a curl of its may then live on.  A curl     *)
(* opens its output, truncating it, when the first bytes arrive, and keeps *)
(* writing to that file wherever it is moved.  The first bytes of an       *)
(* archive are enough for tarfile.is_tarfile.                              *)
(***************************************************************************)
EXTENDS Integers, Sequences, FiniteSets, SequencesExt

CONSTANTS
    Tasks,        \* the snapshots of the selected instances, repeats and all
    RepoOf,       \* the repository of a snapshot
    Workers, NoOne,
    Attempts,     \* bound: tries of curl, and of git fetch
    MaxKills, MaxInvocations   \* bounds

Snapshots == {Tasks[i] : i \in DOMAIN Tasks}
Repos == {RepoOf[s] : s \in Snapshots}

ASSUME SnapshotsAssumption ==
    /\ Tasks \in Seq(Snapshots) /\ Tasks # <<>> /\ DOMAIN RepoOf = Snapshots
    /\ NoOne \notin Snapshots \cup Repos
    /\ Attempts \in Nat \ {0} /\ MaxKills \in Nat /\ MaxInvocations \in Nat

\* What a file holds: bad is no archive, torn is the beginning of one.
Contents == {"absent", "empty", "bad", "torn", "whole"}

VARIABLES
    main,      \* idle, working, draining (an exception is on its way out)
    mode,      \* archive, partial_git
    todo,      \* the futures that no worker has begun
    item,      \* what a worker is at, a snapshot or a repository, or NoOne
    step, left,    \* its next step, its attempts left
    commits,   \* the snapshots a git worker has yet to fetch
    curl,      \* of a worker: none, or the name its output has: unopened,
               \* part, archive, nowhere
    finished,  \* the futures that are done: the item and whether it raised
    rows,      \* what was collected of them
    part, archive,   \* the files of a snapshot
    git,       \* a bare repository: absent, dir, bare, ready
    fetched,   \* the commits that are there
    manifest,  \* the rows of the last manifest
    orphans,   \* the curls whose invocation was killed
    raced,     \* history: snapshots that an orphan may still open
    cutoff,    \* history: repositories whose creation was cut off
    refused,   \* history: repositories that git refused to work in, half made
    kills, invocations

poolVars == <<todo, item, step, left, commits, curl, finished>>
fileVars == <<part, archive, git, fetched, manifest>>
historyVars == <<raced, cutoff, refused>>
vars == <<main, mode, rows, poolVars, fileVars, orphans, historyVars, kills, invocations>>

Init ==
    /\ main = "idle" /\ mode = "archive" /\ rows = {}
    /\ todo = <<>> /\ finished = {}
    /\ item = [w \in Workers |-> NoOne] /\ step = [w \in Workers |-> "idle"]
    /\ left = [w \in Workers |-> 0] /\ commits = [w \in Workers |-> <<>>]
    /\ curl = [w \in Workers |-> "none"]
    /\ part = [s \in Snapshots |-> "absent"]
    /\ archive = [s \in Snapshots |-> "absent"]
    /\ git = [r \in Repos |-> "absent"] /\ fetched = {}
    /\ manifest = {} /\ orphans = {}
    /\ raced = {} /\ cutoff = {} /\ refused = {}
    /\ kills = 0 /\ invocations = 0

----------------------------------------------------------------------------
(* The pool. *)

\* set(snapshots); grouped by repository for git.  Mutants: one future for
\* each instance; one for each commit.
ItemsRepeated(m) ==
    IF m = "archive" THEN Tasks ELSE SetToSeq(Repos)
ItemsUngrouped(m) ==
    IF m = "archive" THEN SetToSeq(Snapshots)
    ELSE LET all == SetToSeq(Snapshots) IN [i \in DOMAIN all |-> RepoOf[all[i]]]
Items(m) == IF m = "archive" THEN SetToSeq(Snapshots) ELSE SetToSeq(Repos)

CommitsOf(r) == SetToSeq({s \in Snapshots : RepoOf[s] = r})

Invoke(m) ==
    /\ main = "idle" /\ invocations < MaxInvocations
    /\ invocations' = invocations + 1
    /\ main' = "working" /\ mode' = m /\ rows' = {} /\ todo' = Items(m)
    /\ UNCHANGED <<item, step, left, commits, curl, finished, fileVars,
                   orphans, historyVars, kills>>

Take(w) ==
    /\ item[w] = NoOne /\ todo # <<>>
    /\ todo' = Tail(todo)
    /\ item' = [item EXCEPT ![w] = Head(todo)]
    /\ step' = [step EXCEPT ![w] = IF mode = "archive" THEN "look" ELSE "repo"]
    /\ left' = [left EXCEPT ![w] = Attempts]
    /\ commits' = [commits EXCEPT ![w] =
                     IF mode = "archive" THEN <<>> ELSE CommitsOf(Head(todo))]
    /\ UNCHANGED <<main, mode, rows, curl, finished, fileVars, orphans,
                   historyVars, kills, invocations>>

\* The future of w is done.
Returns(w, raised) ==
    /\ finished' = finished \cup {[item |-> item[w], raised |-> raised]}
    /\ item' = [item EXCEPT ![w] = NoOne]
    /\ step' = [step EXCEPT ![w] = "idle"]
    /\ commits' = [commits EXCEPT ![w] = <<>>]
    /\ left' = [left EXCEPT ![w] = 0]

Goes(w, next) ==
    /\ step' = [step EXCEPT ![w] = next]
    /\ UNCHANGED <<item, finished, commits>>

(* ensure_archive *)

IsTarfile(content) == content \in {"torn", "whole"}

\* What the output of every curl of s is called once the name `from' is `to'.
Moved(s, from, to) ==
    /\ curl' = [w \in Workers |->
                  IF item[w] = s /\ curl[w] = from THEN to ELSE curl[w]]
    /\ orphans' = {IF o.snapshot = s /\ o.at = from THEN [o EXCEPT !.at = to] ELSE o
                     : o \in orphans}

LookFinds(w) ==
    /\ step[w] = "look" /\ IsTarfile(archive[item[w]])
    /\ Returns(w, FALSE)
    /\ UNCHANGED <<main, mode, rows, todo, curl, fileVars, orphans,
                   historyVars, kills, invocations>>

\* The .part is removed before each curl.
Clean(s) ==
    /\ part' = [part EXCEPT ![s] = "absent"]
    /\ Moved(s, "part", "nowhere")
    /\ raced' = IF \E o \in orphans : o.snapshot = s /\ o.at = "unopened"
                THEN raced \cup {s} ELSE raced

LookFails(w) ==
    /\ step[w] = "look" /\ ~IsTarfile(archive[item[w]])
    /\ Clean(item[w]) /\ Goes(w, "curl")
    /\ UNCHANGED <<main, mode, rows, todo, left, archive, git, fetched,
                   manifest, cutoff, refused, kills, invocations>>

StartCurl(w) ==
    /\ step[w] = "curl" /\ curl[w] = "none"
    /\ curl' = [curl EXCEPT ![w] = "unopened"]
    /\ UNCHANGED <<main, mode, rows, todo, item, step, left, commits,
                   finished, fileVars, orphans, historyVars, kills, invocations>>

\* How many curls write to the file that is named so.
Writers(s, name) ==
    Cardinality({w \in Workers : item[w] = s /\ curl[w] = name})
        + Cardinality({o \in orphans : o.snapshot = s /\ o.at = name})

\* The file that is named so now holds one of these contents.
Written(s, name, contents) ==
    /\ IF name = "part" THEN \E c \in contents : part' = [part EXCEPT ![s] = c]
       ELSE UNCHANGED part
    /\ IF name = "archive" THEN \E c \in contents : archive' = [archive EXCEPT ![s] = c]
       ELSE UNCHANGED archive

Opened(name) == IF name = "unopened" THEN "part" ELSE name

\* curl opens its output, or starts over (--retry).
CurlWrites(w) ==
    /\ curl[w] # "none"
    /\ curl' = [curl EXCEPT ![w] = Opened(@)]
    /\ Written(item[w], Opened(curl[w]), {"empty", "torn"})
    /\ UNCHANGED <<main, mode, rows, todo, item, step, left, commits,
                   finished, git, fetched, manifest, orphans, historyVars,
                   kills, invocations>>

\* All of the answer is written: an archive, or something else.  Two writers
\* of one file may leave holes.
LastWrite(s, name) ==
    Written(s, name, IF Writers(s, name) > 1 THEN {"bad", "torn", "whole"} ELSE {"bad", "whole"})

CurlSucceeds(w) ==
    /\ curl[w] \notin {"none", "unopened"}
    /\ LastWrite(item[w], curl[w])
    /\ curl' = [curl EXCEPT ![w] = "none"]
    /\ Goes(w, "check")
    /\ UNCHANGED <<main, mode, rows, todo, left, git, fetched, manifest, orphans,
                   historyVars, kills, invocations>>

CurlFails(w) ==
    /\ curl[w] # "none"
    /\ curl' = [curl EXCEPT ![w] = "none"]
    /\ Goes(w, "failed")
    /\ UNCHANGED <<main, mode, rows, todo, left, fileVars, orphans, historyVars,
                   kills, invocations>>

\* returncode == 0 and is_tarfile
Accepts(w) == step[w] = "check" /\ IsTarfile(part[item[w]])

\* is_tarfile raises FileNotFoundError.
Missing(w) == step[w] = "check" /\ part[item[w]] = "absent"

Check(w) ==
    /\ step[w] \in {"check", "failed"} /\ Accepts(w)
    /\ Goes(w, "rename")
    /\ UNCHANGED <<main, mode, rows, todo, left, curl, fileVars, orphans,
                   historyVars, kills, invocations>>

Retry(w) ==
    /\ step[w] \in {"check", "failed"} /\ ~Accepts(w) /\ ~Missing(w) /\ left[w] > 1
    /\ Clean(item[w]) /\ Goes(w, "curl")
    /\ left' = [left EXCEPT ![w] = @ - 1]
    /\ UNCHANGED <<main, mode, rows, todo, archive, git, fetched, manifest,
                   cutoff, refused, kills, invocations>>

DownloadFails(w) ==
    /\ step[w] \in {"check", "failed"} /\ ~Accepts(w) /\ (left[w] = 1 \/ Missing(w))
    /\ Clean(item[w]) /\ Returns(w, TRUE)
    /\ UNCHANGED <<main, mode, rows, todo, archive, git, fetched, manifest,
                   cutoff, refused, kills, invocations>>

Rename(w) ==
    LET s == item[w] IN
    /\ step[w] = "rename"
    /\ IF part[s] = "absent" THEN Returns(w, TRUE) /\ UNCHANGED <<part, archive, curl, orphans>>
       ELSE /\ archive' = [archive EXCEPT ![s] = part[s]]
            /\ part' = [part EXCEPT ![s] = "absent"]
            /\ Moved(s, "part", "archive")
            /\ Returns(w, FALSE)
    /\ UNCHANGED <<main, mode, rows, todo, git, fetched, manifest,
                   historyVars, kills, invocations>>

----------------------------------------------------------------------------
(* ensure_repo, ensure_commit *)

gitUnchanged == <<main, mode, rows, todo, curl, part, archive, manifest,
                  orphans, raced, kills, invocations>>

MakeDir(w) ==
    /\ step[w] = "repo" /\ git[item[w]] = "absent"
    /\ git' = [git EXCEPT ![item[w]] = "dir"]
    /\ Goes(w, "init")
    /\ UNCHANGED <<left, fetched, cutoff, refused, gitUnchanged>>

\* git init, git remote add
Creates(w, at, now, next) ==
    /\ step[w] = at
    /\ git' = [git EXCEPT ![item[w]] = now]
    /\ Goes(w, next)
    /\ UNCHANGED <<left, fetched, cutoff, refused, gitUnchanged>>

InitBare(w) == Creates(w, "init", "bare", "add")
RemoteAdd(w) == Creates(w, "add", "ready", "fetch")

\* check=True: CalledProcessError
CreationFails(w) ==
    /\ step[w] \in {"init", "add"}
    /\ cutoff' = cutoff \cup {item[w]}
    /\ Returns(w, TRUE)
    /\ UNCHANGED <<git, fetched, refused, gitUnchanged>>

SetUrl(w) ==
    /\ step[w] = "repo" /\ git[item[w]] = "ready"
    /\ Goes(w, "fetch")
    /\ UNCHANGED <<left, git, fetched, cutoff, refused, gitUnchanged>>

\* No repository, or no such remote; or git fails, as it may at any time.
SetUrlFails(w) ==
    /\ step[w] = "repo" /\ git[item[w]] # "absent"
    /\ refused' = refused \cup ({item[w]} \ {r \in Repos : git[r] = "ready"})
    /\ Returns(w, TRUE)
    /\ UNCHANGED <<git, fetched, cutoff, gitUnchanged>>

HasCommit(w) ==
    /\ step[w] = "fetch" /\ Head(commits[w]) \in fetched
    /\ IF Len(commits[w]) = 1 THEN Returns(w, FALSE)
       ELSE /\ commits' = [commits EXCEPT ![w] = Tail(@)]
            /\ left' = [left EXCEPT ![w] = Attempts]
            /\ step' = [step EXCEPT ![w] = "repo"]
            /\ UNCHANGED <<item, finished>>
    /\ UNCHANGED <<git, fetched, cutoff, refused, gitUnchanged>>

Fetches(w) ==
    /\ step[w] = "fetch" /\ Head(commits[w]) \notin fetched /\ left[w] > 0
    /\ left' = [left EXCEPT ![w] = @ - 1]
    /\ \/ fetched' = fetched \cup {Head(commits[w])}
       \/ UNCHANGED fetched
    /\ UNCHANGED <<item, step, commits, finished, git, cutoff, refused, gitUnchanged>>

FetchFails(w) ==
    /\ step[w] = "fetch" /\ Head(commits[w]) \notin fetched /\ left[w] = 0
    /\ Returns(w, TRUE)
    /\ UNCHANGED <<git, fetched, cutoff, refused, gitUnchanged>>

----------------------------------------------------------------------------
(* The main thread. *)

\* future.result() and the digest of what is in the file then.
RowsOf(i) ==
    IF mode = "archive" THEN {[snapshot |-> i, digest |-> archive[i]]}
    ELSE {[snapshot |-> s, digest |-> "git"] : s \in {s \in Snapshots : RepoOf[s] = i}}

Collect ==
    /\ main = "working"
    /\ \E f \in finished :
        /\ finished' = finished \ {f}
        /\ IF f.raised THEN main' = "draining" /\ UNCHANGED rows
           ELSE rows' = rows \cup RowsOf(f.item) /\ UNCHANGED main
    /\ UNCHANGED <<mode, todo, item, step, left, commits, curl, fileVars,
                   orphans, historyVars, kills, invocations>>

PoolIsDone == todo = <<>> /\ \A w \in Workers : item[w] = NoOne

Conclude ==
    /\ main = "working" /\ PoolIsDone /\ finished = {}
    /\ main' = "idle" /\ manifest' = rows
    /\ UNCHANGED <<mode, rows, poolVars, part, archive, git, fetched, orphans,
                   historyVars, kills, invocations>>

\* Leaving the pool waits for the futures that are left, those not begun too.
Raise ==
    /\ main = "draining" /\ PoolIsDone
    /\ main' = "idle" /\ finished' = {}
    /\ UNCHANGED <<mode, rows, todo, item, step, left, commits, curl,
                   fileVars, orphans, historyVars, kills, invocations>>

----------------------------------------------------------------------------
(* Kills, and what lives on. *)

Kill ==
    /\ kills < MaxKills /\ kills' = kills + 1
    /\ main # "idle" /\ main' = "idle"
    /\ todo' = <<>> /\ finished' = {}
    /\ item' = [w \in Workers |-> NoOne] /\ step' = [w \in Workers |-> "idle"]
    /\ left' = [w \in Workers |-> 0] /\ commits' = [w \in Workers |-> <<>>]
    /\ curl' = [w \in Workers |-> "none"]
    /\ \E survivors \in SUBSET {w \in Workers : curl[w] # "none"} :
        orphans' = orphans \cup {[snapshot |-> item[w], at |-> curl[w]] : w \in survivors}
    /\ cutoff' = cutoff \cup {r \in Repos : git[r] \in {"dir", "bare"}}
    /\ UNCHANGED <<mode, rows, fileVars, raced, refused, invocations>>

OrphanWrites(o) ==
    /\ orphans' = (orphans \ {o}) \cup {[o EXCEPT !.at = Opened(@)]}
    /\ Written(o.snapshot, Opened(o.at), {"empty", "torn"})
    /\ UNCHANGED <<main, mode, rows, poolVars, git, fetched, manifest, historyVars,
                   kills, invocations>>

\* It ends by itself, or fails.
OrphanEnds(o) ==
    /\ orphans' = orphans \ {o}
    /\ LastWrite(o.snapshot, o.at) \/ UNCHANGED <<part, archive>>
    /\ UNCHANGED <<main, mode, rows, poolVars, git, fetched, manifest, historyVars,
                   kills, invocations>>

----------------------------------------------------------------------------
ArchiveStep(w) ==
    \/ LookFinds(w) \/ LookFails(w) \/ StartCurl(w)
    \/ CurlWrites(w) \/ CurlSucceeds(w) \/ CurlFails(w)
    \/ Check(w) \/ Retry(w) \/ DownloadFails(w) \/ Rename(w)

GitStep(w) ==
    \/ MakeDir(w) \/ InitBare(w) \/ RemoteAdd(w) \/ CreationFails(w)
    \/ SetUrl(w) \/ SetUrlFails(w)
    \/ HasCommit(w) \/ Fetches(w) \/ FetchFails(w)

Next ==
    \/ \E m \in {"archive", "partial_git"} : Invoke(m)
    \/ \E w \in Workers : Take(w) \/ ArchiveStep(w) \/ GitStep(w)
    \/ Collect \/ Conclude \/ Raise \/ Kill
    \/ \E o \in orphans : OrphanWrites(o) \/ OrphanEnds(o)

Spec == Init /\ [][Next]_vars
----------------------------------------------------------------------------
(* Correctness. *)

Names == {"unopened", "part", "archive", "nowhere"}

\* Every variable of the cache keeps its type, and a worker that is idle has
\* neither an item nor a curl.
TypeOK ==
    /\ main \in {"idle", "working", "draining"} /\ mode \in {"archive", "partial_git"}
    /\ todo \in Seq(Snapshots \cup Repos)
    /\ item \in [Workers -> Snapshots \cup Repos \cup {NoOne}]
    /\ step \in [Workers -> {"idle", "look", "curl", "check", "failed", "rename",
                             "repo", "init", "add", "fetch"}]
    /\ left \in [Workers -> 0 .. Attempts]
    /\ commits \in [Workers -> Seq(Snapshots)]
    /\ curl \in [Workers -> Names \cup {"none"}]
    /\ \A w \in Workers : /\ item[w] = NoOne <=> step[w] = "idle"
                          /\ curl[w] # "none" => step[w] = "curl"
    /\ finished \in SUBSET [item : Snapshots \cup Repos, raised : BOOLEAN]
    /\ rows \in SUBSET [snapshot : Snapshots, digest : Contents \cup {"git"}]
    /\ manifest \in SUBSET [snapshot : Snapshots, digest : Contents \cup {"git"}]
    /\ part \in [Snapshots -> Contents] /\ archive \in [Snapshots -> Contents]
    /\ git \in [Repos -> {"absent", "dir", "bare", "ready"}]
    /\ fetched \in SUBSET Snapshots
    /\ orphans \in SUBSET [snapshot : Snapshots, at : Names]
    /\ raced \in SUBSET Snapshots /\ cutoff \in SUBSET Repos /\ refused \in SUBSET Repos
    /\ kills \in 0 .. MaxKills /\ invocations \in 0 .. MaxInvocations

\* What has the name of a snapshot is a whole archive, however many downloads
\* were cut off, failed or were something else, and a manifest names every
\* snapshot with the digest of a whole archive, or of a commit that is there.
\* The exception is a snapshot that is fetched again while a curl that
\* outlived its invocation has not opened the .part yet.
SnapshotsWhole ==
    /\ \A s \in Snapshots \ raced : archive[s] \in {"absent", "whole"}
    /\ manifest # {} =>
        \A s \in Snapshots \ raced : \E row \in manifest :
            /\ row.snapshot = s
            /\ row.digest = "whole" \/ (row.digest = "git" /\ s \in fetched)

\* git refuses to work in a repository only if its creation was cut off, by a
\* kill or by a git command that failed, between the mkdir and the remote:
\* no worker meets the half-made repository of another.
RefusesOnlyCutOff == refused \subseteq cutoff
=============================================================================
