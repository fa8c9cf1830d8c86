-------------------------- MODULE SnapshotsProofs --------------------------
(***************************************************************************)
(* Proofs about Snapshots, for every selection of instances, any number of *)
(* workers, attempts, kills and invocations.                               *)
(***************************************************************************)
EXTENDS Snapshots, FiniteSetTheorems, SequenceTheorems, TLAPS

----------------------------------------------------------------------------
(* What the pool is given. *)

\* SetToSeq lists the elements of a finite set, each once.
LEMMA Lists ==
  ASSUME NEW S, IsFiniteSet(S)
  PROVE  /\ SetToSeq(S) \in Seq(S)
         /\ \A i, j \in 1..Len(SetToSeq(S)) :
              i # j => SetToSeq(S)[i] # SetToSeq(S)[j]
         /\ \A x \in S : \E i \in 1..Len(SetToSeq(S)) : SetToSeq(S)[i] = x
<1> DEFINE n == Cardinality(S)
           f == SetToSeq(S)
<1>1. n \in Nat /\ \E g \in [1..n -> S] : IsInjective(g)
  BY FS_CardinalityType DEF ExistsBijection, Bijection, Injection
<1>2. f \in [1..n -> S] /\ IsInjective(f)
  BY <1>1 DEF SetToSeq
<1>3. f \in Seq(S) /\ Len(f) = n
  BY <1>1, <1>2
<1>4. \A i, j \in 1..n : i # j => f[i] # f[j]
  BY <1>2 DEF IsInjective
<1>5. \A x \in S : \E i \in 1..n : f[i] = x
  <2>1. f \in Injection(1..n, S)
    BY <1>2 DEF Injection
  <2>2. Cardinality(1..n) = n
    BY <1>1, FS_Interval
  <2>3. f \in Surjection(1..n, S)
    BY <2>1, <2>2, FS_Injection
  <2> QED
    BY <2>3 DEF Surjection
<1> QED
  BY <1>3, <1>4, <1>5

LEMMA SnapshotsFinite == IsFiniteSet(Snapshots) /\ Snapshots # {}
<1> USE SnapshotsAssumption
<1>1. Tasks \in [1..Len(Tasks) -> Snapshots] /\ Len(Tasks) \in Nat /\ DOMAIN Tasks = 1..Len(Tasks)
  BY LenProperties
<1>2. Len(Tasks) > 0
  BY EmptySeq
<1>3. Tasks \in Surjection(1..Len(Tasks), Snapshots)
  BY <1>1 DEF Surjection, Snapshots
<1>4. IsFiniteSet(Snapshots)
  BY <1>1, <1>3, FS_Interval, FS_Surjection
<1>5. Tasks[1] \in Snapshots
  BY <1>1, <1>2
<1> QED
  BY <1>4, <1>5

LEMMA ReposFinite == IsFiniteSet(Repos)
<1> DEFINE g == [s \in Snapshots |-> RepoOf[s]]
<1>1. g \in Surjection(Snapshots, Repos)
  BY DEF Surjection, Repos
<1> QED
  BY <1>1, SnapshotsFinite, FS_Surjection

Kinds(m) == IF m = "archive" THEN Snapshots ELSE Repos

\* The pool begins with every item of its kind, each once.
LEMMA ItemsFacts ==
  ASSUME NEW m
  PROVE  /\ Items(m) \in Seq(Kinds(m))
         /\ \A i, j \in 1..Len(Items(m)) : i # j => Items(m)[i] # Items(m)[j]
         /\ \A x \in Kinds(m) : \E i \in 1..Len(Items(m)) : Items(m)[i] = x
BY Lists, SnapshotsFinite, ReposFinite, Zenon DEF Items, Kinds

\* A repository has a commit, and all of its commits are fetched.
LEMMA CommitsFacts ==
  ASSUME NEW r \in Repos
  PROVE  /\ CommitsOf(r) \in Seq(Snapshots) /\ CommitsOf(r) # <<>>
         /\ \A s \in Snapshots : RepoOf[s] = r =>
              \E i \in 1..Len(CommitsOf(r)) : CommitsOf(r)[i] = s
<1> DEFINE C == {s \in Snapshots : RepoOf[s] = r}
<1>1. IsFiniteSet(C) /\ C \subseteq Snapshots
  BY SnapshotsFinite, FS_Subset
<1>2. C # {}
  BY DEF Repos
<1>3. CommitsOf(r) = SetToSeq(C)
  BY DEF CommitsOf
<1> HIDE DEF C
<1>4. SetToSeq(C) \in Seq(C) /\ \A s \in C : \E i \in 1..Len(SetToSeq(C)) : SetToSeq(C)[i] = s
  BY <1>1, Lists
<1>5. CommitsOf(r) \in Seq(C) /\ \A s \in C : \E i \in 1..Len(CommitsOf(r)) : CommitsOf(r)[i] = s
  BY <1>4, <1>3
<1>6. CommitsOf(r) # <<>>
  <2> PICK s \in C : TRUE
    BY <1>2
  <2>1. 1..Len(CommitsOf(r)) # {}
    BY <1>5
  <2>2. Len(<<>>) = 0
    BY EmptySeq
  <2> QED
    BY <2>1, <2>2
<1>7. CommitsOf(r) \in Seq(Snapshots)
  BY <1>1, <1>5, SeqMonotonic
<1> QED
  BY <1>5, <1>6, <1>7 DEF C

----------------------------------------------------------------------------
(* Types, in three parts: the pool, the files and curls, the rest. *)

ArchiveSteps == {"idle", "look", "curl", "check", "failed", "rename"}
GitSteps == {"idle", "repo", "init", "add", "fetch"}
StepsOf(m) == IF m = "archive" THEN ArchiveSteps ELSE GitSteps
Modes == {"archive", "partial_git"}
CurlNames == Names \cup {"none"}
Futures(m) == [item : Kinds(m), raised : BOOLEAN]

\* A pool has items and steps of one kind, and is empty between invocations.
PoolTypes ==
    /\ main \in {"idle", "working", "draining"} /\ mode \in Modes
    /\ todo \in Seq(Kinds(mode))
    /\ item \in [Workers -> Kinds(mode) \cup {NoOne}]
    /\ step \in [Workers -> StepsOf(mode)]
    /\ left \in [Workers -> 0 .. Attempts]
    /\ commits \in [Workers -> Seq(Snapshots)]
    /\ curl \in [Workers -> CurlNames]
    /\ finished \in SUBSET Futures(mode)
    /\ \A w \in Workers : item[w] = NoOne <=> step[w] = "idle"
    /\ \A w \in Workers : curl[w] # "none" => step[w] = "curl"
    /\ \A w \in Workers :
          (mode = "partial_git" /\ step[w] # "idle") => commits[w] # <<>>
    /\ main = "idle" =>
          todo = <<>> /\ finished = {} /\ \A w \in Workers : item[w] = NoOne

Orphans == [snapshot : Snapshots, at : Names]

FileTypes ==
    /\ part \in [Snapshots -> Contents] /\ archive \in [Snapshots -> Contents]
    /\ git \in [Repos -> {"absent", "dir", "bare", "ready"}]
    /\ fetched \in SUBSET Snapshots
    /\ orphans \in SUBSET Orphans
    /\ raced \in SUBSET Snapshots /\ cutoff \in SUBSET Repos /\ refused \in SUBSET Repos

Rows == [snapshot : Snapshots, digest : Contents \cup {"git"}]

BookTypes ==
    /\ rows \in SUBSET Rows /\ manifest \in SUBSET Rows
    /\ kills \in 0 .. MaxKills /\ invocations \in 0 .. MaxInvocations

TypeInv == PoolTypes /\ FileTypes /\ BookTypes

LEMMA NoOneIsNone == \A m : NoOne \notin Kinds(m)
BY SnapshotsAssumption DEF Kinds

\* A worker that has a step of one kind tells the mode.
LEMMA ModeOf ==
  ASSUME PoolTypes, NEW w \in Workers
  PROVE  /\ step[w] \in {"look", "curl", "check", "failed", "rename"} =>
              mode = "archive" /\ item[w] \in Snapshots
         /\ step[w] \in {"repo", "init", "add", "fetch"} =>
              mode = "partial_git" /\ item[w] \in Repos
<1>1. step[w] # "idle" => item[w] \in Kinds(mode)
  BY DEF PoolTypes
<1> QED
  BY <1>1 DEF PoolTypes, StepsOf, ArchiveSteps, GitSteps, Modes, Kinds

\* A step within an item keeps the types of the pool.
LEMMA GoesTypes ==
  ASSUME PoolTypes, NEW w \in Workers, NEW next, Goes(w, next), step[w] # "idle",
         next \in StepsOf(mode) \ {"idle"},
         UNCHANGED <<main, mode, todo>>,
         left' \in [Workers -> 0 .. Attempts],
         curl' \in [Workers -> CurlNames],
         \A v \in Workers : curl'[v] # "none" => v # w /\ step[v] = "curl"
  PROVE  PoolTypes'
<1>1. /\ step' \in [Workers -> StepsOf(mode)]
      /\ step'[w] = next /\ \A v \in Workers : v # w => step'[v] = step[v]
  BY DEF PoolTypes, Goes
<1> QED
  BY <1>1 DEF PoolTypes, Goes

\* So does the end of a future.
LEMMA ReturnsTypes ==
  ASSUME PoolTypes, NEW w \in Workers, NEW r \in BOOLEAN, Returns(w, r), step[w] # "idle",
         UNCHANGED <<main, mode, todo>>,
         curl' \in [Workers -> CurlNames],
         \A v \in Workers : curl'[v] # "none" => v # w /\ step[v] = "curl"
  PROVE  PoolTypes'
<1>1. item[w] \in Kinds(mode) /\ main # "idle"
  BY DEF PoolTypes
<1>2. finished' \in SUBSET Futures(mode)
  BY <1>1 DEF PoolTypes, Returns, Futures
<1>3. /\ item' \in [Workers -> Kinds(mode) \cup {NoOne}]
      /\ step' \in [Workers -> StepsOf(mode)]
      /\ item'[w] = NoOne /\ step'[w] = "idle"
      /\ \A v \in Workers : v # w => item'[v] = item[v] /\ step'[v] = step[v]
  BY DEF PoolTypes, Returns, StepsOf, ArchiveSteps, GitSteps
<1>4. /\ left' \in [Workers -> 0 .. Attempts]
      /\ commits' \in [Workers -> Seq(Snapshots)]
      /\ \A v \in Workers : v # w => commits'[v] = commits[v]
  BY SnapshotsAssumption DEF PoolTypes, Returns
<1> QED
  BY <1>1, <1>2, <1>3, <1>4 DEF PoolTypes

\* Renaming or removing a file renames outputs, and starts no curl.
LEMMA MovedTypes ==
  ASSUME PoolTypes, FileTypes, NEW s, NEW from, NEW to \in Names, Moved(s, from, to),
         from # "none"
  PROVE  /\ curl' \in [Workers -> CurlNames] /\ orphans' \in SUBSET Orphans
         /\ \A v \in Workers : curl'[v] # "none" => curl[v] # "none"
         /\ \A v \in Workers : curl'[v] # curl[v] => item[v] = s /\ curl[v] = from /\ curl'[v] = to
<1>1. curl' = [v \in Workers |-> IF item[v] = s /\ curl[v] = from THEN to ELSE curl[v]]
  BY DEF Moved
<1>2. curl' \in [Workers -> CurlNames]
  BY <1>1 DEF PoolTypes, CurlNames
<1>3. ASSUME NEW o \in orphans
      PROVE (IF o.snapshot = s /\ o.at = from THEN [o EXCEPT !.at = to] ELSE o) \in Orphans
  BY <1>3 DEF FileTypes, Orphans
<1>4. orphans' \in SUBSET Orphans
  BY <1>3 DEF Moved
<1> QED
  BY <1>1, <1>2, <1>4

LEMMA WrittenTypes ==
  ASSUME FileTypes, NEW s, NEW name, NEW C \in SUBSET Contents, Written(s, name, C)
  PROVE  part' \in [Snapshots -> Contents] /\ archive' \in [Snapshots -> Contents]
BY DEF FileTypes, Written

LEMMA LastWriteTypes ==
  ASSUME FileTypes, NEW s, NEW name, LastWrite(s, name)
  PROVE  part' \in [Snapshots -> Contents] /\ archive' \in [Snapshots -> Contents]
<1> DEFINE C == IF Writers(s, name) > 1 THEN {"bad", "torn", "whole"} ELSE {"bad", "whole"}
<1>1. C \in SUBSET Contents
  BY DEF Contents
<1>2. Written(s, name, C)
  BY DEF LastWrite
<1> QED
  BY <1>1, <1>2, WrittenTypes

LEMMA ArchiveTypes ==
  ASSUME TypeInv, NEW w \in Workers, ArchiveStep(w)
  PROVE  TypeInv'
<1> USE DEF TypeInv
<1>1. \A v \in Workers : curl[v] # "none" => step[v] = "curl"
  BY DEF PoolTypes
<1>2. CASE LookFinds(w)
  <2>1. PoolTypes'
    BY <1>1, <1>2, ReturnsTypes DEF LookFinds, PoolTypes
  <2> QED
    BY <1>2, <2>1 DEF LookFinds, FileTypes, BookTypes, fileVars, historyVars
<1>3. ASSUME Clean(item[w]), step[w] \in {"look", "check", "failed"},
             UNCHANGED <<archive, git, fetched, cutoff, refused, rows, manifest, kills, invocations>>
      PROVE  /\ curl' \in [Workers -> CurlNames]
             /\ \A v \in Workers : curl'[v] # "none" => v # w /\ step[v] = "curl"
             /\ FileTypes' /\ BookTypes'
  <2>1. Moved(item[w], "part", "nowhere")
    BY <1>3 DEF Clean
  <2>2. /\ curl' \in [Workers -> CurlNames] /\ orphans' \in SUBSET Orphans
        /\ \A v \in Workers : curl'[v] # "none" => curl[v] # "none"
    BY <2>1, MovedTypes DEF Names
  <2>3. part' \in [Snapshots -> Contents] /\ raced' \in SUBSET Snapshots
    BY <1>3, ModeOf DEF Clean, FileTypes, Contents
  <2> QED
    BY <1>1, <1>3, <2>2, <2>3 DEF FileTypes, BookTypes
<1>4. CASE LookFails(w)
  <2>1. "curl" \in StepsOf(mode) \ {"idle"}
    BY <1>4, ModeOf DEF LookFails, StepsOf, ArchiveSteps
  <2>2. PoolTypes'
    BY <1>3, <1>4, <2>1, GoesTypes DEF LookFails, PoolTypes
  <2> QED
    BY <1>3, <1>4, <2>2 DEF LookFails
<1>5. CASE StartCurl(w)
  BY <1>5 DEF StartCurl, PoolTypes, FileTypes, BookTypes, CurlNames, Names, fileVars, historyVars
<1>6. CASE CurlWrites(w)
  <2>1. curl' \in [Workers -> CurlNames] /\ \A v \in Workers : curl'[v] # "none" => curl[v] # "none"
    BY <1>6 DEF CurlWrites, PoolTypes, CurlNames, Names, Opened
  <2>2. part' \in [Snapshots -> Contents] /\ archive' \in [Snapshots -> Contents]
    <3>1. {"empty", "torn"} \in SUBSET Contents
      BY DEF Contents
    <3> QED
      BY <1>6, <3>1, WrittenTypes DEF CurlWrites
  <2> QED
    BY <1>1, <1>6, <2>1, <2>2 DEF CurlWrites, PoolTypes, FileTypes, BookTypes, historyVars
<1>7. CASE CurlSucceeds(w)
  <2>1. step[w] = "curl"
    BY <1>1, <1>7 DEF CurlSucceeds
  <2>2. "check" \in StepsOf(mode) \ {"idle"}
    BY <2>1, ModeOf DEF StepsOf, ArchiveSteps
  <2>3. PoolTypes'
    BY <1>1, <1>7, <2>1, <2>2, GoesTypes DEF CurlSucceeds, PoolTypes, CurlNames
  <2>4. part' \in [Snapshots -> Contents] /\ archive' \in [Snapshots -> Contents]
    BY <1>7, LastWriteTypes DEF CurlSucceeds
  <2> QED
    BY <1>7, <2>3, <2>4 DEF CurlSucceeds, FileTypes, BookTypes, historyVars
<1>8. CASE CurlFails(w)
  <2>1. step[w] = "curl"
    BY <1>1, <1>8 DEF CurlFails
  <2>2. "failed" \in StepsOf(mode) \ {"idle"}
    BY <2>1, ModeOf DEF StepsOf, ArchiveSteps
  <2>3. PoolTypes'
    BY <1>1, <1>8, <2>1, <2>2, GoesTypes DEF CurlFails, PoolTypes, CurlNames
  <2> QED
    BY <1>8, <2>3 DEF CurlFails, FileTypes, BookTypes, fileVars, historyVars
<1>9. CASE Check(w)
  <2>1. "rename" \in StepsOf(mode) \ {"idle"} /\ step[w] # "idle" /\ curl[w] = "none"
    BY <1>1, <1>9, ModeOf DEF Check, StepsOf, ArchiveSteps
  <2>2. PoolTypes'
    BY <1>1, <1>9, <2>1, GoesTypes DEF Check, PoolTypes
  <2> QED
    BY <1>9, <2>2 DEF Check, FileTypes, BookTypes, fileVars, historyVars
<1>10. CASE Retry(w)
  <2>1. "curl" \in StepsOf(mode) \ {"idle"}
    BY <1>10, ModeOf DEF Retry, StepsOf, ArchiveSteps
  <2>2. left' \in [Workers -> 0 .. Attempts]
    BY <1>10, SnapshotsAssumption DEF Retry, PoolTypes
  <2>3. PoolTypes'
    BY <1>3, <1>10, <2>1, <2>2, GoesTypes DEF Retry, PoolTypes
  <2> QED
    BY <1>3, <1>10, <2>3 DEF Retry
<1>11. CASE DownloadFails(w)
  <2>1. PoolTypes'
    BY <1>3, <1>11, ReturnsTypes DEF DownloadFails, PoolTypes
  <2> QED
    BY <1>3, <1>11, <2>1 DEF DownloadFails
<1>12. CASE Rename(w)
  <2>1. step[w] = "rename" /\ curl[w] = "none" /\ item[w] \in Snapshots
    BY <1>1, <1>12, ModeOf DEF Rename
  <2>2. CASE part[item[w]] = "absent"
    <3>1. Returns(w, TRUE) /\ UNCHANGED <<part, archive, curl, orphans>>
      BY <1>12, <2>2 DEF Rename
    <3>2. PoolTypes'
      BY <1>1, <1>12, <2>1, <3>1, ReturnsTypes DEF Rename, PoolTypes
    <3> QED
      BY <1>12, <3>1, <3>2 DEF Rename, FileTypes, BookTypes, historyVars
  <2>3. CASE part[item[w]] # "absent"
    <3>1. /\ archive' = [archive EXCEPT ![item[w]] = part[item[w]]]
          /\ part' = [part EXCEPT ![item[w]] = "absent"]
          /\ Moved(item[w], "part", "archive") /\ Returns(w, FALSE)
      BY <1>12, <2>3 DEF Rename
    <3>2. /\ curl' \in [Workers -> CurlNames] /\ orphans' \in SUBSET Orphans
          /\ \A v \in Workers : curl'[v] # "none" => curl[v] # "none"
      BY <3>1, MovedTypes DEF Names
    <3>3. PoolTypes'
      BY <1>1, <1>12, <2>1, <3>1, <3>2, ReturnsTypes DEF Rename
    <3>4. part' \in [Snapshots -> Contents] /\ archive' \in [Snapshots -> Contents]
      BY <2>1, <3>1 DEF FileTypes, Contents
    <3> QED
      BY <1>12, <3>2, <3>3, <3>4 DEF Rename, FileTypes, BookTypes, historyVars
  <2> QED
    BY <2>2, <2>3
<1> QED
  BY <1>2, <1>4, <1>5, <1>6, <1>7, <1>8, <1>9, <1>10, <1>11, <1>12 DEF ArchiveStep

LEMMA GitTypes ==
  ASSUME TypeInv, NEW w \in Workers, GitStep(w)
  PROVE  TypeInv'
<1> USE DEF TypeInv, gitUnchanged
<1>1. step[w] \in {"repo", "init", "add", "fetch"}
  BY DEF GitStep, MakeDir, InitBare, RemoteAdd, Creates, CreationFails, SetUrl, SetUrlFails,
         HasCommit, Fetches, FetchFails
<1>2. /\ mode = "partial_git" /\ item[w] \in Repos /\ curl[w] = "none"
      /\ commits[w] \in Seq(Snapshots) /\ commits[w] # <<>>
      /\ \A v \in Workers : curl[v] # "none" => v # w /\ step[v] = "curl"
      /\ curl \in [Workers -> CurlNames] /\ left \in [Workers -> 0 .. Attempts]
  BY <1>1, ModeOf DEF PoolTypes
<1>3. {"repo", "init", "add", "fetch"} \subseteq StepsOf(mode) \ {"idle"}
  BY <1>2 DEF StepsOf, GitSteps
<1>4. BookTypes' /\ UNCHANGED <<main, mode, todo, curl, part, archive, orphans, raced>>
  BY DEF GitStep, MakeDir, InitBare, RemoteAdd, Creates, CreationFails, SetUrl, SetUrlFails,
         HasCommit, Fetches, FetchFails, BookTypes
<1>5. FileTypes'
  <2>1. CASE MakeDir(w) \/ InitBare(w) \/ RemoteAdd(w)
    BY <1>2, <1>4, <2>1 DEF MakeDir, InitBare, RemoteAdd, Creates, FileTypes
  <2>2. CASE CreationFails(w) \/ SetUrl(w) \/ SetUrlFails(w)
    BY <1>2, <1>4, <2>2 DEF CreationFails, SetUrl, SetUrlFails, FileTypes
  <2>3. CASE HasCommit(w) \/ Fetches(w) \/ FetchFails(w)
    <3>1. Head(commits[w]) \in Snapshots
      BY <1>2, HeadTailProperties
    <3>2. fetched' \in SUBSET Snapshots /\ UNCHANGED <<git, cutoff, refused>>
      BY <2>3, <3>1 DEF HasCommit, Fetches, FetchFails, FileTypes
    <3> QED
      BY <1>4, <3>2 DEF FileTypes
  <2> QED
    BY <2>1, <2>2, <2>3 DEF GitStep
<1>6. ASSUME NEW next \in {"repo", "init", "add", "fetch"}, Goes(w, next), UNCHANGED left
      PROVE PoolTypes'
  <2>1. next \in StepsOf(mode) \ {"idle"} /\ step[w] # "idle"
    BY <1>1, <1>3
  <2>2. left' \in [Workers -> 0 .. Attempts] /\ curl' \in [Workers -> CurlNames]
    BY <1>2, <1>4, <1>6
  <2>3. \A v \in Workers : curl'[v] # "none" => v # w /\ step[v] = "curl"
    BY <1>2, <1>4
  <2> QED
    BY <1>4, <1>6, <2>1, <2>2, <2>3, GoesTypes
<1>7. ASSUME NEW r \in BOOLEAN, Returns(w, r)
      PROVE PoolTypes'
  BY <1>1, <1>2, <1>3, <1>4, <1>7, ReturnsTypes
<1>8. PoolTypes'
  <2>1. CASE MakeDir(w) \/ InitBare(w) \/ RemoteAdd(w) \/ SetUrl(w)
    BY <1>6, <2>1 DEF MakeDir, InitBare, RemoteAdd, Creates, SetUrl
  <2>2. CASE CreationFails(w) \/ SetUrlFails(w) \/ FetchFails(w)
    BY <1>7, <2>2 DEF CreationFails, SetUrlFails, FetchFails
  <2>3. CASE HasCommit(w)
    <3>1. CASE Len(commits[w]) = 1
      BY <1>7, <2>3, <3>1 DEF HasCommit
    <3>2. CASE Len(commits[w]) # 1
      <4>1. /\ commits' = [commits EXCEPT ![w] = Tail(@)]
            /\ left' = [left EXCEPT ![w] = Attempts]
            /\ step' = [step EXCEPT ![w] = "repo"]
            /\ UNCHANGED <<item, finished>>
        BY <2>3, <3>2 DEF HasCommit
      <4>2. Tail(commits[w]) \in Seq(Snapshots) /\ Tail(commits[w]) # <<>>
        <5>1. Tail(commits[w]) \in Seq(Snapshots) /\ Len(Tail(commits[w])) = Len(commits[w]) - 1
          BY <1>2, HeadTailProperties
        <5>2. Len(commits[w]) \in Nat \ {0}
          BY <1>2, EmptySeq
        <5>3. Len(Tail(commits[w])) # 0
          BY <3>2, <5>1, <5>2
        <5>4. Len(<<>>) = 0
          BY EmptySeq
        <5> QED
          BY <5>1, <5>3, <5>4
      <4>3. /\ commits' \in [Workers -> Seq(Snapshots)] /\ commits'[w] # <<>>
            /\ \A v \in Workers : v # w => commits'[v] = commits[v]
        BY <4>1, <4>2 DEF PoolTypes
      <4>4. left' \in [Workers -> 0 .. Attempts]
        BY <1>2, <4>1, SnapshotsAssumption
      <4>5. /\ step' \in [Workers -> StepsOf(mode)] /\ step'[w] = "repo"
            /\ \A v \in Workers : v # w => step'[v] = step[v]
        BY <1>3, <4>1 DEF PoolTypes
      <4> QED
        <5>1. \A v \in Workers : item[v] = NoOne <=> step'[v] = "idle"
          BY <1>1, <4>5 DEF PoolTypes
        <5>2. \A v \in Workers : curl[v] # "none" => step'[v] = "curl"
          BY <1>2, <4>5
        <5>3. \A v \in Workers : step'[v] # "idle" => commits'[v] # <<>>
          BY <1>2, <4>3, <4>5 DEF PoolTypes
        <5> QED
          BY <1>4, <4>1, <4>3, <4>4, <4>5, <5>1, <5>2, <5>3 DEF PoolTypes
    <3> QED
      BY <3>1, <3>2
  <2>4. CASE Fetches(w)
    <3>1. left' \in [Workers -> 0 .. Attempts]
      BY <1>2, <2>4, SnapshotsAssumption DEF Fetches
    <3> QED
      BY <1>4, <2>4, <3>1 DEF Fetches, PoolTypes
  <2> QED
    BY <2>1, <2>2, <2>3, <2>4 DEF GitStep
<1> QED
  BY <1>4, <1>5, <1>8

LEMMA MainTypes ==
  ASSUME TypeInv,
         \/ \E m \in Modes : Invoke(m)
         \/ \E w \in Workers : Take(w)
         \/ Collect \/ Conclude \/ Raise \/ Kill
         \/ \E o \in orphans : OrphanWrites(o) \/ OrphanEnds(o)
  PROVE  TypeInv'
<1> USE DEF TypeInv
<1>1. ASSUME NEW m \in Modes, Invoke(m) PROVE TypeInv'
  <2>1. Items(m) \in Seq(Kinds(m))
    BY ItemsFacts
  <2>2. \A w \in Workers : item[w] = NoOne /\ step[w] = "idle" /\ curl[w] = "none"
    BY <1>1 DEF Invoke, PoolTypes
  <2>3. finished = {}
    BY <1>1 DEF Invoke, PoolTypes
  <2>4. PoolTypes'
    BY <1>1, <2>1, <2>2, <2>3 DEF Invoke, PoolTypes, StepsOf, ArchiveSteps, GitSteps
  <2> QED
    BY <1>1, <2>4, SnapshotsAssumption DEF Invoke, FileTypes, BookTypes, fileVars, historyVars
<1>2. ASSUME NEW w \in Workers, Take(w) PROVE TypeInv'
  <2>1. Head(todo) \in Kinds(mode) /\ Tail(todo) \in Seq(Kinds(mode)) /\ main # "idle"
    BY <1>2, HeadTailProperties DEF Take, PoolTypes
  <2>2. step[w] = "idle" /\ curl[w] = "none"
    BY <1>2 DEF Take, PoolTypes
  <2>3. Head(todo) # NoOne
    BY <2>1, NoOneIsNone
  <2>4. CASE mode = "archive"
    <3>1. PoolTypes'
      BY <1>2, <2>1, <2>2, <2>3, <2>4, SnapshotsAssumption, EmptySeq
      DEF Take, PoolTypes, StepsOf, ArchiveSteps
    <3> QED
      BY <1>2, <3>1 DEF Take, FileTypes, BookTypes, fileVars, historyVars
  <2>5. CASE mode # "archive"
    <3>1. CommitsOf(Head(todo)) \in Seq(Snapshots) /\ CommitsOf(Head(todo)) # <<>>
      BY <2>1, <2>5, CommitsFacts DEF Kinds
    <3>2. PoolTypes'
      BY <1>2, <2>1, <2>2, <2>3, <2>5, <3>1, SnapshotsAssumption DEF Take, PoolTypes, StepsOf, GitSteps
    <3> QED
      BY <1>2, <3>2 DEF Take, FileTypes, BookTypes, fileVars, historyVars
  <2> QED
    BY <2>4, <2>5
<1>3. CASE Collect
  <2>1. PICK f \in finished :
          /\ finished' = finished \ {f}
          /\ IF f.raised THEN main' = "draining" /\ UNCHANGED rows
             ELSE rows' = rows \cup RowsOf(f.item) /\ UNCHANGED main
    BY <1>3 DEF Collect
  <2>2. f.item \in Kinds(mode)
    BY DEF PoolTypes, Futures
  <2>3. RowsOf(f.item) \in SUBSET Rows
    BY <2>2 DEF RowsOf, Rows, Kinds, FileTypes
  <2>4. rows' \in SUBSET Rows
    BY <2>1, <2>3 DEF BookTypes
  <2>5. main' \in {"idle", "working", "draining"} /\ main' # "idle" /\ finished' \in SUBSET Futures(mode)
    BY <1>3, <2>1 DEF Collect, PoolTypes
  <2> QED
    BY <1>3, <2>4, <2>5 DEF Collect, PoolTypes, FileTypes, BookTypes, fileVars, historyVars
<1>4. CASE Conclude
  BY <1>4 DEF Conclude, PoolIsDone, PoolTypes, FileTypes, BookTypes, poolVars, historyVars
<1>5. CASE Raise
  BY <1>5 DEF Raise, PoolIsDone, PoolTypes, FileTypes, BookTypes, fileVars, historyVars
<1>6. CASE Kill
  <2>1. PoolTypes'
    BY <1>6, EmptySeq, SnapshotsAssumption
    DEF Kill, PoolTypes, StepsOf, ArchiveSteps, GitSteps, CurlNames
  <2>2. orphans' \in SUBSET Orphans
    <3>1. PICK survivors \in SUBSET {w \in Workers : curl[w] # "none"} :
            orphans' = orphans \cup {[snapshot |-> item[w], at |-> curl[w]] : w \in survivors}
      BY <1>6 DEF Kill
    <3>2. ASSUME NEW w \in survivors
          PROVE [snapshot |-> item[w], at |-> curl[w]] \in Orphans
      <4>1. w \in Workers /\ curl[w] # "none" /\ step[w] = "curl" /\ curl[w] \in Names
        BY DEF PoolTypes, CurlNames
      <4>2. item[w] \in Snapshots
        BY <4>1, ModeOf
      <4> QED
        BY <4>1, <4>2 DEF Orphans
    <3> QED
      BY <3>1, <3>2 DEF FileTypes
  <2>3. kills' \in 0 .. MaxKills
    BY <1>6, SnapshotsAssumption DEF Kill, BookTypes
  <2> QED
    BY <1>6, <2>1, <2>2, <2>3 DEF Kill, FileTypes, BookTypes, fileVars
<1>7. ASSUME NEW o \in orphans, OrphanWrites(o) PROVE TypeInv'
  <2>1. o \in Orphans /\ [o EXCEPT !.at = Opened(@)] \in Orphans
    BY DEF FileTypes, Orphans, Opened, Names
  <2>2. part' \in [Snapshots -> Contents] /\ archive' \in [Snapshots -> Contents]
    <3>1. {"empty", "torn"} \in SUBSET Contents
      BY DEF Contents
    <3> QED
      BY <1>7, <3>1, WrittenTypes DEF OrphanWrites
  <2> QED
    BY <1>7, <2>1, <2>2 DEF OrphanWrites, PoolTypes, FileTypes, BookTypes, poolVars, historyVars
<1>8. ASSUME NEW o \in orphans, OrphanEnds(o) PROVE TypeInv'
  <2>1. part' \in [Snapshots -> Contents] /\ archive' \in [Snapshots -> Contents]
    BY <1>8, LastWriteTypes DEF OrphanEnds, FileTypes
  <2> QED
    BY <1>8, <2>1 DEF OrphanEnds, PoolTypes, FileTypes, BookTypes, poolVars, historyVars
<1> QED
  BY <1>1, <1>2, <1>3, <1>4, <1>5, <1>6, <1>7, <1>8

LEMMA TypeStep == ASSUME TypeInv, [Next]_vars PROVE TypeInv'
<1>1. CASE UNCHANGED vars
  BY <1>1 DEF vars, poolVars, fileVars, historyVars, TypeInv, PoolTypes, FileTypes, BookTypes
<1>2. CASE Next
  BY <1>2, ArchiveTypes, GitTypes, MainTypes DEF Next, Modes
<1> QED
  BY <1>1, <1>2

\* Every variable of the cache keeps its type (TypeOK), whatever is killed.
THEOREM SnapshotsTypeCorrect == Spec => []TypeOK
<1>1. Init => TypeInv
  BY SnapshotsAssumption, EmptySeq
  DEF Init, TypeInv, PoolTypes, FileTypes, BookTypes, Modes, StepsOf, ArchiveSteps, CurlNames,
      Contents
<1>2. TypeInv /\ [Next]_vars => TypeInv'
  BY TypeStep
<1>3. TypeInv => TypeOK
  <2> SUFFICES ASSUME TypeInv PROVE TypeOK
    OBVIOUS
  <2>1. todo \in Seq(Snapshots \cup Repos)
    BY SeqMonotonic DEF TypeInv, PoolTypes, Kinds
  <2>2. /\ item \in [Workers -> Snapshots \cup Repos \cup {NoOne}]
        /\ finished \in SUBSET [item : Snapshots \cup Repos, raised : BOOLEAN]
    BY DEF TypeInv, PoolTypes, Kinds, Futures
  <2>3. step \in [Workers -> {"idle", "look", "curl", "check", "failed", "rename",
                             "repo", "init", "add", "fetch"}]
    BY DEF TypeInv, PoolTypes, StepsOf, ArchiveSteps, GitSteps
  <2> QED
    BY <2>1, <2>2, <2>3
    DEF TypeOK, TypeInv, PoolTypes, FileTypes, BookTypes, CurlNames, Orphans, Rows, Modes
<1> QED
  BY <1>1, <1>2, <1>3, PTL DEF Spec

----------------------------------------------------------------------------
(* No two workers are at one item, nor is an item of a worker still to do. *)

DistinctInv ==
    /\ \A i, j \in 1..Len(todo) : i # j => todo[i] # todo[j]
    /\ \A w, v \in Workers : w # v /\ item[w] # NoOne => item[w] # item[v]
    /\ \A w \in Workers : \A i \in 1..Len(todo) : item[w] # todo[i]

\* All that a step can do to the items.
ItemsStay == UNCHANGED <<todo, item>>
ItemTaken(w) ==
    /\ todo # <<>> /\ todo' = Tail(todo) /\ item[w] = NoOne
    /\ item' = [item EXCEPT ![w] = Head(todo)]
ItemDone(w) == todo' = todo /\ item' = [item EXCEPT ![w] = NoOne]
ItemsGiven(m) == main = "idle" /\ todo' = Items(m) /\ UNCHANGED item
ItemsLost == todo' = <<>> /\ item' = [w \in Workers |-> NoOne]

LEMMA PoolStep ==
  ASSUME [Next]_vars
  PROVE  \/ ItemsStay \/ ItemsLost
         \/ \E w \in Workers : ItemTaken(w) \/ ItemDone(w)
         \/ \E m \in Modes : ItemsGiven(m)
<1>1. CASE UNCHANGED vars
  BY <1>1 DEF vars, poolVars, ItemsStay
<1>2. ASSUME NEW m \in Modes, Invoke(m) PROVE ItemsGiven(m)
  BY <1>2 DEF Invoke, ItemsGiven
<1>3. ASSUME NEW w \in Workers, Take(w) PROVE ItemTaken(w)
  BY <1>3 DEF Take, ItemTaken
<1>4. ASSUME NEW w \in Workers, ArchiveStep(w) PROVE ItemsStay \/ ItemDone(w)
  BY <1>4 DEF ArchiveStep, LookFinds, LookFails, StartCurl, CurlWrites, CurlSucceeds, CurlFails,
       Check, Retry, DownloadFails, Rename, Goes, Returns, ItemsStay, ItemDone
<1>5. ASSUME NEW w \in Workers, GitStep(w) PROVE ItemsStay \/ ItemDone(w)
  BY <1>5 DEF GitStep, MakeDir, InitBare, RemoteAdd, Creates, CreationFails, SetUrl, SetUrlFails,
       HasCommit, Fetches, FetchFails, Goes, Returns, gitUnchanged, ItemsStay, ItemDone
<1>6. CASE Collect \/ Conclude \/ Raise
  BY <1>6 DEF Collect, Conclude, Raise, poolVars, ItemsStay
<1>7. CASE Kill
  BY <1>7 DEF Kill, ItemsLost
<1>8. ASSUME NEW o \in orphans, OrphanWrites(o) \/ OrphanEnds(o) PROVE ItemsStay
  BY <1>8 DEF OrphanWrites, OrphanEnds, poolVars, ItemsStay
<1> QED
  BY <1>1, <1>2, <1>3, <1>4, <1>5, <1>6, <1>7, <1>8 DEF Next, Modes

LEMMA DistinctStep ==
  ASSUME TypeInv, DistinctInv, [Next]_vars
  PROVE  DistinctInv'
<1> USE DEF DistinctInv
<1>1. item \in [Workers -> Kinds(mode) \cup {NoOne}] /\ todo \in Seq(Kinds(mode))
  BY DEF TypeInv, PoolTypes
<1>2. \A i \in 1..Len(todo) : todo[i] # NoOne
  BY <1>1, ElementOfSeq, NoOneIsNone
<1>3. CASE ItemsStay
  BY <1>3 DEF ItemsStay
<1>4. CASE ItemsLost
  <2>1. Len(todo') = 0
    BY <1>4, EmptySeq DEF ItemsLost
  <2> QED
    BY <1>4, <2>1 DEF ItemsLost
<1>5. ASSUME NEW w \in Workers, ItemTaken(w) PROVE DistinctInv'
  <2>1. /\ Len(todo) \in Nat \ {0} /\ Len(todo') = Len(todo) - 1
        /\ \A i \in 1..Len(todo') : todo'[i] = todo[i + 1]
        /\ Head(todo) = todo[1]
    BY <1>1, <1>5, HeadTailProperties, EmptySeq DEF ItemTaken
  <2>2. \A i \in 1..Len(todo') : i + 1 \in 1..Len(todo)
    BY <2>1
  <2>3. item'[w] = todo[1] /\ \A v \in Workers : v # w => item'[v] = item[v]
    BY <1>1, <1>5, <2>1 DEF ItemTaken
  <2>4. \A i, j \in 1..Len(todo') : i # j => todo'[i] # todo'[j]
    BY <2>1, <2>2
  <2>5. \A u, v \in Workers : u # v /\ item'[u] # NoOne => item'[u] # item'[v]
    BY <2>1, <2>3
  <2>6. \A u \in Workers : \A i \in 1..Len(todo') : item'[u] # todo'[i]
    BY <2>1, <2>2, <2>3
  <2> QED
    BY <2>4, <2>5, <2>6
<1>6. ASSUME NEW w \in Workers, ItemDone(w) PROVE DistinctInv'
  BY <1>1, <1>2, <1>6 DEF ItemDone
<1>7. ASSUME NEW m \in Modes, ItemsGiven(m) PROVE DistinctInv'
  <2>1. \A w \in Workers : item'[w] = NoOne
    BY <1>7 DEF ItemsGiven, TypeInv, PoolTypes
  <2>2. \A i, j \in 1..Len(todo') : i # j => todo'[i] # todo'[j]
    BY <1>7, ItemsFacts DEF ItemsGiven
  <2>3. \A i \in 1..Len(todo') : todo'[i] # NoOne
    BY <1>7, ItemsFacts, ElementOfSeq, NoOneIsNone DEF ItemsGiven
  <2> QED
    BY <2>1, <2>2, <2>3
<1> QED
  BY <1>3, <1>4, <1>5, <1>6, <1>7, PoolStep

----------------------------------------------------------------------------
(* Repositories.  One that is half made is being made by the one worker    *)
(* that is at it, or its creation was cut off.                             *)

CutInv ==
    /\ refused \subseteq cutoff
    /\ \A r \in Repos : git[r] \in {"dir", "bare"} =>
          \/ r \in cutoff
          \/ \E w \in Workers : item[w] = r /\ step[w] \in {"init", "add"}

LEMMA CutStep ==
  ASSUME TypeInv, DistinctInv, CutInv, [Next]_vars
  PROVE  CutInv'
<1> USE DEF CutInv
<1>1. /\ item \in [Workers -> Kinds(mode) \cup {NoOne}] /\ step \in [Workers -> StepsOf(mode)]
      /\ git \in [Repos -> {"absent", "dir", "bare", "ready"}]
  BY DEF TypeInv, PoolTypes, FileTypes
<1>2. ASSUME UNCHANGED <<git, cutoff, refused>>,
             \A w \in Workers : step[w] \in {"init", "add"} =>
                step'[w] = step[w] /\ item'[w] = item[w]
      PROVE  CutInv'
  BY <1>2
<1>3. CASE UNCHANGED vars
  BY <1>2, <1>3 DEF vars, poolVars, fileVars, historyVars
<1>4. ASSUME NEW m \in Modes, Invoke(m) PROVE CutInv'
  BY <1>2, <1>4 DEF Invoke, fileVars, historyVars
<1>5. ASSUME NEW w \in Workers, Take(w) PROVE CutInv'
  <2>1. step[w] = "idle"
    BY <1>5 DEF Take, TypeInv, PoolTypes
  <2> QED
    BY <1>1, <1>2, <1>5, <2>1 DEF Take, fileVars, historyVars
<1>6. ASSUME NEW w \in Workers, ArchiveStep(w) PROVE CutInv'
  <2>1. step[w] \notin {"init", "add"}
    <3>1. CASE curl[w] # "none"
      BY <3>1 DEF TypeInv, PoolTypes
    <3>2. CASE curl[w] = "none"
      BY <1>6, <3>2 DEF ArchiveStep, LookFinds, LookFails, StartCurl, CurlWrites, CurlSucceeds,
           CurlFails, Check, Retry, DownloadFails, Rename
    <3> QED
      BY <3>1, <3>2
  <2>2. \A v \in Workers : v # w => step'[v] = step[v] /\ item'[v] = item[v]
    BY <1>1, <1>6 DEF ArchiveStep, LookFinds, LookFails, StartCurl, CurlWrites, CurlSucceeds,
         CurlFails, Check, Retry, DownloadFails, Rename, Goes, Returns
  <2>3. UNCHANGED <<git, cutoff, refused>>
    BY <1>6 DEF ArchiveStep, LookFinds, LookFails, StartCurl, CurlWrites, CurlSucceeds,
         CurlFails, Check, Retry, DownloadFails, Rename, fileVars, historyVars
  <2> QED
    BY <1>2, <2>1, <2>2, <2>3
<1>7. ASSUME NEW w \in Workers, GitStep(w) PROVE CutInv'
  <2>1. step[w] \in {"repo", "init", "add", "fetch"}
    BY <1>7 DEF GitStep, MakeDir, InitBare, RemoteAdd, Creates, CreationFails, SetUrl,
           SetUrlFails, HasCommit, Fetches, FetchFails
  <2>2. item[w] \in Repos
    BY <2>1, ModeOf DEF TypeInv
  <2>3. \A v \in Workers : v # w => step'[v] = step[v] /\ item'[v] = item[v] /\ item[v] # item[w]
    <3>1. item[w] # NoOne
      BY <2>2, SnapshotsAssumption
    <3>2. \A v \in Workers : v # w => item[v] # item[w]
      BY <3>1 DEF DistinctInv
    <3>3. \A v \in Workers : v # w => step'[v] = step[v] /\ item'[v] = item[v]
      BY <1>1, <1>7 DEF GitStep, MakeDir, InitBare, RemoteAdd, Creates, CreationFails, SetUrl,
           SetUrlFails, HasCommit, Fetches, FetchFails, Goes, Returns
    <3> QED
      BY <3>2, <3>3
  <2>4. CASE MakeDir(w) \/ InitBare(w)
    <3>1. /\ item'[w] = item[w] /\ step'[w] \in {"init", "add"}
          /\ \A r \in Repos : r # item[w] => git'[r] = git[r]
          /\ UNCHANGED <<cutoff, refused>>
      BY <1>1, <2>2, <2>4 DEF MakeDir, InitBare, Creates, Goes
    <3> QED
      BY <2>2, <2>3, <3>1
  <2>5. CASE RemoteAdd(w)
    <3>1. /\ git'[item[w]] = "ready" /\ \A r \in Repos : r # item[w] => git'[r] = git[r]
          /\ UNCHANGED <<cutoff, refused>>
      BY <1>1, <2>2, <2>5 DEF RemoteAdd, Creates
    <3> QED
      BY <2>2, <2>3, <3>1
  <2>6. CASE CreationFails(w)
    BY <2>2, <2>3, <2>6 DEF CreationFails
  <2>7. CASE SetUrlFails(w)
    <3>1. /\ step[w] = "repo" /\ git[item[w]] # "absent" /\ UNCHANGED <<git, cutoff>>
          /\ refused' = refused \cup ({item[w]} \ {r \in Repos : git[r] = "ready"})
      BY <2>7 DEF SetUrlFails
    <3>2. item[w] \in Repos /\ git[item[w]] \in {"absent", "dir", "bare", "ready"}
      BY <2>2, <3>1 DEF TypeInv, PoolTypes, FileTypes
    <3>3. git[item[w]] # "ready" => item[w] \in cutoff
      BY <2>2, <2>3, <3>1, <3>2
    <3>4. refused' \subseteq refused \cup cutoff
      BY <3>1, <3>2, <3>3
    <3> QED
      BY <2>2, <2>3, <3>1, <3>4
  <2>8. CASE SetUrl(w) \/ HasCommit(w) \/ Fetches(w) \/ FetchFails(w)
    <3>1. step[w] \notin {"init", "add"} /\ UNCHANGED <<git, cutoff, refused>>
      BY <2>8 DEF SetUrl, HasCommit, Fetches, FetchFails
    <3> QED
      BY <1>2, <2>3, <3>1
  <2> QED
    BY <1>7, <2>4, <2>5, <2>6, <2>7, <2>8 DEF GitStep
<1>8. CASE Collect \/ Conclude \/ Raise
  BY <1>2, <1>8 DEF Collect, Conclude, Raise, poolVars, fileVars, historyVars
<1>9. CASE Kill
  BY <1>9 DEF Kill, fileVars
<1>10. ASSUME NEW o \in orphans, OrphanWrites(o) \/ OrphanEnds(o) PROVE CutInv'
  BY <1>2, <1>10 DEF OrphanWrites, OrphanEnds, poolVars, historyVars
<1> QED
  BY <1>3, <1>4, <1>5, <1>6, <1>7, <1>8, <1>9, <1>10 DEF Next, Modes

\* TypeInv and DistinctInv, on which the rest builds.
LEMMA Base == Spec => [](TypeInv /\ DistinctInv)
<1>1. Init => TypeInv /\ DistinctInv
  BY SnapshotsAssumption, EmptySeq
  DEF Init, TypeInv, PoolTypes, FileTypes, BookTypes, Modes, StepsOf, ArchiveSteps, CurlNames,
      Contents, DistinctInv
<1>2. TypeInv /\ DistinctInv /\ [Next]_vars => (TypeInv /\ DistinctInv)'
  BY TypeStep, DistinctStep
<1> QED
  BY <1>1, <1>2, PTL DEF Spec

\* Git refuses a repository only if its creation was cut off
\* (RefusesOnlyCutOff): no worker meets the half-made one of another.
THEOREM GitRefusesOnlyCutOff == Spec => []RefusesOnlyCutOff
<1>1. Init => CutInv
  BY DEF Init, CutInv
<1>2. TypeInv /\ DistinctInv /\ CutInv /\ [Next]_vars => CutInv'
  BY CutStep
<1>3. CutInv => RefusesOnlyCutOff
  BY DEF CutInv, RefusesOnlyCutOff
<1> QED
  BY <1>1, <1>2, <1>3, Base, PTL DEF Spec

----------------------------------------------------------------------------
(* Archives.  While a worker is at a snapshot that is not raced, no curl   *)
(* but its own writes to a file of that snapshot: it is the only writer,   *)
(* and what it checked is what it renames.                                 *)

AtWork == {"curl", "check", "failed", "rename"}

OutputsInv == \A w \in Workers : curl[w] \in {"none", "unopened", "part"}

DiskInvOf(s) ==
    /\ archive[s] \in {"absent", "whole"}
    /\ \A o \in orphans : o.snapshot = s => o.at # "archive"
    /\ \A w \in Workers : item[w] = s =>
        /\ step[w] \in AtWork => \A o \in orphans : o.snapshot = s => o.at = "nowhere"
        /\ step[w] = "check" => part[s] \in {"bad", "whole"}
        /\ step[w] = "rename" => part[s] = "whole"

DiskInv == OutputsInv /\ \A s \in Snapshots \ raced : DiskInvOf(s)

LEMMA WrittenFrame ==
  ASSUME TypeInv, NEW s, NEW name, NEW C, Written(s, name, C)
  PROVE  /\ name # "archive" => archive' = archive
         /\ name # "part" => part' = part
         /\ \A t \in Snapshots : t # s => part'[t] = part[t] /\ archive'[t] = archive[t]
BY DEF TypeInv, FileTypes, Written

LEMMA LastWriteFrame ==
  ASSUME TypeInv, NEW s, NEW name, LastWrite(s, name)
  PROVE  /\ name # "archive" => archive' = archive
         /\ name # "part" => part' = part
         /\ \A t \in Snapshots : t # s => part'[t] = part[t] /\ archive'[t] = archive[t]
BY WrittenFrame DEF LastWrite

\* A worker alone is at its snapshot.
LEMMA Alone ==
  ASSUME TypeInv, DistinctInv, NEW w \in Workers, item[w] # NoOne
  PROVE  \A v \in Workers : item[v] = item[w] => v = w
BY DEF DistinctInv

\* A step that touches no file and brings no worker to a check or a rename.
LEMMA DiskFrame ==
  ASSUME DiskInv, UNCHANGED <<part, archive, orphans, raced>>, OutputsInv',
         \A w \in Workers : step'[w] \in AtWork =>
            /\ item'[w] = item[w] /\ step[w] \in AtWork
            /\ step'[w] \in {"check", "rename"} => step'[w] = step[w]
  PROVE  DiskInv'
BY DEF DiskInv, DiskInvOf, AtWork

\* The removal of a .part.
LEMMA CleanDisk ==
  ASSUME TypeInv, DistinctInv, DiskInv, NEW w \in Workers,
         step[w] \in {"look", "check", "failed"}, Clean(item[w]), UNCHANGED archive,
         \A v \in Workers : v # w => item'[v] = item[v] /\ step'[v] = step[v],
         \/ item'[w] = item[w] /\ step'[w] = "curl"
         \/ step'[w] = "idle"
  PROVE  DiskInv'
<1> PICK s \in Snapshots : s = item[w]
  BY ModeOf DEF TypeInv
<1>1. s \in Snapshots /\ s # NoOne
  BY SnapshotsAssumption
<1>2. Moved(s, "part", "nowhere") /\ part' = [part EXCEPT ![s] = "absent"] /\ raced \subseteq raced'
      /\ ((\E o \in orphans : o.snapshot = s /\ o.at = "unopened") => s \in raced')
  BY DEF Clean
<1>3. \A v \in Workers : item[v] = s => v = w
  BY <1>1, Alone
<1>4. curl[w] = "none"
  BY DEF TypeInv, PoolTypes
<1>5. curl' = curl
  <2>1. curl \in [Workers -> CurlNames] /\ DOMAIN curl' = Workers
    BY <1>2 DEF TypeInv, PoolTypes, Moved
  <2>2. \A v \in Workers : curl'[v] = curl[v]
    BY <1>2, <1>3, <1>4 DEF Moved
  <2> QED
    BY <1>2, <2>1, <2>2 DEF Moved
<1>6. ASSUME NEW o \in orphans'
      PROVE  /\ o.snapshot # s => o \in orphans
             /\ o.snapshot = s => o.at = "nowhere" \/ (o \in orphans /\ o.at # "part")
  <2>1. PICK q \in orphans : o = IF q.snapshot = s /\ q.at = "part" THEN [q EXCEPT !.at = "nowhere"] ELSE q
    BY <1>2 DEF Moved
  <2>2. q \in Orphans
    BY DEF TypeInv, FileTypes
  <2>3. CASE q.snapshot = s /\ q.at = "part"
    BY <2>1, <2>2, <2>3 DEF Orphans
  <2>4. CASE ~(q.snapshot = s /\ q.at = "part")
    BY <2>1, <2>4
  <2> QED
    BY <2>3, <2>4
<1>7. ASSUME NEW t \in Snapshots \ raced', t # s PROVE DiskInvOf(t)'
  <2>1. DiskInvOf(t) /\ part'[t] = part[t] /\ archive'[t] = archive[t]
    BY <1>2, <1>7 DEF DiskInv, TypeInv, FileTypes
  <2>2. \A o \in orphans' : o.snapshot = t => o \in orphans
    BY <1>6, <1>7
  <2>3. \A v \in Workers : item'[v] = t =>
          step'[v] = "idle" \/ (item[v] = t /\ step'[v] = step[v])
    BY <1>7
  <2> QED
    BY <2>1, <2>2, <2>3 DEF DiskInvOf, AtWork
<1>8. ASSUME s \notin raced' PROVE DiskInvOf(s)'
  <2>1. DiskInvOf(s) /\ archive' = archive
    BY <1>1, <1>2, <1>8 DEF DiskInv
  <2>2. \A o \in orphans : o.snapshot = s => o.at \in {"part", "nowhere"}
    <3> SUFFICES ASSUME NEW o \in orphans, o.snapshot = s PROVE o.at \in {"part", "nowhere"}
      OBVIOUS
    <3>1. o.at \in Names
      BY DEF TypeInv, FileTypes, Orphans
    <3>2. o.at # "archive"
      BY <2>1 DEF DiskInvOf
    <3>3. o.at # "unopened"
      BY <1>2, <1>8
    <3> QED
      BY <3>1, <3>2, <3>3 DEF Names
  <2>3. \A o \in orphans' : o.snapshot = s => o.at = "nowhere"
    BY <1>6, <2>2
  <2>4. \A v \in Workers : item'[v] = s => step'[v] \in {"curl", "idle"}
    BY <1>3
  <2>5. archive'[s] \in {"absent", "whole"}
    BY <2>1 DEF DiskInvOf
  <2> QED
    BY <2>3, <2>4, <2>5 DEF DiskInvOf, AtWork
<1>9. OutputsInv'
  BY <1>5 DEF DiskInv, OutputsInv
<1> QED
  BY <1>7, <1>8, <1>9 DEF DiskInv

\* A step of a worker leaves the others where they are.
LEMMA OthersStay ==
  ASSUME TypeInv, NEW w \in Workers, ArchiveStep(w) \/ GitStep(w)
  PROVE  /\ \A v \in Workers : v # w => item'[v] = item[v] /\ step'[v] = step[v]
         /\ ArchiveStep(w) => item[w] \in Snapshots /\ mode = "archive" /\ UNCHANGED <<mode, fetched>>
         /\ GitStep(w) => mode = "partial_git" /\ UNCHANGED mode
<1>1. item \in [Workers -> Kinds(mode) \cup {NoOne}] /\ step \in [Workers -> StepsOf(mode)]
  BY DEF TypeInv, PoolTypes
<1>2. CASE ArchiveStep(w)
  <2>1. \A v \in Workers : v # w => item'[v] = item[v] /\ step'[v] = step[v]
    BY <1>1, <1>2 DEF ArchiveStep, LookFinds, LookFails, StartCurl, CurlWrites, CurlSucceeds,
         CurlFails, Check, Retry, DownloadFails, Rename, Goes, Returns
  <2>2. step[w] \in {"look", "curl", "check", "failed", "rename"}
    <3>1. CASE curl[w] # "none"
      BY <3>1 DEF TypeInv, PoolTypes
    <3>2. CASE curl[w] = "none"
      BY <1>2, <3>2 DEF ArchiveStep, LookFinds, LookFails, StartCurl, CurlWrites, CurlSucceeds,
           CurlFails, Check, Retry, DownloadFails, Rename
    <3> QED
      BY <3>1, <3>2
  <2>3. UNCHANGED <<mode, fetched>>
    BY <1>2 DEF ArchiveStep, LookFinds, LookFails, StartCurl, CurlWrites, CurlSucceeds,
         CurlFails, Check, Retry, DownloadFails, Rename, fileVars
  <2>4. mode = "archive" /\ item[w] \in Snapshots
    BY <2>2, ModeOf DEF TypeInv
  <2>5. ~GitStep(w)
    BY <2>2 DEF GitStep, MakeDir, InitBare, RemoteAdd, Creates, CreationFails, SetUrl,
         SetUrlFails, HasCommit, Fetches, FetchFails
  <2> QED
    BY <2>1, <2>3, <2>4, <2>5
<1>3. CASE GitStep(w) /\ ~ArchiveStep(w)
  <2>1. step[w] \in {"repo", "init", "add", "fetch"} /\ UNCHANGED mode
    BY <1>3 DEF GitStep, MakeDir, InitBare, RemoteAdd, Creates, CreationFails, SetUrl,
         SetUrlFails, HasCommit, Fetches, FetchFails, gitUnchanged
  <2>2. \A v \in Workers : v # w => item'[v] = item[v] /\ step'[v] = step[v]
    BY <1>1, <1>3 DEF GitStep, MakeDir, InitBare, RemoteAdd, Creates, CreationFails, SetUrl,
           SetUrlFails, HasCommit, Fetches, FetchFails, Goes, Returns
  <2>3. mode = "partial_git"
    BY <2>1, ModeOf DEF TypeInv
  <2> QED
    BY <1>3, <2>1, <2>2, <2>3
<1> QED
  BY <1>2, <1>3

LEMMA ArchiveDisk ==
  ASSUME TypeInv, DistinctInv, DiskInv, NEW w \in Workers, ArchiveStep(w)
  PROVE  DiskInv'
<1> PICK s \in Snapshots : s = item[w]
  BY OthersStay
<1>1. /\ \A v \in Workers : v # w => item'[v] = item[v] /\ step'[v] = step[v]
      /\ \A v \in Workers : item[v] = s => v = w
  BY OthersStay, Alone, SnapshotsAssumption
<1>2. /\ item \in [Workers -> Kinds(mode) \cup {NoOne}] /\ step \in [Workers -> StepsOf(mode)]
      /\ curl \in [Workers -> CurlNames]
      /\ part \in [Snapshots -> Contents] /\ archive \in [Snapshots -> Contents]
  BY DEF TypeInv, PoolTypes, FileTypes
<1>3. OutputsInv /\ \A t \in Snapshots \ raced : DiskInvOf(t)
  BY DEF DiskInv
<1>4. CASE LookFinds(w)
  <2>1. step'[w] = "idle" /\ UNCHANGED <<part, archive, orphans, raced, curl>>
    BY <1>2, <1>4 DEF LookFinds, Returns, fileVars, historyVars
  <2>2. OutputsInv'
    BY <1>3, <2>1 DEF OutputsInv
  <2> QED
    BY <1>1, <2>1, <2>2, DiskFrame DEF AtWork
<1>5. CASE LookFails(w)
  <2>1. step[w] = "look" /\ Clean(item[w]) /\ UNCHANGED archive /\ item'[w] = item[w] /\ step'[w] = "curl"
    BY <1>2, <1>5 DEF LookFails, Goes
  <2> QED
    BY <1>1, <2>1, CleanDisk
<1>6. CASE Retry(w)
  <2>1. /\ step[w] \in {"check", "failed"} /\ Clean(item[w]) /\ UNCHANGED archive
        /\ item'[w] = item[w] /\ step'[w] = "curl"
    BY <1>2, <1>6 DEF Retry, Goes
  <2> QED
    BY <1>1, <2>1, CleanDisk
<1>7. CASE DownloadFails(w)
  <2>1. step[w] \in {"check", "failed"} /\ Clean(item[w]) /\ UNCHANGED archive /\ step'[w] = "idle"
    BY <1>2, <1>7 DEF DownloadFails, Returns
  <2> QED
    BY <1>1, <2>1, CleanDisk
<1>8. CASE StartCurl(w)
  <2>1. UNCHANGED <<item, step, part, archive, orphans, raced>>
    BY <1>8 DEF StartCurl, fileVars, historyVars
  <2>2. OutputsInv'
    BY <1>2, <1>3, <1>8 DEF StartCurl, OutputsInv
  <2> QED
    BY <2>1, <2>2, DiskFrame
<1>9. CASE CurlFails(w)
  <2>1. /\ UNCHANGED <<part, archive, orphans, raced>> /\ step[w] = "curl"
        /\ item' = item /\ step'[w] = "failed"
    BY <1>2, <1>9 DEF CurlFails, Goes, TypeInv, PoolTypes, fileVars, historyVars
  <2>2. OutputsInv'
    BY <1>2, <1>3, <1>9 DEF CurlFails, OutputsInv
  <2> QED
    BY <1>1, <2>1, <2>2, DiskFrame DEF AtWork
<1>10. CASE CurlWrites(w)
  <2>1. step[w] = "curl" /\ UNCHANGED <<item, step, orphans, raced>> /\ Opened(curl[w]) = "part"
    BY <1>3, <1>10 DEF CurlWrites, TypeInv, PoolTypes, OutputsInv, historyVars, Opened
  <2>2. /\ archive' = archive
        /\ \A t \in Snapshots : t # s => part'[t] = part[t]
    BY <1>10, <2>1, WrittenFrame DEF CurlWrites
  <2>3. OutputsInv'
    BY <1>2, <1>3, <1>10, <2>1 DEF CurlWrites, OutputsInv
  <2>4. ASSUME NEW t \in Snapshots \ raced PROVE DiskInvOf(t)'
    BY <1>1, <1>3, <2>1, <2>2 DEF DiskInvOf
  <2> QED
    BY <2>1, <2>3, <2>4 DEF DiskInv
<1>11. CASE CurlSucceeds(w)
  <2>1. curl[w] = "part" /\ step[w] = "curl" /\ LastWrite(s, "part") /\ UNCHANGED <<item, orphans, raced>>
    BY <1>3, <1>11 DEF CurlSucceeds, TypeInv, PoolTypes, OutputsInv, Goes, historyVars
  <2>2. archive' = archive /\ \A t \in Snapshots : t # s => part'[t] = part[t]
    BY <2>1, LastWriteFrame
  <2>3. OutputsInv'
    BY <1>2, <1>3, <1>11 DEF CurlSucceeds, OutputsInv
  <2>4. step'[w] = "check"
    BY <1>2, <1>11 DEF CurlSucceeds, Goes
  <2>5. s \notin raced => part'[s] \in {"bad", "whole"}
    <3> SUFFICES ASSUME s \notin raced PROVE part'[s] \in {"bad", "whole"}
      OBVIOUS
    <3>1. {v \in Workers : item[v] = s /\ curl[v] = "part"} = {w}
      BY <1>1, <2>1
    <3>2. {o \in orphans : o.snapshot = s /\ o.at = "part"} = {}
      BY <1>3, <2>1 DEF DiskInvOf, AtWork
    <3>3. Writers(s, "part") = 1 + 0
      BY <3>1, <3>2, FS_Singleton, FS_EmptySet DEF Writers
    <3>4. ~(Writers(s, "part") > 1)
      BY <3>3
    <3>5. Written(s, "part", {"bad", "whole"})
      BY <2>1, <3>4 DEF LastWrite
    <3> QED
      BY <1>2, <3>5 DEF Written
  <2>6. ASSUME NEW t \in Snapshots \ raced, t # s PROVE DiskInvOf(t)'
    <3>1. \A v \in Workers : item'[v] = t => v # w
      BY <2>1, <2>6
    <3> QED
      BY <1>1, <1>3, <2>1, <2>2, <2>6, <3>1 DEF DiskInvOf
  <2>7. ASSUME s \notin raced PROVE DiskInvOf(s)'
    <3>1. \A v \in Workers : item'[v] = s => v = w
      BY <1>1, <2>1
    <3>2. DiskInvOf(s)
      BY <1>3, <2>7
    <3> QED
      BY <2>1, <2>2, <2>4, <2>5, <2>7, <3>1, <3>2 DEF DiskInvOf, AtWork
  <2> QED
    BY <2>1, <2>3, <2>6, <2>7 DEF DiskInv
<1>12. CASE Check(w)
  <2>1. /\ UNCHANGED <<curl, part, archive, orphans, raced, item>>
        /\ step[w] = "check" /\ part[s] \in {"torn", "whole"} /\ step'[w] = "rename"
    BY <1>2, <1>12 DEF Check, Accepts, IsTarfile, Goes, fileVars, historyVars
  <2>2. OutputsInv'
    BY <1>3, <2>1 DEF OutputsInv
  <2>3. ASSUME NEW t \in Snapshots \ raced, t # s PROVE DiskInvOf(t)'
    <3>1. \A v \in Workers : item'[v] = t => v # w
      BY <2>1, <2>3
    <3> QED
      BY <1>1, <1>3, <2>1, <2>3, <3>1 DEF DiskInvOf
  <2>4. ASSUME s \notin raced PROVE DiskInvOf(s)'
    <3>1. DiskInvOf(s) /\ \A v \in Workers : item'[v] = s => v = w
      BY <1>1, <1>3, <2>1, <2>4
    <3>2. part[s] = "whole"
      BY <2>1, <3>1 DEF DiskInvOf
    <3> QED
      BY <2>1, <3>1, <3>2 DEF DiskInvOf, AtWork
  <2> QED
    BY <2>1, <2>2, <2>3, <2>4 DEF DiskInv
<1>13. CASE Rename(w)
  <2>1. step[w] = "rename" /\ step'[w] = "idle" /\ UNCHANGED raced /\ curl[w] = "none"
    BY <1>2, <1>13 DEF Rename, Returns, TypeInv, PoolTypes, historyVars
  <2>2. CASE part[s] = "absent"
    <3>1. UNCHANGED <<part, archive, orphans, curl>>
      BY <1>13, <2>2 DEF Rename
    <3>2. OutputsInv'
      BY <1>3, <3>1 DEF OutputsInv
    <3> QED
      BY <1>1, <2>1, <3>1, <3>2, DiskFrame DEF AtWork
  <2>3. CASE part[s] # "absent"
    <3>1. /\ archive' = [archive EXCEPT ![s] = part[s]]
          /\ part' = [part EXCEPT ![s] = "absent"] /\ Moved(s, "part", "archive")
      BY <1>13, <2>3 DEF Rename
    <3>2. \A v \in Workers : curl'[v] = curl[v]
      BY <1>1, <2>1, <3>1 DEF Moved
    <3>3. OutputsInv'
      BY <1>3, <3>2 DEF OutputsInv
    <3>4. \A o \in orphans : o.snapshot = s => o.at # "part" \/ s \in raced
      BY <1>3, <2>1 DEF DiskInvOf, AtWork
    <3>5. ASSUME NEW o \in orphans'
          PROVE  /\ o.snapshot # s => o \in orphans
                 /\ o.snapshot = s /\ s \notin raced => o \in orphans
      <4>1. PICK q \in orphans : o = IF q.snapshot = s /\ q.at = "part" THEN [q EXCEPT !.at = "archive"] ELSE q
        BY <3>1 DEF Moved
      <4>2. q \in Orphans
        BY DEF TypeInv, FileTypes
      <4>3. CASE q.snapshot = s /\ q.at = "part"
        BY <3>4, <4>1, <4>2, <4>3 DEF Orphans
      <4>4. CASE ~(q.snapshot = s /\ q.at = "part")
        BY <4>1, <4>4
      <4> QED
        BY <4>3, <4>4
    <3>6. ASSUME NEW t \in Snapshots \ raced, t # s PROVE DiskInvOf(t)'
      <4>1. DiskInvOf(t) /\ part'[t] = part[t] /\ archive'[t] = archive[t]
        BY <1>2, <1>3, <3>1, <3>6
      <4>2. \A o \in orphans' : o.snapshot = t => o \in orphans
        BY <3>5, <3>6
      <4>3. \A v \in Workers : item'[v] = t => step'[v] = "idle" \/ (item[v] = t /\ step'[v] = step[v])
        BY <1>1, <2>1
      <4> QED
        BY <4>1, <4>2, <4>3 DEF DiskInvOf, AtWork
    <3>7. ASSUME s \notin raced PROVE DiskInvOf(s)'
      <4>1. DiskInvOf(s) /\ archive'[s] = part[s] /\ part[s] = "whole"
        BY <1>2, <1>3, <2>1, <3>1, <3>7 DEF DiskInvOf
      <4>2. \A o \in orphans' : o.snapshot = s => o \in orphans
        BY <3>5, <3>7
      <4>3. \A v \in Workers : item'[v] = s => step'[v] = "idle"
        BY <1>1, <2>1
      <4> QED
        BY <4>1, <4>2, <4>3 DEF DiskInvOf, AtWork
    <3> QED
      BY <2>1, <3>3, <3>6, <3>7 DEF DiskInv
  <2> QED
    BY <2>2, <2>3
<1> QED
  BY <1>4, <1>5, <1>6, <1>7, <1>8, <1>9, <1>10, <1>11, <1>12, <1>13 DEF ArchiveStep

LEMMA OrphanDisk ==
  ASSUME TypeInv, DiskInv, NEW o \in orphans, OrphanWrites(o) \/ OrphanEnds(o)
  PROVE  DiskInv'
<1>1. UNCHANGED <<item, step, curl, raced>>
  BY DEF OrphanWrites, OrphanEnds, poolVars, historyVars
<1>2. OutputsInv'
  BY <1>1 DEF DiskInv, OutputsInv
<1>3. o \in Orphans /\ o.snapshot \in Snapshots /\ o.at \in Names
  BY DEF TypeInv, FileTypes, Orphans
<1>4. /\ o.at \in {"part", "unopened", "nowhere"} => archive' = archive
      /\ o.at = "nowhere" => part' = part
      /\ \A t \in Snapshots : t # o.snapshot => part'[t] = part[t] /\ archive'[t] = archive[t]
  <2>1. CASE OrphanWrites(o)
    BY <2>1, WrittenFrame DEF OrphanWrites, Opened
  <2>2. CASE OrphanEnds(o)
    <3>1. CASE LastWrite(o.snapshot, o.at)
      BY <3>1, LastWriteFrame
    <3>2. CASE UNCHANGED <<part, archive>>
      BY <3>2
    <3> QED
      BY <2>2, <3>1, <3>2 DEF OrphanEnds
  <2> QED
    BY <2>1, <2>2
<1>5. \A q \in orphans' :
        q \in orphans \/ (q.snapshot = o.snapshot /\ q.at = Opened(o.at))
  <2>1. \A n : [o EXCEPT !.at = n].snapshot = o.snapshot /\ [o EXCEPT !.at = n].at = n
    BY <1>3 DEF Orphans
  <2>2. CASE OrphanWrites(o)
    <3>1. orphans' = (orphans \ {o}) \cup {[o EXCEPT !.at = Opened(o.at)]}
      BY <2>2 DEF OrphanWrites
    <3> QED
      BY <2>1, <3>1
  <2>3. CASE OrphanEnds(o)
    <3>1. orphans' = orphans \ {o}
      BY <2>3 DEF OrphanEnds
    <3> QED
      BY <3>1
  <2> QED
    BY <2>2, <2>3
<1>6. ASSUME NEW t \in Snapshots \ raced PROVE DiskInvOf(t)'
  <2>1. DiskInvOf(t)
    BY DEF DiskInv
  <2>2. CASE t # o.snapshot
    BY <1>1, <1>4, <1>5, <2>1, <2>2 DEF DiskInvOf
  <2>3. CASE t = o.snapshot
    <3>1. o.at \in {"part", "unopened", "nowhere"}
      BY <1>3, <2>1, <2>3 DEF DiskInvOf, Names
    <3>2. archive' = archive /\ \A q \in orphans' : q.snapshot = t => q.at # "archive"
      BY <1>4, <1>5, <2>1, <3>1 DEF DiskInvOf, Opened
    <3>3. ASSUME NEW w \in Workers, item[w] = t, step[w] \in AtWork
          PROVE  part' = part /\ \A q \in orphans' : q.snapshot = t => q.at = "nowhere"
      <4>1. o.at = "nowhere"
        BY <2>1, <2>3, <3>3 DEF DiskInvOf
      <4> QED
        BY <1>4, <1>5, <2>1, <3>3, <4>1 DEF DiskInvOf, Opened
    <3> QED
      BY <1>1, <2>1, <3>2, <3>3 DEF DiskInvOf, AtWork
  <2> QED
    BY <2>2, <2>3
<1> QED
  BY <1>1, <1>2, <1>6 DEF DiskInv

LEMMA DiskStep ==
  ASSUME TypeInv, DistinctInv, DiskInv, [Next]_vars
  PROVE  DiskInv'
<1>1. item \in [Workers -> Kinds(mode) \cup {NoOne}] /\ step \in [Workers -> StepsOf(mode)]
  BY DEF TypeInv, PoolTypes
<1>2. ASSUME UNCHANGED <<part, archive, orphans, raced, curl>>,
             \A w \in Workers : step'[w] \in AtWork => item'[w] = item[w] /\ step'[w] = step[w]
      PROVE  DiskInv'
  <2>1. OutputsInv'
    BY <1>2 DEF DiskInv, OutputsInv
  <2> QED
    BY <1>2, <2>1, DiskFrame
<1>3. CASE UNCHANGED vars
  BY <1>2, <1>3 DEF vars, poolVars, fileVars, historyVars
<1>4. ASSUME NEW m \in Modes, Invoke(m) PROVE DiskInv'
  BY <1>2, <1>4 DEF Invoke, fileVars, historyVars
<1>5. ASSUME NEW w \in Workers, Take(w) PROVE DiskInv'
  BY <1>1, <1>2, <1>5 DEF Take, fileVars, historyVars, AtWork
<1>6. ASSUME NEW w \in Workers, GitStep(w) PROVE DiskInv'
  <2>1. UNCHANGED <<part, archive, orphans, raced, curl>>
    BY <1>6 DEF GitStep, MakeDir, InitBare, RemoteAdd, Creates, CreationFails, SetUrl,
           SetUrlFails, HasCommit, Fetches, FetchFails, gitUnchanged
  <2>2. step'[w] \notin AtWork
    <3>1. mode = "partial_git" /\ mode' = mode
      BY <1>6, OthersStay
    <3>2. PoolTypes'
      BY TypeStep DEF TypeInv
    <3>3. step'[w] \in GitSteps
      BY <3>1, <3>2 DEF PoolTypes, StepsOf
    <3> QED
      BY <3>3 DEF GitSteps, AtWork
  <2> QED
    BY <1>2, <1>6, <2>1, <2>2, OthersStay
<1>7. CASE Collect \/ Conclude \/ Raise
  BY <1>2, <1>7 DEF Collect, Conclude, Raise, poolVars, fileVars, historyVars
<1>8. CASE Kill
  <2>1. /\ UNCHANGED <<part, archive, raced>>
        /\ \A w \in Workers : curl'[w] = "none" /\ step'[w] = "idle"
    BY <1>8 DEF Kill, fileVars
  <2>2. OutputsInv'
    BY <2>1 DEF OutputsInv
  <2>3. \A o \in orphans' : o \in orphans \/ o.at # "archive"
    <3>1. PICK survivors \in SUBSET {w \in Workers : curl[w] # "none"} :
            orphans' = orphans \cup {[snapshot |-> item[w], at |-> curl[w]] : w \in survivors}
      BY <1>8 DEF Kill
    <3>2. \A w \in survivors : curl[w] # "archive"
      BY DEF DiskInv, OutputsInv
    <3> QED
      BY <3>1, <3>2
  <2>4. ASSUME NEW t \in Snapshots \ raced PROVE DiskInvOf(t)'
    BY <2>1, <2>3 DEF DiskInv, DiskInvOf, AtWork
  <2> QED
    BY <2>1, <2>2, <2>4 DEF DiskInv
<1> QED
  BY <1>3, <1>4, <1>5, <1>6, <1>7, <1>8, ArchiveDisk, OrphanDisk DEF Next, Modes

----------------------------------------------------------------------------
(* What is told of a snapshot: by a future, by the rows, by a manifest.    *)

\* The archive of s is whole, or it is raced.
Whole(s) == s \in raced \/ archive[s] = "whole"

Told(told, s) ==
    \E row \in told :
        /\ row.snapshot = s
        /\ row.digest = "whole" \/ (row.digest = "git" /\ s \in fetched)

ResultsInv ==
    /\ \A f \in finished : ~f.raised =>
        /\ mode = "archive" => Whole(f.item)
        /\ mode = "partial_git" => \A s \in Snapshots : RepoOf[s] = f.item => s \in fetched
    /\ \A w \in Workers : mode = "partial_git" /\ item[w] # NoOne =>
        \A s \in Snapshots : RepoOf[s] = item[w] =>
            s \in fetched \/ \E i \in 1..Len(commits[w]) : commits[w][i] = s

RowsInv ==
    /\ \A row \in rows :
          \/ row.snapshot \in raced \/ row.digest = "whole"
          \/ row.digest = "git" /\ row.snapshot \in fetched
    /\ manifest # {} => \A s \in Snapshots \ raced : Told(manifest, s)

KeyOf(s) == IF mode = "archive" THEN s ELSE RepoOf[s]
Pending(s) ==
    \/ \E f \in finished : f.item = KeyOf(s)
    \/ \E w \in Workers : item[w] = KeyOf(s)
    \/ \E j \in 1..Len(todo) : todo[j] = KeyOf(s)

\* No snapshot is forgotten by an invocation that is still to write a manifest.
CoverInv ==
    main = "working" =>
        \A s \in Snapshots : Pending(s) \/ \E row \in rows : row.snapshot = s

\* What was fetched stays.
LEMMA Kept ==
  ASSUME TypeInv, DistinctInv, DiskInv, [Next]_vars
  PROVE  /\ fetched \subseteq fetched' /\ raced \subseteq raced'
         /\ \A s \in Snapshots : Whole(s) => Whole(s)'
<1>1. archive \in [Snapshots -> Contents]
  BY DEF TypeInv, FileTypes
<1>2. fetched \subseteq fetched' /\ raced \subseteq raced'
  <2>1. ASSUME NEW w \in Workers, ArchiveStep(w) PROVE fetched' = fetched /\ raced \subseteq raced'
    BY <2>1 DEF ArchiveStep, LookFinds, LookFails, StartCurl, CurlWrites, CurlSucceeds,
         CurlFails, Check, Retry, DownloadFails, Rename, Clean, fileVars, historyVars
  <2>2. ASSUME NEW w \in Workers, GitStep(w) PROVE fetched \subseteq fetched' /\ raced' = raced
    BY <2>2 DEF GitStep, MakeDir, InitBare, RemoteAdd, Creates, CreationFails, SetUrl,
           SetUrlFails, HasCommit, Fetches, FetchFails, gitUnchanged
  <2>3. CASE UNCHANGED <<fetched, raced>>
    BY <2>3
  <2> QED
    BY <2>1, <2>2, <2>3
    DEF Next, Invoke, Take, Collect, Conclude, Raise, Kill, OrphanWrites, OrphanEnds,
        vars, fileVars, historyVars
<1>3. ASSUME NEW t, NEW name, NEW C, "absent" \notin C, Written(t, name, C)
      PROVE  \A s \in Snapshots : archive[s] # "absent" => archive'[s] # "absent"
  BY <1>1, <1>3 DEF Written
<1>4. ASSUME NEW t, NEW name, LastWrite(t, name)
      PROVE  \A s \in Snapshots : archive[s] # "absent" => archive'[s] # "absent"
  BY <1>3, <1>4 DEF LastWrite
<1>5. \A s \in Snapshots : archive[s] # "absent" => archive'[s] # "absent"
  <2>1. ASSUME NEW w \in Workers, ArchiveStep(w)
        PROVE \A s \in Snapshots : archive[s] # "absent" => archive'[s] # "absent"
    <3>1. CASE CurlWrites(w)
      <4>1. "absent" \notin {"empty", "torn"}
        OBVIOUS
      <4> QED
        BY <1>3, <3>1, <4>1 DEF CurlWrites
    <3>2. CASE CurlSucceeds(w)
      BY <1>4, <3>2 DEF CurlSucceeds
    <3>3. CASE Rename(w)
      BY <1>1, <3>3 DEF Rename
    <3>4. CASE UNCHANGED archive
      BY <3>4
    <3> QED
      BY <2>1, <3>1, <3>2, <3>3, <3>4 DEF ArchiveStep, LookFinds, LookFails, StartCurl, CurlFails,
           Check, Retry, DownloadFails, fileVars
  <2>2. ASSUME NEW o \in orphans, OrphanWrites(o) \/ OrphanEnds(o)
        PROVE \A s \in Snapshots : archive[s] # "absent" => archive'[s] # "absent"
    <3>1. "absent" \notin {"empty", "torn"}
      OBVIOUS
    <3> QED
      BY <1>3, <1>4, <2>2, <3>1 DEF OrphanWrites, OrphanEnds
  <2>3. ASSUME NEW w \in Workers, GitStep(w) PROVE archive' = archive
    BY <2>3 DEF GitStep, MakeDir, InitBare, RemoteAdd, Creates, CreationFails, SetUrl,
           SetUrlFails, HasCommit, Fetches, FetchFails, gitUnchanged
  <2>4. CASE UNCHANGED archive
    BY <2>4
  <2> QED
    BY <2>1, <2>2, <2>3, <2>4
    DEF Next, Invoke, Take, Collect, Conclude, Raise, Kill, vars, fileVars
<1>6. ASSUME NEW s \in Snapshots, Whole(s) PROVE Whole(s)'
  <2>1. CASE s \in raced
    BY <1>2, <2>1 DEF Whole
  <2>2. CASE s \notin raced /\ s \notin raced'
    <3>1. archive'[s] # "absent"
      BY <1>5, <1>6, <2>2 DEF Whole
    <3>2. DiskInvOf(s)'
      BY <2>2, DiskStep DEF DiskInv
    <3> QED
      BY <3>1, <3>2 DEF DiskInvOf, Whole
  <2> QED
    BY <2>1, <2>2 DEF Whole
<1> QED
  BY <1>2, <1>6

LEMMA ResultsStep ==
  ASSUME TypeInv, DistinctInv, DiskInv, ResultsInv, [Next]_vars
  PROVE  ResultsInv'
<1> USE DEF ResultsInv
<1>1. /\ fetched \subseteq fetched' /\ raced \subseteq raced'
      /\ \A s \in Snapshots : Whole(s) => Whole(s)'
  BY Kept
<1>2. /\ finished \in SUBSET Futures(mode)
      /\ item \in [Workers -> Kinds(mode) \cup {NoOne}] /\ step \in [Workers -> StepsOf(mode)]
      /\ commits \in [Workers -> Seq(Snapshots)]
  BY DEF TypeInv, PoolTypes
<1>3. \A f \in finished : mode = "archive" => f.item \in Snapshots
  BY <1>2 DEF Futures, Kinds
<1>4. ASSUME mode' = mode, finished' \subseteq finished,
             \A w \in Workers : item'[w] # NoOne => item'[w] = item[w] /\ commits'[w] = commits[w]
      PROVE  ResultsInv'
  BY <1>1, <1>3, <1>4
<1>5. CASE UNCHANGED vars
  BY <1>4, <1>5 DEF vars, poolVars
<1>6. ASSUME NEW m \in Modes, Invoke(m) PROVE ResultsInv'
  BY <1>6 DEF Invoke, TypeInv, PoolTypes
<1>7. ASSUME NEW w \in Workers, Take(w) PROVE ResultsInv'
  <2>1. Head(todo) \in Kinds(mode)
    BY <1>7, HeadTailProperties DEF Take, TypeInv, PoolTypes
  <2>2. /\ mode' = mode /\ finished' = finished
        /\ item'[w] = Head(todo)
        /\ mode = "partial_git" => commits'[w] = CommitsOf(Head(todo))
        /\ \A v \in Workers : v # w => item'[v] = item[v] /\ commits'[v] = commits[v]
    BY <1>2, <1>7 DEF Take
  <2>3. mode = "partial_git" =>
          \A s \in Snapshots : RepoOf[s] = Head(todo) =>
            \E i \in 1..Len(CommitsOf(Head(todo))) : CommitsOf(Head(todo))[i] = s
    BY <2>1, CommitsFacts DEF Kinds
  <2> QED
    BY <1>1, <1>3, <2>2, <2>3
<1>8. ASSUME NEW w \in Workers, ArchiveStep(w) PROVE ResultsInv'
  <2> PICK s \in Snapshots : s = item[w]
    BY <1>8, OthersStay
  <2>1. mode = "archive" /\ mode' = mode
    BY <1>8, OthersStay
  <2>2. CASE LookFinds(w)
    <3>1. /\ finished' = finished \cup {[item |-> s, raised |-> FALSE]}
          /\ archive[s] \in {"torn", "whole"}
      BY <2>2 DEF LookFinds, Returns, IsTarfile
    <3>2. Whole(s)'
      BY <1>1, <3>1 DEF DiskInv, DiskInvOf, Whole
    <3> QED
      BY <1>1, <1>3, <2>1, <3>1, <3>2
  <2>3. CASE Rename(w) /\ part[s] # "absent"
    <3>1. /\ finished' = finished \cup {[item |-> s, raised |-> FALSE]}
          /\ step[w] = "rename" /\ archive' = [archive EXCEPT ![s] = part[s]] /\ raced' = raced
      BY <2>3 DEF Rename, Returns, historyVars
    <3>2. Whole(s)'
      BY <3>1 DEF DiskInv, DiskInvOf, Whole, TypeInv, FileTypes
    <3> QED
      BY <1>1, <1>3, <2>1, <3>1, <3>2
  <2>4. CASE ~LookFinds(w) /\ ~(Rename(w) /\ part[s] # "absent")
    <3>1. finished' \subseteq finished \cup {[item |-> s, raised |-> TRUE]}
      BY <1>8, <2>4 DEF ArchiveStep, LookFails, StartCurl, CurlWrites, CurlSucceeds, CurlFails,
         Check, Retry, DownloadFails, Rename, Goes, Returns
    <3> QED
      BY <1>1, <1>3, <2>1, <3>1
  <2> QED
    BY <2>2, <2>3, <2>4
<1>9. ASSUME NEW w \in Workers, GitStep(w) PROVE ResultsInv'
  <2>1. mode = "partial_git" /\ mode' = mode
    BY <1>9, OthersStay
  <2>2. \A v \in Workers : v # w => item'[v] = item[v]
    BY <1>9, OthersStay
  <2>3. step[w] # "idle" /\ item[w] # NoOne /\ commits[w] \in Seq(Snapshots) /\ commits[w] # <<>>
    BY <1>9, <2>1 DEF GitStep, MakeDir, InitBare, RemoteAdd, Creates, CreationFails, SetUrl,
           SetUrlFails, HasCommit, Fetches, FetchFails, TypeInv, PoolTypes
  <2>4. CASE ~HasCommit(w)
    <3>1. /\ finished' \subseteq finished \cup {[item |-> item[w], raised |-> TRUE]}
          /\ \A v \in Workers : item'[v] # NoOne => item'[v] = item[v] /\ commits'[v] = commits[v]
      BY <1>2, <1>9, <2>4 DEF GitStep, MakeDir, InitBare, RemoteAdd, Creates, CreationFails, SetUrl,
           SetUrlFails, Fetches, FetchFails, Goes, Returns
    <3> QED
      BY <1>1, <2>1, <3>1
  <2>5. CASE HasCommit(w)
    <3>1. /\ Head(commits[w]) \in fetched /\ Head(commits[w]) = commits[w][1]
          /\ Len(commits[w]) \in Nat \ {0}
      BY <2>3, <2>5, HeadTailProperties, EmptySeq DEF HasCommit
    <3>2. CASE Len(commits[w]) = 1
      <4>1. /\ finished' = finished \cup {[item |-> item[w], raised |-> FALSE]}
            /\ item'[w] = NoOne
            /\ \A v \in Workers : v # w => commits'[v] = commits[v]
        BY <1>2, <2>5, <3>2 DEF HasCommit, Returns
      <4>2. \A s \in Snapshots : RepoOf[s] = item[w] => s \in fetched
        BY <2>1, <2>3, <3>1, <3>2
      <4>3. \A f \in finished' : ~f.raised =>
              \A s \in Snapshots : RepoOf[s] = f.item => s \in fetched'
        BY <1>1, <2>1, <4>1, <4>2
      <4>4. \A v \in Workers : item'[v] # NoOne =>
              v # w /\ item'[v] = item[v] /\ commits'[v] = commits[v]
        BY <2>2, <4>1
      <4> QED
        BY <1>1, <2>1, <4>3, <4>4
    <3>3. CASE Len(commits[w]) # 1
      <4>1. /\ finished' = finished /\ item' = item /\ commits'[w] = Tail(commits[w])
            /\ \A v \in Workers : v # w => commits'[v] = commits[v]
        BY <1>2, <2>5, <3>3 DEF HasCommit
      <4>2. /\ Len(Tail(commits[w])) = Len(commits[w]) - 1
            /\ \A i \in 1..Len(Tail(commits[w])) : Tail(commits[w])[i] = commits[w][i + 1]
        BY <2>3, HeadTailProperties
      <4>3. ASSUME NEW s \in Snapshots, RepoOf[s] = item[w]
            PROVE s \in fetched \/ \E i \in 1..Len(Tail(commits[w])) : Tail(commits[w])[i] = s
        <5>1. CASE s \in fetched
          BY <5>1
        <5>2. ASSUME NEW i \in 1..Len(commits[w]), commits[w][i] = s, s \notin fetched
              PROVE \E j \in 1..Len(Tail(commits[w])) : Tail(commits[w])[j] = s
          <6>1. i # 1
            BY <3>1, <5>2
          <6>2. i - 1 \in 1..Len(Tail(commits[w])) /\ (i - 1) + 1 = i
            BY <3>1, <4>2, <6>1
          <6> QED
            BY <4>2, <5>2, <6>2
        <5> QED
          BY <2>1, <2>3, <4>3, <5>1, <5>2
      <4>4. \A v \in Workers : v # w => item'[v] = item[v] /\ commits'[v] = commits[v]
        BY <4>1
      <4>5. \A v \in Workers : item'[v] # NoOne => \A s \in Snapshots : RepoOf[s] = item'[v] =>
              s \in fetched \/ \E i \in 1..Len(commits'[v]) : commits'[v][i] = s
        <5> SUFFICES ASSUME NEW v \in Workers, item[v] # NoOne, NEW s \in Snapshots, RepoOf[s] = item[v]
                     PROVE s \in fetched \/ \E i \in 1..Len(commits'[v]) : commits'[v][i] = s
          BY <4>1
        <5>1. CASE v = w
          BY <4>1, <4>3, <5>1
        <5>2. CASE v # w
          BY <2>1, <4>4, <5>2
        <5> QED
          BY <5>1, <5>2
      <4>6. \A f \in finished' : ~f.raised =>
              \A s \in Snapshots : RepoOf[s] = f.item => s \in fetched'
        BY <1>1, <2>1, <4>1
      <4> QED
        BY <1>1, <2>1, <4>5, <4>6
    <3> QED
      BY <3>2, <3>3
  <2> QED
    BY <2>4, <2>5
<1>10. CASE Collect \/ Conclude \/ Raise
  BY <1>4, <1>10 DEF Collect, Conclude, Raise, poolVars
<1>11. CASE Kill
  BY <1>11 DEF Kill
<1>12. ASSUME NEW o \in orphans, OrphanWrites(o) \/ OrphanEnds(o) PROVE ResultsInv'
  BY <1>4, <1>12 DEF OrphanWrites, OrphanEnds, poolVars
<1> QED
  BY <1>5, <1>6, <1>7, <1>8, <1>9, <1>10, <1>11, <1>12 DEF Next, Modes

LEMMA RowsStep ==
  ASSUME TypeInv, DistinctInv, DiskInv, ResultsInv, RowsInv, CoverInv, [Next]_vars
  PROVE  RowsInv'
<1> USE DEF RowsInv, Told
<1>1. /\ fetched \subseteq fetched' /\ raced \subseteq raced'
      /\ \A s \in Snapshots : Whole(s) => Whole(s)'
  BY Kept
<1>2. CASE UNCHANGED <<rows, manifest>>
  BY <1>1, <1>2
<1>3. ASSUME NEW m \in Modes, Invoke(m) PROVE RowsInv'
  BY <1>1, <1>3 DEF Invoke, fileVars
<1>4. CASE Collect
  <2>1. PICK f \in finished :
          IF f.raised THEN UNCHANGED rows ELSE rows' = rows \cup RowsOf(f.item)
    BY <1>4 DEF Collect
  <2>2. UNCHANGED <<manifest, archive, fetched, raced>>
    BY <1>4 DEF Collect, fileVars, historyVars
  <2>3. CASE f.raised
    BY <1>2, <2>1, <2>2, <2>3
  <2>4. CASE ~f.raised
    <3>1. ASSUME NEW row \in RowsOf(f.item)
          PROVE \/ row.snapshot \in raced \/ row.digest = "whole"
                \/ row.digest = "git" /\ row.snapshot \in fetched
      <4>1. CASE mode = "archive"
        BY <2>4, <3>1, <4>1 DEF RowsOf, ResultsInv, Whole
      <4>2. CASE mode # "archive"
        <5>1. mode = "partial_git"
          BY <4>2 DEF TypeInv, PoolTypes, Modes
        <5>2. PICK s \in Snapshots : RepoOf[s] = f.item /\ row = [snapshot |-> s, digest |-> "git"]
          BY <3>1, <4>2 DEF RowsOf
        <5>3. s \in fetched
          BY <2>4, <5>1, <5>2 DEF ResultsInv
        <5> QED
          BY <5>2, <5>3
      <4> QED
        BY <4>1, <4>2
    <3>2. rows' = rows \cup RowsOf(f.item)
      BY <2>1, <2>4
    <3>3. \A row \in rows' :
            \/ row.snapshot \in raced \/ row.digest = "whole"
            \/ row.digest = "git" /\ row.snapshot \in fetched
      BY <3>1, <3>2
    <3> QED
      BY <2>2, <3>3
  <2> QED
    BY <2>3, <2>4
<1>5. CASE Conclude
  <2>1. /\ main = "working" /\ todo = <<>> /\ finished = {} /\ \A w \in Workers : item[w] = NoOne
        /\ rows' = rows /\ manifest' = rows /\ UNCHANGED <<fetched, raced>>
    BY <1>5 DEF Conclude, PoolIsDone, historyVars
  <2>2. ASSUME NEW s \in Snapshots PROVE ~Pending(s)
    <3>1. KeyOf(s) # NoOne
      <4>1. s # NoOne /\ RepoOf[s] # NoOne
        BY SnapshotsAssumption DEF Repos
      <4> QED
        BY <4>1 DEF KeyOf
    <3>2. Len(<<>>) = 0
      BY EmptySeq
    <3>3. ~ \E j \in 1..Len(todo) : todo[j] = KeyOf(s)
      BY <2>1, <3>2
    <3>4. ~ \E f \in finished : f.item = KeyOf(s)
      BY <2>1
    <3>5. ~ \E w \in Workers : item[w] = KeyOf(s)
      BY <2>1, <3>1
    <3> QED
      BY <3>3, <3>4, <3>5 DEF Pending
  <2>3. \A s \in Snapshots \ raced : \E row \in rows :
           row.snapshot = s /\ (row.digest = "whole" \/ (row.digest = "git" /\ s \in fetched))
    BY <2>1, <2>2 DEF CoverInv
  <2> QED
    BY <2>1, <2>3
<1>6. ASSUME NEW w \in Workers, Take(w) PROVE RowsInv'
  BY <1>2, <1>6 DEF Take, fileVars
<1>7. ASSUME NEW w \in Workers, ArchiveStep(w) PROVE RowsInv'
  BY <1>2, <1>7 DEF ArchiveStep, LookFinds, LookFails, StartCurl, CurlWrites, CurlSucceeds,
       CurlFails, Check, Retry, DownloadFails, Rename, fileVars
<1>8. ASSUME NEW w \in Workers, GitStep(w) PROVE RowsInv'
  BY <1>2, <1>8 DEF GitStep, MakeDir, InitBare, RemoteAdd, Creates, CreationFails, SetUrl,
           SetUrlFails, HasCommit, Fetches, FetchFails, gitUnchanged
<1>9. CASE Raise \/ Kill \/ UNCHANGED vars \/ \E o \in orphans : OrphanWrites(o) \/ OrphanEnds(o)
  BY <1>2, <1>9 DEF Raise, Kill, OrphanWrites, OrphanEnds, vars, fileVars
<1> QED
  BY <1>3, <1>4, <1>5, <1>6, <1>7, <1>8, <1>9 DEF Next, Modes

LEMMA CoverStep ==
  ASSUME TypeInv, CoverInv, [Next]_vars
  PROVE  CoverInv'
<1> USE DEF CoverInv
<1>1. /\ finished \in SUBSET Futures(mode) /\ todo \in Seq(Kinds(mode))
      /\ item \in [Workers -> Kinds(mode) \cup {NoOne}]
  BY DEF TypeInv, PoolTypes
<1>2. CASE UNCHANGED <<main, mode, todo, item, finished, rows>>
  BY <1>2 DEF Pending, KeyOf
<1>3. ASSUME NEW m \in Modes, Invoke(m) PROVE CoverInv'
  <2>1. mode' = m /\ todo' = Items(m)
    BY <1>3 DEF Invoke
  <2>2. ASSUME NEW s \in Snapshots PROVE Pending(s)'
    <3>1. (IF m = "archive" THEN s ELSE RepoOf[s]) \in Kinds(m)
      BY DEF Kinds, Repos
    <3>2. \E j \in 1..Len(Items(m)) : Items(m)[j] = IF m = "archive" THEN s ELSE RepoOf[s]
      BY <3>1, ItemsFacts
    <3> QED
      BY <2>1, <3>2 DEF Pending, KeyOf
  <2> QED
    BY <2>2
<1>4. ASSUME NEW w \in Workers, Take(w) PROVE CoverInv'
  <2>1. /\ Len(todo) \in Nat \ {0} /\ Len(todo') = Len(todo) - 1
        /\ \A i \in 1..Len(todo') : todo'[i] = todo[i + 1]
        /\ Head(todo) = todo[1] /\ item[w] = NoOne
    BY <1>1, <1>4, HeadTailProperties, EmptySeq DEF Take
  <2>2. /\ item'[w] = Head(todo) /\ \A v \in Workers : v # w => item'[v] = item[v]
        /\ UNCHANGED <<main, mode, finished, rows>>
    BY <1>1, <1>4 DEF Take
  <2>3. ASSUME NEW s \in Snapshots, Pending(s) PROVE Pending(s)'
    <3>1. KeyOf(s) # NoOne
      BY SnapshotsAssumption DEF KeyOf, Repos
    <3>2. CASE \E f \in finished : f.item = KeyOf(s)
      BY <2>2, <3>2 DEF Pending, KeyOf
    <3>3. CASE \E v \in Workers : item[v] = KeyOf(s)
      BY <2>1, <2>2, <3>1, <3>3 DEF Pending, KeyOf
    <3>4. ASSUME NEW j \in 1..Len(todo), todo[j] = KeyOf(s) PROVE Pending(s)'
      <4>1. CASE j = 1
        BY <2>1, <2>2, <3>4, <4>1 DEF Pending, KeyOf
      <4>2. CASE j # 1
        <5>1. j - 1 \in 1..Len(todo') /\ todo'[j - 1] = todo[j]
          BY <2>1, <4>2
        <5> QED
          BY <2>2, <3>4, <5>1 DEF Pending, KeyOf
      <4> QED
        BY <4>1, <4>2
    <3> QED
      BY <2>3, <3>2, <3>3, <3>4 DEF Pending
  <2> QED
    BY <2>2, <2>3
<1>5. ASSUME NEW w \in Workers, UNCHANGED <<main, mode, todo, rows>>,
             \/ UNCHANGED <<item, finished>>
             \/ \E r \in BOOLEAN : Returns(w, r)
      PROVE CoverInv'
  <2>1. CASE UNCHANGED <<item, finished>>
    BY <1>2, <1>5, <2>1
  <2>2. ASSUME NEW r \in BOOLEAN, Returns(w, r) PROVE CoverInv'
    <3>1. /\ finished \subseteq finished'
          /\ \E f \in finished' : f.item = item[w]
          /\ \A v \in Workers : v # w => item'[v] = item[v]
      <4>1. finished' = finished \cup {[item |-> item[w], raised |-> r]}
        BY <2>2 DEF Returns
      <4>2. \A v \in Workers : v # w => item'[v] = item[v]
        BY <1>1, <2>2 DEF Returns
      <4>3. [item |-> item[w], raised |-> r].item = item[w]
        OBVIOUS
      <4> QED
        BY <4>1, <4>2, <4>3
    <3>2. ASSUME NEW s \in Snapshots, Pending(s) PROVE Pending(s)'
      <4>1. KeyOf(s)' = KeyOf(s) /\ finished \subseteq finished'
        BY <1>5, <3>1 DEF KeyOf
      <4>2. CASE \E f \in finished : f.item = KeyOf(s)
        BY <3>1, <4>1, <4>2 DEF Pending
      <4>3. ASSUME NEW v \in Workers, item[v] = KeyOf(s) PROVE Pending(s)'
        BY <3>1, <4>1, <4>3 DEF Pending
      <4>4. CASE \E j \in 1..Len(todo) : todo[j] = KeyOf(s)
        BY <1>5, <4>1, <4>4 DEF Pending
      <4> QED
        BY <3>2, <4>2, <4>3, <4>4 DEF Pending
    <3> QED
      BY <1>5, <3>2
  <2> QED
    BY <1>5, <2>1, <2>2
<1>6. ASSUME NEW w \in Workers, ArchiveStep(w) PROVE CoverInv'
  <2>1. UNCHANGED <<main, mode, todo, rows>>
    BY <1>6 DEF ArchiveStep, LookFinds, LookFails, StartCurl, CurlWrites, CurlSucceeds,
       CurlFails, Check, Retry, DownloadFails, Rename
  <2>2. UNCHANGED <<item, finished>> \/ \E r \in BOOLEAN : Returns(w, r)
    BY <1>6 DEF ArchiveStep, LookFinds, LookFails, StartCurl, CurlWrites, CurlSucceeds,
       CurlFails, Check, Retry, DownloadFails, Rename, Goes
  <2> QED
    BY <1>5, <2>1, <2>2
<1>7. ASSUME NEW w \in Workers, GitStep(w) PROVE CoverInv'
  <2>1. UNCHANGED <<main, mode, todo, rows>>
    BY <1>7 DEF GitStep, MakeDir, InitBare, RemoteAdd, Creates, CreationFails, SetUrl,
           SetUrlFails, HasCommit, Fetches, FetchFails, gitUnchanged
  <2>2. UNCHANGED <<item, finished>> \/ \E r \in BOOLEAN : Returns(w, r)
    BY <1>7 DEF GitStep, MakeDir, InitBare, RemoteAdd, Creates, CreationFails, SetUrl,
           SetUrlFails, HasCommit, Fetches, FetchFails, Goes
  <2> QED
    BY <1>5, <2>1, <2>2
<1>8. CASE Collect
  <2>1. PICK f \in finished :
          /\ finished' = finished \ {f}
          /\ IF f.raised THEN main' = "draining" /\ UNCHANGED rows
             ELSE rows' = rows \cup RowsOf(f.item) /\ UNCHANGED main
    BY <1>8 DEF Collect
  <2>2. UNCHANGED <<mode, todo, item>>
    BY <1>8 DEF Collect
  <2>3. CASE f.raised
    BY <2>1, <2>3
  <2>4. CASE ~f.raised
    <3>1. main' = main /\ rows \subseteq rows'
      BY <2>1, <2>4
    <3>2. \A s \in Snapshots : KeyOf(s) = f.item => \E row \in rows' : row.snapshot = s
      <4> SUFFICES ASSUME NEW s \in Snapshots, KeyOf(s) = f.item
                   PROVE  \E row \in RowsOf(f.item) : row.snapshot = s
        BY <2>1, <2>4
      <4>1. CASE mode = "archive"
        BY <4>1 DEF RowsOf, KeyOf
      <4>2. CASE mode # "archive"
        <5>1. [snapshot |-> s, digest |-> "git"] \in RowsOf(f.item)
          BY <4>2 DEF RowsOf, KeyOf
        <5> QED
          BY <5>1
      <4> QED
        BY <4>1, <4>2
    <3>3. ASSUME NEW s \in Snapshots, Pending(s), KeyOf(s) # f.item PROVE Pending(s)'
      BY <2>1, <2>2, <3>3 DEF Pending, KeyOf
    <3> QED
      BY <3>1, <3>2, <3>3
  <2> QED
    BY <2>3, <2>4
<1>9. CASE Conclude \/ Raise \/ Kill
  BY <1>9 DEF Conclude, Raise, Kill
<1>10. CASE UNCHANGED vars \/ \E o \in orphans : OrphanWrites(o) \/ OrphanEnds(o)
  BY <1>2, <1>10 DEF OrphanWrites, OrphanEnds, vars, poolVars
<1> QED
  BY <1>3, <1>4, <1>6, <1>7, <1>8, <1>9, <1>10 DEF Next, Modes

\* What has the name of a snapshot is a whole archive, and a manifest names
\* every snapshot with what was fetched of it (SnapshotsWhole), however many
\* downloads fail, are cut off or outlive their invocation, except for a
\* snapshot that such a download may still open.
THEOREM ArchivesAreWhole == Spec => []SnapshotsWhole
<1> DEFINE Inv == DiskInv /\ ResultsInv /\ RowsInv /\ CoverInv
<1>1. Init => Inv
  <2> SUFFICES ASSUME Init PROVE Inv
    OBVIOUS
  <2>1. DiskInv
    BY DEF Init, DiskInv, OutputsInv, DiskInvOf, AtWork
  <2>2. ResultsInv /\ RowsInv /\ CoverInv
    BY DEF Init, ResultsInv, RowsInv, CoverInv
  <2> QED
    BY <2>1, <2>2
<1>2. TypeInv /\ DistinctInv /\ Inv /\ [Next]_vars => Inv'
  BY DiskStep, ResultsStep, RowsStep, CoverStep
<1>3. Inv => SnapshotsWhole
  <2>1. DiskInv => \A s \in Snapshots \ raced : archive[s] \in {"absent", "whole"}
    BY DEF DiskInv, DiskInvOf
  <2>2. RowsInv => (manifest # {} => \A s \in Snapshots \ raced : Told(manifest, s))
    BY DEF RowsInv
  <2>3. SnapshotsWhole <=>
          /\ \A s \in Snapshots \ raced : archive[s] \in {"absent", "whole"}
          /\ manifest # {} => \A s \in Snapshots \ raced : Told(manifest, s)
    BY Zenon DEF SnapshotsWhole, Told
  <2> QED
    BY <2>1, <2>2, <2>3
<1> QED
  BY <1>1, <1>2, <1>3, Base, PTL DEF Spec

=============================================================================
