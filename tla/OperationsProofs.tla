--------------------------- MODULE OperationsProofs ---------------------------
(***************************************************************************)
(* Theorems about Operations: that a release tells the truth, and that     *)
(* the revisions of the schema keep what they promise while commands run.  *)
(* The two share nothing, so there is an inductive invariant for each.     *)
(***************************************************************************)
EXTENDS Operations, TLAPS

-----------------------------------------------------------------------------
(***************************************************************************)
(* Releases                                                                *)
(***************************************************************************)

\* The invariant, part by part.

PastBuild == {"publishing", "published", "stopped"}

\* A run that began has a commit of main, which declares its version; what it built
\* it built once.
ReleaseOK(r) ==
  LET n == release[r] IN
  /\ n.phase = "idle" => n = NoRelease
  /\ n.phase # "idle" =>
       /\ n.version \in Versions /\ n.sha \in 1..Tip
       /\ main[n.sha].declares = n.version
  /\ n.phase = "guarded" => n.build = None
  /\ n.phase \in {"built", "publishing", "published"} => n.build # None
  /\ n.phase = "published" => \A f \in Files : index[n.version][f] = r

\* What the index serves of a version was uploaded by a run of that version.
IndexInv ==
  /\ \A v \in Versions, f \in Files, r \in Releases : index[v][f] = r =>
       /\ release[r].version = v /\ release[r].phase \in PastBuild
       /\ release[r].build # None
  /\ OneBuildPerVersion

\* A row tells the truth.
RowTrue(row) ==
  /\ row.commit = tag[row.version]
  /\ release[row.run].sha = row.commit
  /\ release[row.run].version = row.version
  /\ Fetched(row.run)

\* What a verification knows stays so.
VerifyOK(n) ==
  /\ n.phase # "idle" =>
       /\ n.version \in Versions /\ n.run \in Releases
       /\ release[n.run].build # None
  /\ n.fetched => n.phase # "idle" /\ Fetched(n.run)
  /\ n.verified =>
       /\ n.phase # "idle" /\ Fetched(n.run)
       /\ main[release[n.run].sha].declares = n.version
  /\ n.phase \in {"verified", "tag"} => n.verified
  /\ n.phase = "push" =>
       /\ n.row \in Row /\ n.row.version = n.version /\ n.row.run = n.run
       /\ RowTrue(n.row)

GreenOK(n) ==
  n.phase = "ended" /\ ~n.failed =>
    /\ n.version \in Versions /\ n.run \in Releases
    /\ tag[n.version] # None /\ tag[n.version] = release[n.run].sha
    /\ n.version \in Recorded(main[Tip]) \/ branch[n.version] # None

VerifyInv == \A w \in Verifications : VerifyOK(verify[w]) /\ GreenOK(verify[w])

BranchInv ==
  \A v \in Versions : branch[v] # None =>
    branch[v].row.version = v /\ RowTrue(branch[v].row)

\* The record of a tree has a highest version.
HasFloor(tree) ==
  \E m \in Recorded(tree) \cup {Inherited} :
    \A x \in Recorded(tree) \cup {Inherited} : m >= x

RecordsInv ==
  /\ \A row \in main[Tip].records : RowTrue(row)
  /\ \A row, other \in main[Tip].records : row.version = other.version => row = other
  /\ HasFloor(main[Tip])

ReleaseInv ==
  /\ TypeOK
  /\ \A r \in Releases : ReleaseOK(r)
  /\ IndexInv /\ VerifyInv /\ BranchInv /\ RecordsInv
  /\ TagIsEarned

-----------------------------------------------------------------------------
\* What no step takes back: commits of main, the coordinates of a run, a build, an
\* upload, a tag, a verdict, and that a version is recorded or about to be.
Known(v) == v \in Recorded(main[Tip]) \/ branch[v] # None

Later ==
  /\ Tip <= Tip' /\ \A i \in 1..Tip : main'[i] = main[i]
  /\ \A r \in Releases :
       /\ release[r].phase # "idle" =>
            /\ release'[r].phase # "idle"
            /\ release'[r].version = release[r].version
            /\ release'[r].sha = release[r].sha
       /\ release[r].build # None => release'[r].build = release[r].build
       /\ release[r].phase = "published" => release'[r].phase = "published"
  /\ \A v \in Versions, f \in Files : index[v][f] # None => index'[v][f] = index[v][f]
  /\ \A v \in Versions : tag[v] # None => tag'[v] = tag[v]
  /\ \A w \in Verifications : verify[w].verified =>
       /\ verify'[w].verified /\ verify'[w].version = verify[w].version
       /\ verify'[w].run = verify[w].run
  /\ \A v \in Versions : Known(v) => Known(v)'

LEMMA RunsHaveCommits ==
  ASSUME ReleaseInv, NEW r \in Releases, release[r].build # None \/ release[r].sha # None
  PROVE  /\ release[r].phase # "idle" /\ release[r].version \in Versions
         /\ release[r].sha \in 1..Tip /\ release[r].sha # None
         /\ main[release[r].sha].declares = release[r].version
<1>1. release[r].phase # "idle"
  BY DEF ReleaseInv, ReleaseOK, NoRelease
<1>2. ReleaseOK(r)
  BY DEF ReleaseInv
<1>3. Tip \in Nat
  BY ReleaseAssumption DEF ReleaseInv, TypeOK
<1> QED BY <1>1, <1>2, <1>3, ReleaseAssumption DEF ReleaseOK

\* What a row or a verification says stays true.
LEMMA FetchedStays ==
  ASSUME ReleaseInv, Later, NEW r \in Releases, Fetched(r),
         release[r].build # None \/ release[r].sha # None
  PROVE  Fetched(r)' /\ release'[r].build = release[r].build /\ release[r].build # None
<1>1. /\ release[r].version \in Versions /\ release'[r].version = release[r].version
  BY RunsHaveCommits DEF Later
<1>2. ASSUME NEW f \in Files
      PROVE  /\ index'[release[r].version][f] = index[release[r].version][f]
             /\ index[release[r].version][f] \in Releases
             /\ index[release[r].version][f] # None
             /\ release[index[release[r].version][f]].build # None
             /\ release[index[release[r].version][f]].build = release[r].build
  <2>1. index[release[r].version][f] # None
          /\ release[index[release[r].version][f]].build = release[r].build
    BY DEF Fetched
  <2>2. index[release[r].version][f] \in Releases
    BY <1>1, <2>1 DEF ReleaseInv, TypeOK
  <2>3. release[index[release[r].version][f]].build # None
    BY <1>1, <2>2 DEF ReleaseInv, IndexInv
  <2> QED BY <1>1, <2>1, <2>2, <2>3 DEF Later
<1>3. release[r].build # None
  BY <1>2 DEF Files
<1>4. release'[r].build = release[r].build
  BY <1>3 DEF Later
<1>5. \A f \in Files : index'[release'[r].version][f] # None
        /\ release'[index'[release'[r].version][f]].build = release'[r].build
  BY <1>1, <1>2, <1>4 DEF Later
<1> QED BY <1>3, <1>4, <1>5 DEF Fetched

LEMMA RowStays ==
  ASSUME ReleaseInv, Later, NEW row \in Row, RowTrue(row)
  PROVE  RowTrue(row)'
<1>1. /\ row.commit \in 1..MaxCommits /\ row.commit # None /\ row.version \in Versions
      /\ row.run \in Releases
  BY ReleaseAssumption DEF Row
<1>2. tag'[row.version] = tag[row.version]
  BY <1>1 DEF RowTrue, Later
<1>3. release[row.run].sha # None
  BY <1>1 DEF RowTrue
<1>4. release[row.run].phase # "idle"
  BY <1>1, <1>3, RunsHaveCommits
<1>5. Fetched(row.run)'
  BY <1>1, <1>3, FetchedStays DEF RowTrue
<1> QED BY <1>1, <1>2, <1>4, <1>5 DEF RowTrue, Later

LEMMA VerifyStays ==
  ASSUME ReleaseInv, Later, NEW n, VerifyOK(n)
  PROVE  VerifyOK(n)'
<1>1. n.phase # "idle" => /\ n.version \in Versions /\ n.run \in Releases
                          /\ release[n.run].build # None
                          /\ release'[n.run].build # None
  BY DEF VerifyOK, Later
<1>2. n.fetched => Fetched(n.run)'
  BY <1>1, FetchedStays DEF VerifyOK
<1>3. n.verified => /\ Fetched(n.run)'
                    /\ main'[release'[n.run].sha].declares = n.version
  <2>1. SUFFICES ASSUME n.verified
                 PROVE  /\ Fetched(n.run)'
                        /\ main'[release'[n.run].sha].declares = n.version
    OBVIOUS
  <2>2. /\ n.phase # "idle" /\ n.run \in Releases
        /\ release[n.run].build # None /\ Fetched(n.run)
    BY <1>1, <2>1 DEF VerifyOK
  <2>3. release[n.run].sha \in 1..Tip /\ release'[n.run].sha = release[n.run].sha
    BY <1>1, <2>2, RunsHaveCommits DEF Later
  <2>4. Fetched(n.run)'
    BY <2>2, FetchedStays
  <2> QED BY <2>1, <2>2, <2>3, <2>4 DEF VerifyOK, Later
<1>4. n.phase = "push" => RowTrue(n.row)'
  BY RowStays DEF VerifyOK
<1> QED BY <1>1, <1>2, <1>3, <1>4 DEF VerifyOK

LEMMA GreenStays ==
  ASSUME ReleaseInv, Later, NEW n, GreenOK(n)
  PROVE  GreenOK(n)'
<1>1. SUFFICES ASSUME n.phase = "ended", ~n.failed
               PROVE  /\ n.version \in Versions /\ n.run \in Releases
                      /\ tag'[n.version] # None /\ tag'[n.version] = release'[n.run].sha
                      /\ Known(n.version)'
  BY DEF GreenOK, Known
<1>2. /\ n.version \in Versions /\ n.run \in Releases
      /\ tag[n.version] # None /\ tag[n.version] = release[n.run].sha
      /\ Known(n.version)
  BY <1>1 DEF GreenOK, Known
<1>3. release[n.run].phase # "idle"
  BY <1>2, RunsHaveCommits
<1> QED BY <1>2, <1>3 DEF Later

\* Version v was verified for run r, whose commit its tag names.
Earned(v, w, r) ==
  /\ verify[w].verified /\ verify[w].version = v /\ verify[w].run = r
  /\ release[r].sha = tag[v] /\ release[r].version = v
  /\ main[tag[v]].declares = v
  /\ Fetched(r)

LEMMA TagsHaveRuns ==
  ASSUME ReleaseInv, NEW v \in Versions, tag[v] # None
  PROVE  \E w \in Verifications, r \in Releases : Earned(v, w, r)
<1>1. /\ TagIsEarned
      /\ \A w \in Verifications : verify[w].verified => verify[w].run \in Releases
  BY DEF ReleaseInv, VerifyInv, VerifyOK
<1> QED BY <1>1 DEF TagIsEarned, Tags, Earned

LEMMA EarnedStays ==
  ASSUME ReleaseInv, Later, NEW v \in Versions, NEW w \in Verifications,
         NEW r \in Releases, Earned(v, w, r), tag[v] # None, tag'[v] = tag[v]
  PROVE  Earned(v, w, r)'
<1>1. release[r].sha # None /\ Fetched(r)
  BY DEF Earned
<1>2. release[r].phase # "idle" /\ release[r].sha \in 1..Tip
  BY <1>1, RunsHaveCommits
<1>3. Fetched(r)'
  BY <1>1, FetchedStays
<1> QED BY <1>2, <1>3 DEF Earned, Later

LEMMA TagsStay ==
  ASSUME ReleaseInv, Later, tag' = tag
  PROVE  TagIsEarned'
<1>1. ASSUME NEW v \in Versions, tag'[v] # None
      PROVE  \E w \in Verifications, r \in Releases : Earned(v, w, r)'
  <2>1. PICK w \in Verifications, r \in Releases : Earned(v, w, r)
    <3>1. tag[v] # None
      BY <1>1
    <3> QED BY <3>1, TagsHaveRuns
  <2> QED BY <1>1, <2>1, EarnedStays
<1> QED BY <1>1 DEF TagIsEarned, Tags, Earned

\* The parts of the invariant that a step does not touch.
LEMMA Follows ==
  ASSUME ReleaseInv, Later, TypeOK', \A r \in Releases : ReleaseOK(r)', IndexInv',
         \A w \in Verifications : \A n :
           verify'[w] = n => n = verify[w] \/ (VerifyOK(n)' /\ GreenOK(n)'),
         \A v \in Versions : \A d \in Draft :
           branch'[v] = d => d = branch[v] \/ (d.row.version = v /\ RowTrue(d.row)'),
         tag' = tag \/ TagIsEarned',
         main' = main \/ RecordsInv'
  PROVE  ReleaseInv' /\ Later
<1>1. VerifyInv'
  <2>1. \A n : VerifyOK(n) => VerifyOK(n)'
    BY VerifyStays
  <2>2. \A n : GreenOK(n) => GreenOK(n)'
    BY GreenStays
  <2>3. ASSUME NEW w \in Verifications, NEW n, n = verify'[w]
        PROVE  VerifyOK(n)' /\ GreenOK(n)'
    BY <2>1, <2>2, <2>3 DEF ReleaseInv, VerifyInv
  <2> QED BY <2>3 DEF VerifyInv
<1>2. BranchInv'
  <2>1. ASSUME NEW v \in Versions, NEW d \in Draft, d = branch'[v]
        PROVE  d.row.version = v /\ RowTrue(d.row)'
    <3>1. CASE d = branch[v]
      <4>1. d.row \in Row
        BY DEF Draft
      <4>2. d # None
        BY ReleaseAssumption
      <4>3. d.row.version = v /\ RowTrue(d.row)
        BY <3>1, <4>2 DEF ReleaseInv, BranchInv
      <4> QED BY <4>1, <4>3, RowStays
    <3> QED BY <2>1, <3>1
  <2>2. \A v \in Versions : branch'[v] # None => branch'[v] \in Draft
    BY DEF TypeOK
  <2> QED BY <2>1, <2>2 DEF BranchInv
<1>3. TagIsEarned'
  BY TagsStay
<1>4. RecordsInv'
  <2>1. SUFFICES ASSUME main' = main PROVE RecordsInv'
    OBVIOUS
  <2>2. Tip' = Tip /\ main[Tip] \in Tree
    BY <2>1 DEF ReleaseInv, TypeOK, Tip
  <2>3. \A row \in Row : RowTrue(row) => RowTrue(row)'
    BY RowStays
  <2>4. main'[Tip'] = main[Tip] /\ main[Tip].records \subseteq Row
    BY <2>1, <2>2 DEF Tree
  <2>5. \A row \in main'[Tip'].records : RowTrue(row)'
    BY <2>3, <2>4 DEF ReleaseInv, RecordsInv
  <2>6. \A tree : HasFloor(tree) => HasFloor(tree)'
    BY DEF HasFloor, Recorded
  <2> QED BY <2>4, <2>5, <2>6 DEF ReleaseInv, RecordsInv
<1> QED BY <1>1, <1>2, <1>3, <1>4 DEF ReleaseInv

-----------------------------------------------------------------------------
\* The steps of a release run.

Runs ==
  [phase : {"idle", "guarded", "built", "publishing", "published", "stopped"},
   version : Versions \cup {None}, sha : (1..MaxCommits) \cup {None},
   build : Builds \cup {None}]

Served == [Versions -> [Files -> Releases \cup {None}]]

\* What replaces the state of a run.
Goes(r, n) ==
  /\ release[r].phase # "idle" =>
       n.phase # "idle" /\ n.version = release[r].version /\ n.sha = release[r].sha
  /\ release[r].build # None => n.build = release[r].build
  /\ release[r].phase = "published" => n.phase = "published"
  /\ release[r].phase \in PastBuild => n.phase \in PastBuild
  /\ n.phase # "idle" =>
       /\ n.version \in Versions /\ n.sha \in 1..Tip
       /\ main[n.sha].declares = n.version
  /\ n.phase = "idle" => n = NoRelease
  /\ n.phase = "guarded" => n.build = None
  /\ n.phase \in {"built", "publishing", "published"} => n.build # None

LEMMA RunStep ==
  ASSUME ReleaseInv, NEW r \in Releases, NEW n \in Runs, Goes(r, n),
         release' = [release EXCEPT ![r] = n],
         UNCHANGED <<main, tag, verify, branch>>,
         index' \in Served,
         \A v \in Versions, f \in Files : index[v][f] # None => index'[v][f] = index[v][f],
         n.phase = "published" => \A f \in Files : index'[n.version][f] = r,
         index' = index \/ IndexInv'
  PROVE  ReleaseInv' /\ Later
<1>1. \A x \in Releases : release'[x] = IF x = r THEN n ELSE release[x]
  BY DEF ReleaseInv, TypeOK
<1>2. TypeOK'
  BY DEF ReleaseInv, TypeOK, Tip, Runs, Served
<1>3. Tip' = Tip
  BY DEF Tip
<1>4. Later
  <2>1. \A v \in Versions : Known(v)' <=> Known(v)
    BY DEF Known, Recorded, Tip
  <2> QED BY <1>1, <1>3, <2>1 DEF Later, Goes, ReleaseInv, TypeOK
<1>5. ASSUME NEW x \in Releases
      PROVE  ReleaseOK(x)'
  <2>1. CASE x = r
    BY <1>1, <1>3, <2>1 DEF ReleaseOK, Goes
  <2>2. CASE x # r
    <3>1. release'[x] = release[x] /\ ReleaseOK(x)
      BY <1>1, <2>2 DEF ReleaseInv
    <3>2. release[x].phase = "published" =>
            \A f \in Files : index'[release[x].version][f] = x
      BY <3>1, ReleaseAssumption DEF ReleaseOK
    <3> QED BY <1>3, <3>1, <3>2 DEF ReleaseOK
  <2> QED BY <2>1, <2>2
<1>6. IndexInv'
  <2>1. SUFFICES ASSUME index' = index PROVE IndexInv'
    OBVIOUS
  <2>2. \A v \in Versions, f \in Files, x \in Releases : index[v][f] = x =>
          /\ release'[x].version = v /\ release'[x].phase \in PastBuild
          /\ release'[x].build # None
    <3>1. ASSUME NEW v \in Versions, NEW f \in Files, NEW x \in Releases, index[v][f] = x
          PROVE  /\ release'[x].version = v /\ release'[x].phase \in PastBuild
                 /\ release'[x].build # None
      <4>1. /\ release[x].version = v /\ release[x].phase \in PastBuild
            /\ release[x].build # None
        BY <3>1 DEF ReleaseInv, IndexInv
      <4>2. release[x].phase # "idle"
        BY <4>1 DEF PastBuild
      <4> QED BY <1>1, <4>1, <4>2 DEF Goes
    <3> QED BY <3>1
  <2>3. OneBuildPerVersion'
    BY <2>1 DEF ReleaseInv, IndexInv, OneBuildPerVersion
  <2> QED BY <2>1, <2>2, <2>3 DEF IndexInv
<1> QED BY <1>2, <1>4, <1>5, <1>6, Follows

LEMMA GuardStep ==
  ASSUME ReleaseInv, NEW r \in Releases, NEW v \in Versions, Guard(r, v)
  PROVE  ReleaseInv' /\ Later
<1> DEFINE n == [release[r] EXCEPT !.phase = "guarded", !.version = v, !.sha = Tip]
<1>1. /\ release[r].phase = "idle" /\ main[Tip].declares = v
      /\ release' = [release EXCEPT ![r] = n]
      /\ UNCHANGED <<main, index, tag, verify, branch>>
  BY DEF Guard
<1>2. release[r] = NoRelease
  BY <1>1 DEF ReleaseInv, ReleaseOK
<1>3. Tip \in 1..MaxCommits /\ Tip \in 1..Tip
  BY ReleaseAssumption DEF ReleaseInv, TypeOK
<1>4. release[r] \in Runs /\ release[r].build = None
  BY <1>2 DEF ReleaseInv, TypeOK, Runs, NoRelease
<1>5. /\ n \in Runs /\ n.phase = "guarded" /\ n.version = v /\ n.sha = Tip /\ n.build = None
  BY <1>3, <1>4 DEF Runs
<1>6. release[r].build = None
  BY <1>2 DEF NoRelease
<1> HIDE DEF n
<1>7. Goes(r, n)
  BY <1>1, <1>3, <1>5, <1>6 DEF Goes, PastBuild
<1>8. index' \in Served
  BY <1>1 DEF ReleaseInv, TypeOK, Served
<1> QED BY <1>1, <1>5, <1>7, <1>8, RunStep

\* The build, the guard before the upload and a failure change the phase.
LEMMA PhaseStep ==
  ASSUME ReleaseInv, NEW r \in Releases, Build(r) \/ Publish(r) \/ StopRelease(r)
  PROVE  ReleaseInv' /\ Later
<1>1. release[r] \in Runs /\ ReleaseOK(r)
  BY DEF ReleaseInv, TypeOK, Runs
<1>2. index' = index /\ UNCHANGED <<main, tag, verify, branch>> /\ index' \in Served
  BY DEF ReleaseInv, TypeOK, Served, Build, Publish, StopRelease
<1>3. CASE Build(r)
  <2>1. PICK b \in Builds : release' = [release EXCEPT ![r] = [@ EXCEPT !.phase = "built", !.build = b]]
    BY <1>3 DEF Build
  <2> DEFINE n == [release[r] EXCEPT !.phase = "built", !.build = b]
  <2>2. /\ release' = [release EXCEPT ![r] = n] /\ n \in Runs /\ n.phase = "built" /\ n.build = b
        /\ n.version = release[r].version /\ n.sha = release[r].sha
    BY <1>1, <2>1 DEF Runs
  <2>3. b # None /\ release[r].phase = "guarded"
    BY <1>3, ReleaseAssumption DEF Build
  <2> HIDE DEF n
  <2>4. Goes(r, n)
    BY <1>1, <2>2, <2>3 DEF Goes, PastBuild, ReleaseOK
  <2> QED BY <1>2, <2>2, <2>4, RunStep
<1>4. CASE Publish(r) \/ StopRelease(r)
  <2>1. PICK p \in {"publishing", "stopped"} : release' = [release EXCEPT ![r].phase = p]
          /\ (p = "publishing" => release[r].phase = "built")
    BY <1>4 DEF Publish, StopRelease
  <2> DEFINE n == [release[r] EXCEPT !.phase = p]
  <2>2. /\ release' = [release EXCEPT ![r] = n] /\ n \in Runs /\ n.phase = p
        /\ n.version = release[r].version /\ n.sha = release[r].sha /\ n.build = release[r].build
    BY <1>1, <2>1 DEF Runs
  <2>3. release[r].phase \in {"guarded", "built", "publishing"}
    BY <1>4 DEF Publish, StopRelease
  <2> HIDE DEF n
  <2>4. Goes(r, n)
    BY <1>1, <2>1, <2>2, <2>3 DEF Goes, PastBuild, ReleaseOK
  <2> QED BY <1>2, <2>1, <2>2, <2>4, RunStep
<1> QED BY <1>3, <1>4

LEMMA UploadStep ==
  ASSUME ReleaseInv, NEW r \in Releases, Upload(r)
  PROVE  ReleaseInv' /\ Later
<1> DEFINE v == release[r].version
           file == IF index[v]["wheel"] = r THEN "sdist" ELSE "wheel"
<1>1. /\ release[r].phase = "publishing" /\ UNCHANGED <<main, tag, verify, branch>>
  BY DEF Upload
<1>2. /\ release[r] \in Runs /\ ReleaseOK(r) /\ v \in Versions /\ release[r].build # None
      /\ index \in Served /\ file \in Files /\ r # None
  BY <1>1, ReleaseAssumption DEF ReleaseInv, TypeOK, Runs, ReleaseOK, Served, Files
<1>3. ASSUME NEW p \in {"publishing", "published", "stopped"}
      PROVE  LET n == [release[r] EXCEPT !.phase = p] IN
             /\ n \in Runs /\ n.phase = p /\ n.version = v /\ n.build = release[r].build
             /\ Goes(r, n)
  <2> DEFINE n == [release[r] EXCEPT !.phase = p]
  <2>1. /\ n \in Runs /\ n.phase = p /\ n.version = v /\ n.sha = release[r].sha
        /\ n.build = release[r].build
    BY <1>2 DEF Runs
  <2> HIDE DEF n
  <2>2. Goes(r, n)
    BY <1>1, <1>2, <2>1 DEF Goes, PastBuild, ReleaseOK
  <2> QED BY <2>1, <2>2 DEF n
<1>4. CASE index[v][file] # None
  <2> DEFINE n == [release[r] EXCEPT !.phase = "stopped"]
  <2>1. index' = index /\ release' = [release EXCEPT ![r] = n]
    BY <1>2, <1>4 DEF Upload
  <2>2. n \in Runs /\ n.phase = "stopped" /\ Goes(r, n)
    BY <1>3
  <2> HIDE DEF n
  <2> QED BY <1>1, <1>2, <2>1, <2>2, RunStep
<1>5. CASE index[v][file] = None
  <2> DEFINE p == IF file = "sdist" THEN "published" ELSE "publishing"
             n == [release[r] EXCEPT !.phase = p]
  <2>1. /\ index' = [index EXCEPT ![v][file] = r] /\ release' = [release EXCEPT ![r] = n]
    BY <1>1, <1>2, <1>5 DEF Upload, ReleaseInv, TypeOK
  <2>2. n \in Runs /\ n.phase = p /\ n.version = v /\ n.build = release[r].build /\ Goes(r, n)
    BY <1>3
  <2>3. \A x \in Versions, f \in Files :
          index'[x][f] = IF x = v /\ f = file THEN r ELSE index[x][f]
    BY <1>2, <2>1 DEF Served
  <2>4. index' \in Served
    BY <1>2, <2>1 DEF Served
  <2>5. file = "sdist" => index[v]["wheel"] = r
    OBVIOUS
  <2>6. n.phase = "published" => \A f \in Files : index'[n.version][f] = r
    BY <1>2, <2>2, <2>3, <2>5 DEF Files
  <2>7. release' = [x \in Releases |-> IF x = r THEN n ELSE release[x]]
    BY <2>1 DEF ReleaseInv, TypeOK
  <2>8. OneBuildPerVersion'
    <3>1. SUFFICES ASSUME NEW x \in Versions, NEW s \in Releases, index'[x]["sdist"] = s
                   PROVE  index'[x]["wheel"] = s
      BY DEF OneBuildPerVersion
    <3>2. \A q \in Releases : index[x]["sdist"] = q => index[x]["wheel"] = q
      BY DEF ReleaseInv, IndexInv, OneBuildPerVersion
    <3>3. {"sdist", "wheel"} = Files
      BY DEF Files
    <3>4. CASE x # v
      BY <2>3, <3>1, <3>2, <3>3, <3>4
    <3>5. CASE x = v /\ file = "sdist"
      BY <2>3, <2>5, <3>1, <3>3, <3>5
    <3>6. CASE x = v /\ file = "wheel"
      <4>1. index[v]["sdist"] = s /\ index[v]["wheel"] = None
        BY <1>5, <2>3, <3>1, <3>3, <3>6
      <4>2. s # None
        BY ReleaseAssumption
      <4> QED BY <3>2, <3>6, <4>1, <4>2
    <3> QED BY <1>2, <3>4, <3>5, <3>6 DEF Files
  <2>9. IndexInv'
    <3>1. ASSUME NEW x \in Versions, NEW f \in Files, NEW s \in Releases, index'[x][f] = s
          PROVE  /\ release'[s].version = x /\ release'[s].phase \in PastBuild
                 /\ release'[s].build # None
      <4>1. CASE s = r /\ x = v
        <5>1. release'[s] = n
          BY <2>7, <4>1
        <5> QED BY <1>2, <2>2, <4>1, <5>1 DEF PastBuild
      <4>2. CASE ~(s = r /\ x = v)
        <5>1. index[x][f] = s
          BY <2>3, <3>1, <4>2
        <5>2. release[s].version = x /\ release[s].phase \in PastBuild /\ release[s].build # None
          BY <5>1 DEF ReleaseInv, IndexInv
        <5> QED BY <2>7, <4>2, <5>2
      <4> QED BY <4>1, <4>2
    <3> QED BY <2>8, <3>1 DEF IndexInv
  <2>10. \A x \in Versions, f \in Files : index[x][f] # None => index'[x][f] = index[x][f]
    BY <1>5, <2>3
  <2> HIDE DEF n, p, file
  <2> QED BY <1>1, <2>1, <2>2, <2>4, <2>6, <2>9, <2>10, RunStep
<1> QED BY <1>4, <1>5

-----------------------------------------------------------------------------
\* The steps of a verification.

Observed ==
  [phase : {"idle", "verified", "tag", "record", "push", "ended"},
   version : Versions \cup {None}, run : Releases \cup {None},
   verified : BOOLEAN, fetched : BOOLEAN,
   tagged : (1..MaxCommits) \cup {None}, row : Row \cup {None},
   lease : Draft \cup {None}, failed : BOOLEAN]

\* A step that changes what one verification knows and nothing else.
LEMMA ObservedStep ==
  ASSUME ReleaseInv, NEW w \in Verifications, NEW n \in Observed,
         verify' = [verify EXCEPT ![w] = n],
         UNCHANGED <<main, release, index, tag, branch>>,
         verify[w].verified =>
           /\ n.verified /\ n.version = verify[w].version /\ n.run = verify[w].run,
         VerifyOK(n), GreenOK(n)
  PROVE  ReleaseInv' /\ Later
<1>1. \A x \in Verifications : verify'[x] = IF x = w THEN n ELSE verify[x]
  BY DEF ReleaseInv, TypeOK
<1>2. TypeOK'
  BY DEF ReleaseInv, TypeOK, Tip, Observed
<1>3. Tip' = Tip /\ Tip \in Nat
  BY ReleaseAssumption DEF Tip, ReleaseInv, TypeOK
<1>4. Later
  <2>1. \A v \in Versions : Known(v)' <=> Known(v)
    BY DEF Known, Recorded, Tip
  <2> QED BY <1>1, <1>3, <2>1 DEF Later
<1>5. \A r \in Releases : ReleaseOK(r)'
  BY <1>3 DEF ReleaseInv, ReleaseOK
<1>6. IndexInv'
  BY DEF ReleaseInv, IndexInv, OneBuildPerVersion
<1>7. VerifyOK(n)' /\ GreenOK(n)'
  BY <1>4, VerifyStays, GreenStays
<1> QED BY <1>1, <1>2, <1>4, <1>5, <1>6, <1>7, Follows

LEMMA VerifyStep ==
  ASSUME ReleaseInv, NEW w \in Verifications, NEW v \in Versions, NEW r \in Releases,
         Verify(w, v, r)
  PROVE  ReleaseInv' /\ Later
<1>1. PICK served, works \in BOOLEAN :
        verify' = [verify EXCEPT ![w] =
                [@ EXCEPT !.phase = IF Verdict(v, r, served /\ Fetched(r), works)
                                    THEN "verified" ELSE "record",
                          !.version = v, !.run = r,
                          !.verified = Verdict(v, r, served /\ Fetched(r), works),
                          !.fetched = served /\ Fetched(r), !.tagged = tag[v],
                          !.failed = ~Verdict(v, r, served /\ Fetched(r), works)]]
  BY DEF Verify
<1>2. /\ verify[w].phase = "idle" /\ release[r].build # None
      /\ UNCHANGED <<main, release, index, tag, branch>>
  BY DEF Verify
<1> DEFINE fetched == served /\ Fetched(r)
           verdict == Verdict(v, r, fetched, works)
           n == [verify[w] EXCEPT !.phase = IF verdict THEN "verified" ELSE "record",
                          !.version = v, !.run = r, !.verified = verdict,
                          !.fetched = fetched, !.tagged = tag[v], !.failed = ~verdict]
<1>3. fetched \in BOOLEAN /\ verdict \in BOOLEAN
  BY DEF Fetched, Verdict
<1>4. verify[w] \in Observed /\ tag[v] \in (1..MaxCommits) \cup {None} /\ ~verify[w].verified
  BY <1>2 DEF ReleaseInv, TypeOK, Observed, VerifyInv, VerifyOK
<1>5. fetched => Fetched(r)
  OBVIOUS
<1>6. verdict => fetched /\ main[release[r].sha].declares = v
  BY DEF Verdict
<1>7. verify' = [verify EXCEPT ![w] = n]
  BY <1>1
<1> HIDE DEF fetched, verdict
<1>8. /\ n \in Observed /\ n.phase = (IF verdict THEN "verified" ELSE "record")
      /\ n.version = v /\ n.run = r /\ n.verified = verdict /\ n.fetched = fetched
  BY <1>3, <1>4 DEF Observed
<1> HIDE DEF n
<1>9. VerifyOK(n) /\ GreenOK(n)
  BY <1>2, <1>5, <1>6, <1>8 DEF VerifyOK, GreenOK
<1> QED BY <1>2, <1>4, <1>7, <1>8, <1>9, ObservedStep

LEMMA LookUpStep ==
  ASSUME ReleaseInv, NEW w \in Verifications, LookUpTag(w)
  PROVE  ReleaseInv' /\ Later
<1>1. /\ verify[w].phase = "verified" /\ UNCHANGED <<main, release, index, tag, branch>>
      /\ verify[w] \in Observed /\ VerifyOK(verify[w])
  BY DEF LookUpTag, ReleaseInv, TypeOK, Observed, VerifyInv
<1>2. PICK seen \in {verify[w].tagged, tag[verify[w].version]} :
        verify' = [verify EXCEPT ![w] = [@ EXCEPT !.phase = "tag", !.tagged = seen]]
  BY DEF LookUpTag
<1>3. seen \in (1..MaxCommits) \cup {None}
  BY <1>1 DEF Observed, VerifyOK, ReleaseInv, TypeOK
<1> DEFINE n == [verify[w] EXCEPT !.phase = "tag", !.tagged = seen]
<1>4. /\ n \in Observed /\ n.phase = "tag" /\ n.version = verify[w].version
      /\ n.run = verify[w].run /\ n.verified = verify[w].verified
      /\ n.fetched = verify[w].fetched
  BY <1>1, <1>3 DEF Observed
<1>5. verify' = [verify EXCEPT ![w] = n]
  BY <1>2
<1> HIDE DEF n
<1>6. VerifyOK(n) /\ GreenOK(n)
  BY <1>1, <1>4 DEF VerifyOK, GreenOK
<1> QED BY <1>1, <1>4, <1>5, <1>6, ObservedStep

LEMMA StopVerificationStep ==
  ASSUME ReleaseInv, NEW w \in Verifications, StopVerification(w)
  PROVE  ReleaseInv' /\ Later
<1>1. /\ verify[w].phase # "idle" /\ UNCHANGED <<main, release, index, tag, branch>>
      /\ verify[w] \in Observed /\ VerifyOK(verify[w])
  BY DEF StopVerification, ReleaseInv, TypeOK, Observed, VerifyInv
<1> DEFINE n == [verify[w] EXCEPT !.phase = "ended", !.failed = TRUE]
<1>2. /\ n \in Observed /\ n.phase = "ended" /\ n.version = verify[w].version
      /\ n.run = verify[w].run /\ n.verified = verify[w].verified
      /\ n.fetched = verify[w].fetched /\ n.failed
  BY <1>1 DEF Observed
<1>3. verify' = [verify EXCEPT ![w] = n]
  BY DEF StopVerification
<1> HIDE DEF n
<1>4. VerifyOK(n) /\ GreenOK(n)
  BY <1>1, <1>2 DEF VerifyOK, GreenOK
<1> QED BY <1>1, <1>2, <1>3, <1>4, ObservedStep

LEMMA TagStep ==
  ASSUME ReleaseInv, NEW w \in Verifications, Tag(w)
  PROVE  ReleaseInv' /\ Later
<1> DEFINE v == verify[w].version
           r == verify[w].run
           sha == release[r].sha
           create == verify[w].tagged = None /\ tag[v] = None
           fails == ~(create \/ verify[w].tagged = sha)
           next == [verify[w] EXCEPT !.phase = "record", !.failed = fails]
<1>1. /\ verify[w].phase = "tag" /\ UNCHANGED <<main, release, index, branch>>
      /\ verify[w] \in Observed /\ VerifyOK(verify[w])
      /\ tag' = IF create THEN [tag EXCEPT ![v] = sha] ELSE tag
      /\ verify' = [verify EXCEPT ![w] = next]
  BY DEF Tag, ReleaseInv, TypeOK, Observed, VerifyInv
<1>2. /\ v \in Versions /\ r \in Releases /\ verify[w].verified
      /\ Fetched(r) /\ release[r].build # None
      /\ main[sha].declares = v
  BY <1>1 DEF VerifyOK
<1>3. release[r].version = v /\ sha \in 1..Tip /\ sha # None
  BY <1>2, RunsHaveCommits
<1>4. fails \in BOOLEAN
  OBVIOUS
<1> HIDE DEF fails
<1>5. /\ next \in Observed /\ next.phase = "record" /\ next.version = v
       /\ next.run = r /\ next.verified = verify[w].verified
       /\ next.fetched = verify[w].fetched
  BY <1>1, <1>4 DEF Observed
<1> HIDE DEF next
<1>6. PICK n \in Observed :
        /\ n = next /\ n.phase = "record" /\ n.version = v
        /\ n.run = r /\ n.verified = verify[w].verified
        /\ n.fetched = verify[w].fetched
  BY <1>5
<1>7. \A x \in Verifications : verify'[x] = IF x = w THEN n ELSE verify[x]
  BY <1>1, <1>6 DEF ReleaseInv, TypeOK
<1>8. Tip' = Tip /\ Tip \in Nat
  BY <1>1, ReleaseAssumption DEF Tip, ReleaseInv, TypeOK
<1>9. /\ tag' \in [Versions -> (1..MaxCommits) \cup {None}]
      /\ \A x \in Versions : tag'[x] = IF create /\ x = v THEN sha ELSE tag[x]
  <2>1. Tip \in 1..MaxCommits /\ tag \in [Versions -> (1..MaxCommits) \cup {None}]
    BY DEF ReleaseInv, TypeOK
  <2>2. sha \in 1..MaxCommits
    BY <1>3, <2>1, ReleaseAssumption
  <2> QED BY <1>1, <1>2, <2>1, <2>2
<1>10. TypeOK'
  BY <1>1, <1>6, <1>8, <1>9 DEF ReleaseInv, TypeOK, Observed
<1>11. Later
  <2>1. \A x \in Versions : Known(x)' <=> Known(x)
    BY <1>1, <1>8 DEF Known, Recorded
  <2>2. \A x \in Versions : tag[x] # None => tag'[x] = tag[x]
    BY <1>9
  <2> QED BY <1>1, <1>6, <1>7, <1>8, <2>1, <2>2 DEF Later
<1>12. \A x \in Releases : ReleaseOK(x)'
  BY <1>1, <1>8 DEF ReleaseInv, ReleaseOK
<1>13. IndexInv'
  BY <1>1 DEF ReleaseInv, IndexInv, OneBuildPerVersion
<1>14. VerifyOK(n)' /\ GreenOK(n)'
  <2>1. VerifyOK(n) /\ GreenOK(n)
    BY <1>1, <1>6 DEF VerifyOK, GreenOK
  <2> QED BY <1>11, <2>1, VerifyStays, GreenStays
<1>15. TagIsEarned'
  <2>1. ASSUME NEW x \in Versions, tag'[x] # None
        PROVE  \E u \in Verifications, q \in Releases : Earned(x, u, q)'
    <3>1. CASE create /\ x = v
      <4>1. /\ verify'[w].verified /\ verify'[w].version = x
            /\ tag'[x] = release[verify[w].run].sha
            /\ verify'[w].run = verify[w].run
        BY <1>2, <1>6, <1>7, <1>9, <3>1
      <4>2. release' = release /\ main' = main /\ index' = index
        BY <1>1
      <4>3. PICK q \in Releases : q = verify[w].run
        BY <1>2
      <4>4. Fetched(q)'
        BY <1>2, <4>2, <4>3 DEF Fetched
      <4>5. /\ release'[q].sha = tag'[x] /\ release'[q].version = x
            /\ main'[tag'[x]].declares = x
        BY <1>2, <1>3, <3>1, <4>1, <4>2, <4>3
      <4>6. Earned(x, w, q)'
        BY <4>1, <4>3, <4>4, <4>5 DEF Earned
      <4> QED BY <4>6
    <3>2. CASE ~(create /\ x = v)
      <4>1. tag'[x] = tag[x] /\ tag[x] # None
        BY <1>9, <2>1, <3>2
      <4>2. PICK u \in Verifications, q \in Releases : Earned(x, u, q)
        BY <4>1, TagsHaveRuns
      <4> QED BY <1>11, <4>1, <4>2, EarnedStays
    <3> QED BY <3>1, <3>2
  <2> QED BY <2>1 DEF TagIsEarned, Tags, Earned
<1> QED BY <1>1, <1>7, <1>10, <1>11, <1>12, <1>13, <1>14, <1>15, Follows

\* The floor of a tree is one of its versions, or the inherited one.
LEMMA FloorKnown ==
  ASSUME NEW tree \in Tree, HasFloor(tree)
  PROVE  Max(Recorded(tree) \cup {Inherited}) \in Versions \cup {Inherited}
<1>1. Recorded(tree) \subseteq Versions
  BY DEF Recorded, Tree, Row
<1>2. Max(Recorded(tree) \cup {Inherited}) \in Recorded(tree) \cup {Inherited}
  BY DEF HasFloor, Max
<1> QED BY <1>1, <1>2

LEMMA PrepareStep ==
  ASSUME ReleaseInv, NEW w \in Verifications, Prepare(w)
  PROVE  ReleaseInv' /\ Later
<1>1. /\ verify[w].phase = "record" /\ UNCHANGED <<main, release, index, tag, branch>>
      /\ verify[w] \in Observed /\ VerifyOK(verify[w])
  BY DEF Prepare, ReleaseInv, TypeOK, Observed, VerifyInv
<1> DEFINE v == verify[w].version
           r == verify[w].run
           row == NewRow(w, main[Tip])
           written == [verify[w] EXCEPT !.phase = "push", !.row = row, !.lease = branch[v]]
           refused == [verify[w] EXCEPT !.phase = "ended", !.failed = TRUE]
<1>2. v \in Versions /\ r \in Releases /\ release[r].build # None
  BY <1>1 DEF VerifyOK
<1>3. \/ verify' = [verify EXCEPT ![w] = refused]
      \/ Writable(w, main[Tip]) /\ verify' = [verify EXCEPT ![w] = written]
  BY DEF Prepare
<1>4. CASE verify' = [verify EXCEPT ![w] = refused]
  <2>1. /\ refused \in Observed /\ refused.phase = "ended" /\ refused.version = v
        /\ refused.run = r /\ refused.verified = verify[w].verified
        /\ refused.fetched = verify[w].fetched /\ refused.failed
    BY <1>1 DEF Observed
  <2> HIDE DEF refused
  <2>2. VerifyOK(refused) /\ GreenOK(refused)
    BY <1>1, <1>2, <2>1 DEF VerifyOK, GreenOK
  <2> QED BY <1>1, <1>4, <2>1, <2>2, ObservedStep
<1>5. CASE Writable(w, main[Tip]) /\ verify' = [verify EXCEPT ![w] = written]
  <2>1. /\ tag[v] = release[r].sha /\ verify[w].fetched
    BY <1>5 DEF Writable
  <2>2. /\ release[r].sha \in 1..Tip /\ release[r].sha # None
        /\ main[release[r].sha].declares = release[r].version
    BY <1>2, RunsHaveCommits
  <2>3. main[tag[v]].declares = v
    BY <1>2, <2>1, <2>2 DEF ReleaseInv, TagIsEarned, Tags
  <2>4. release[r].version = v
    BY <2>1, <2>2, <2>3
  <2>5. /\ row.version = v /\ row.commit = tag[v] /\ row.run = r
    BY DEF NewRow
  <2>6. row \in Row
    <3>1. Tip \in 1..Len(main) /\ main \in Seq(Tree)
      BY ReleaseAssumption DEF ReleaseInv, TypeOK, Tip
    <3>2. main[Tip] \in Tree
      BY <3>1
    <3>3. Max(Recorded(main[Tip]) \cup {Inherited}) \in Versions \cup {Inherited}
      BY <3>2, FloorKnown DEF ReleaseInv, RecordsInv
    <3>4. tag[v] \in 1..MaxCommits
      BY <1>2, <2>1, <2>2 DEF ReleaseInv, TypeOK
    <3> QED BY <1>2, <3>3, <3>4 DEF NewRow, Row
  <2> HIDE DEF row
  <2>7. RowTrue(row)
    BY <1>1, <2>1, <2>4, <2>5 DEF RowTrue, VerifyOK
  <2>8. branch[v] \in Draft \cup {None}
    BY <1>2 DEF ReleaseInv, TypeOK
  <2>9. /\ written \in Observed /\ written.phase = "push" /\ written.version = v
        /\ written.run = r /\ written.verified = verify[w].verified
        /\ written.fetched = verify[w].fetched /\ written.row = row
    BY <1>1, <2>6, <2>8 DEF Observed
  <2> HIDE DEF written
  <2>10. VerifyOK(written) /\ GreenOK(written)
    BY <1>1, <1>2, <2>5, <2>6, <2>7, <2>9 DEF VerifyOK, GreenOK
  <2> QED BY <1>1, <1>5, <2>9, <2>10, ObservedStep
<1> QED BY <1>3, <1>4, <1>5

LEMMA PushStep ==
  ASSUME ReleaseInv, NEW w \in Verifications, PushRecord(w)
  PROVE  ReleaseInv' /\ Later
<1> DEFINE v == verify[w].version
           r == verify[w].run
           held == branch[v] = verify[w].lease
           draft == [row |-> verify[w].row, edited |-> FALSE]
<1>1. /\ verify[w].phase = "push" /\ UNCHANGED <<main, release, index, tag>>
      /\ verify[w] \in Observed /\ VerifyOK(verify[w])
      /\ branch' = IF held THEN [branch EXCEPT ![v] = draft] ELSE branch
  BY DEF PushRecord, ReleaseInv, TypeOK, Observed, VerifyInv
<1>2. PICK opened \in BOOLEAN :
        verify' = [verify EXCEPT ![w] =
                [@ EXCEPT !.phase = "ended",
                          !.failed = verify[w].failed \/ ~held \/ ~opened]]
  BY DEF PushRecord
<1> DEFINE fails == verify[w].failed \/ ~held \/ ~opened
           next == [verify[w] EXCEPT !.phase = "ended", !.failed = fails]
<1>3. /\ v \in Versions /\ r \in Releases /\ release[r].build # None
      /\ verify[w].row \in Row /\ verify[w].row.version = v /\ verify[w].row.run = r
      /\ RowTrue(verify[w].row)
  BY <1>1 DEF VerifyOK
<1>4. draft \in Draft /\ draft.row = verify[w].row /\ draft # None
  <2>1. draft \in Draft /\ draft.row = verify[w].row
    BY <1>3 DEF Draft
  <2> QED BY <2>1, ReleaseAssumption
<1>5. fails \in BOOLEAN /\ (~fails => held)
  BY <1>1 DEF Observed
<1>6. verify' = [verify EXCEPT ![w] = next]
  BY <1>2
<1> HIDE DEF fails
<1>7. /\ next \in Observed /\ next.phase = "ended" /\ next.version = v
      /\ next.run = r /\ next.verified = verify[w].verified
      /\ next.fetched = verify[w].fetched /\ next.failed = fails
  BY <1>1, <1>5 DEF Observed
<1> HIDE DEF next
<1>8. PICK n \in Observed : n = next
  BY <1>7
<1> HIDE DEF draft
<1>9. PICK d \in Draft : d = draft
  BY <1>4
<1>10. \A x \in Verifications : verify'[x] = IF x = w THEN n ELSE verify[x]
  BY <1>6, <1>8 DEF ReleaseInv, TypeOK
<1>11. /\ branch' \in [Versions -> Draft \cup {None}]
       /\ \A x \in Versions : branch'[x] = IF held /\ x = v THEN d ELSE branch[x]
  BY <1>1, <1>3, <1>9 DEF ReleaseInv, TypeOK
<1>12. Tip' = Tip /\ Tip \in Nat
  BY <1>1, ReleaseAssumption DEF Tip, ReleaseInv, TypeOK
<1>13. TypeOK'
  BY <1>1, <1>6, <1>8, <1>11, <1>12 DEF ReleaseInv, TypeOK, Observed
<1>14. Later
  <2>1. \A x \in Versions : Known(x) => Known(x)'
    BY <1>1, <1>4, <1>9, <1>11, <1>12 DEF Known, Recorded
  <2> QED BY <1>1, <1>7, <1>8, <1>10, <1>12, <2>1 DEF Later
<1>15. \A x \in Releases : ReleaseOK(x)'
  BY <1>1, <1>12 DEF ReleaseInv, ReleaseOK
<1>16. IndexInv'
  BY <1>1 DEF ReleaseInv, IndexInv, OneBuildPerVersion
<1>17. VerifyOK(n)'
  <2>1. VerifyOK(n)
    BY <1>1, <1>7, <1>8 DEF VerifyOK
  <2> QED BY <1>14, <2>1, VerifyStays
<1>18. GreenOK(n)'
  <2>1. SUFFICES ASSUME ~n.failed
                 PROVE  /\ n.version \in Versions /\ n.run \in Releases
                        /\ tag[n.version] # None /\ tag[n.version] = release[n.run].sha
                        /\ branch'[n.version] # None
    BY <1>1 DEF GreenOK
  <2>2. held
    BY <1>5, <1>7, <1>8, <2>1
  <2>3. verify[w].row.commit # None
    BY <1>3, ReleaseAssumption DEF Row
  <2>4. n.version = v /\ n.run = r
    BY <1>7, <1>8
  <2> QED BY <1>3, <1>4, <1>9, <1>11, <2>2, <2>3, <2>4 DEF RowTrue
<1>19. \A row \in Row : RowTrue(row) => RowTrue(row)'
  BY <1>14, RowStays
<1>20. d.row.version = v /\ RowTrue(d.row)'
  <2>1. d.row = verify[w].row /\ d.row \in Row
    BY <1>3, <1>4, <1>9
  <2>2. RowTrue(d.row)
    BY <1>3, <2>1 DEF RowTrue
  <2> QED BY <1>3, <1>19, <2>1, <2>2
<1>21. \A x \in Versions : \A e \in Draft :
         branch'[x] = e => e = branch[x] \/ (e.row.version = x /\ RowTrue(e.row)')
  BY <1>11, <1>20
<1>22. tag' = tag /\ main' = main
  BY <1>1
<1> QED BY <1>10, <1>13, <1>14, <1>15, <1>16, <1>17, <1>18, <1>21, <1>22, Follows

-----------------------------------------------------------------------------
\* The steps of people.

LEMMA EditStep ==
  ASSUME ReleaseInv, NEW v \in Versions, EditRecord(v)
  PROVE  ReleaseInv' /\ Later
<1>1. /\ branch[v] # None /\ branch' = [branch EXCEPT ![v].edited = TRUE]
      /\ main' = main /\ release' = release /\ index' = index /\ tag' = tag
      /\ verify' = verify
  BY DEF EditRecord
<1>2. branch[v] \in Draft /\ branch[v].row.version = v /\ RowTrue(branch[v].row)
  BY <1>1 DEF ReleaseInv, TypeOK, BranchInv
<1> DEFINE draft == [branch[v] EXCEPT !.edited = TRUE]
<1>3. draft \in Draft /\ draft.row = branch[v].row
  BY <1>2 DEF Draft
<1>4. branch' = [branch EXCEPT ![v] = draft]
  BY <1>1 DEF ReleaseInv, TypeOK
<1> HIDE DEF draft
<1>5. PICK d \in Draft : d = draft
  BY <1>3
<1>6. d # None
  BY ReleaseAssumption
<1>7. /\ branch' \in [Versions -> Draft \cup {None}]
      /\ \A x \in Versions : branch'[x] = IF x = v THEN d ELSE branch[x]
  BY <1>4, <1>5 DEF ReleaseInv, TypeOK
<1>8. Tip' = Tip /\ Tip \in Nat
  BY <1>1, ReleaseAssumption DEF Tip, ReleaseInv, TypeOK
<1>9. TypeOK'
  BY <1>1, <1>7, <1>8 DEF ReleaseInv, TypeOK
<1>10. Later
  <2>1. \A x \in Versions : Known(x) => Known(x)'
    BY <1>1, <1>6, <1>7, <1>8 DEF Known, Recorded
  <2> QED BY <1>1, <1>8, <2>1 DEF Later
<1>11. \A x \in Releases : ReleaseOK(x)'
  BY <1>1, <1>8 DEF ReleaseInv, ReleaseOK
<1>12. IndexInv'
  BY <1>1 DEF ReleaseInv, IndexInv, OneBuildPerVersion
<1>13. d.row.version = v /\ RowTrue(d.row)'
  <2>1. \A row \in Row : RowTrue(row) => RowTrue(row)'
    BY <1>10, RowStays
  <2>2. d.row = branch[v].row /\ d.row \in Row
    BY <1>2, <1>3, <1>5 DEF Draft
  <2> QED BY <1>2, <2>1, <2>2 DEF RowTrue
<1> QED BY <1>1, <1>7, <1>9, <1>10, <1>11, <1>12, <1>13, Follows

\* A commit of main.
LEMMA LandStep ==
  ASSUME ReleaseInv, NEW tree \in Tree, Land(tree),
         UNCHANGED <<release, index, tag, verify>>,
         branch' \in [Versions -> Draft \cup {None}],
         \A x \in Versions : branch'[x] = branch[x]
           \/ (branch'[x] = None /\ x \in Recorded(tree)),
         Recorded(main[Tip]) \subseteq Recorded(tree),
         \A row \in tree.records : RowTrue(row),
         \A row, other \in tree.records : row.version = other.version => row = other,
         HasFloor(tree)
  PROVE  ReleaseInv' /\ Later
<1>1. /\ main \in Seq(Tree) /\ Len(main) = Tip /\ Tip \in 1..MaxCommits /\ Tip < MaxCommits
      /\ main' = Append(main, tree)
  BY DEF ReleaseInv, TypeOK, Land, Tip
<1>2. Tip \in Nat /\ MaxCommits \in Nat
  BY <1>1, ReleaseAssumption
<1>3. /\ main' \in Seq(Tree) /\ Len(main') = Tip + 1 /\ main'[Tip + 1] = tree
      /\ \A i \in 1..Tip : main'[i] = main[i]
  BY <1>1
<1>4. Tip' = Tip + 1
  BY <1>3 DEF Tip
<1>5. TypeOK'
  <2>1. Tip' \in 1..MaxCommits
    BY <1>1, <1>2, <1>4
  <2> QED BY <1>3, <2>1 DEF ReleaseInv, TypeOK
<1>6. main'[Tip'] = tree
  BY <1>3, <1>4
<1>7. Later
  <2>1. \A x \in Versions : Known(x) => Known(x)'
    <3>1. Recorded(main[Tip])' = Recorded(tree)
      BY <1>6 DEF Recorded
    <3> QED BY <3>1 DEF Known
  <2>2. Tip <= Tip'
    BY <1>2, <1>4
  <2> QED BY <1>3, <2>1, <2>2 DEF Later
<1>8. ASSUME NEW x \in Releases
      PROVE  ReleaseOK(x)'
  <2>1. ReleaseOK(x) /\ release'[x] = release[x] /\ index' = index
    BY DEF ReleaseInv
  <2>2. release[x].sha \in 1..Tip =>
          release[x].sha \in 1..Tip' /\ main'[release[x].sha] = main[release[x].sha]
    BY <1>2, <1>3, <1>4
  <2> QED BY <2>1, <2>2 DEF ReleaseOK
<1>9. IndexInv'
  BY DEF ReleaseInv, IndexInv, OneBuildPerVersion
<1>10. RecordsInv'
  <2>1. \A row \in Row : RowTrue(row) => RowTrue(row)'
    BY <1>7, RowStays
  <2>2. tree.records \subseteq Row
    BY DEF Tree
  <2>3. \A x : HasFloor(x) => HasFloor(x)'
    BY DEF HasFloor, Recorded
  <2>4. \A row \in main'[Tip'].records : RowTrue(row)'
    BY <1>6, <2>1, <2>2
  <2> QED BY <1>6, <2>3, <2>4 DEF RecordsInv
<1>11. \A x \in Versions : branch'[x] = branch[x] \/ branch'[x] = None
  OBVIOUS
<1>12. \A d \in Draft : d # None
  BY ReleaseAssumption
<1> QED BY <1>5, <1>7, <1>8, <1>9, <1>10, <1>11, <1>12, Follows

LEMMA MainStep ==
  ASSUME ReleaseInv, NEW v \in Versions, Commit(v)
  PROVE  ReleaseInv' /\ Later
<1> DEFINE tree == [main[Tip] EXCEPT !.declares = v, !.ledger = {v} \ Recorded(main[Tip])]
<1>1. main[Tip] \in Tree
  <2>1. Tip \in 1..Len(main) /\ main \in Seq(Tree)
    BY ReleaseAssumption DEF ReleaseInv, TypeOK, Tip
  <2> QED BY <2>1
<1>2. tree \in Tree /\ tree.records = main[Tip].records
  BY <1>1 DEF Tree
<1>3. Land(tree) /\ UNCHANGED <<release, index, tag, verify, branch>>
  BY DEF Commit
<1> HIDE DEF tree
<1>4. Recorded(tree) = Recorded(main[Tip])
  BY <1>2 DEF Recorded
<1>5. HasFloor(tree)
  BY <1>4 DEF ReleaseInv, RecordsInv, HasFloor
<1>6. /\ \A row \in tree.records : RowTrue(row)
      /\ \A row, other \in tree.records : row.version = other.version => row = other
  BY <1>2 DEF ReleaseInv, RecordsInv
<1>7. branch' \in [Versions -> Draft \cup {None}]
  BY <1>3 DEF ReleaseInv, TypeOK
<1> QED BY <1>2, <1>3, <1>4, <1>5, <1>6, <1>7, LandStep

LEMMA MergeStep ==
  ASSUME ReleaseInv, NEW v \in Versions, MergeRecord(v)
  PROVE  ReleaseInv' /\ Later
<1> DEFINE new == branch[v].row
           tree == [main[Tip] EXCEPT !.records = @ \cup {new}, !.ledger = @ \ {v}]
<1>1. /\ branch[v] # None /\ v \notin Recorded(main[Tip]) /\ Land(tree)
      /\ branch' = [branch EXCEPT ![v] = None]
      /\ UNCHANGED <<release, index, tag, verify>>
  BY DEF MergeRecord
<1>2. main[Tip] \in Tree
  <2>1. Tip \in 1..Len(main) /\ main \in Seq(Tree)
    BY ReleaseAssumption DEF ReleaseInv, TypeOK, Tip
  <2> QED BY <2>1
<1>3. /\ new \in Row /\ new.version = v /\ RowTrue(new)
  BY <1>1 DEF ReleaseInv, TypeOK, BranchInv, Draft
<1> HIDE DEF new
<1>4. tree \in Tree /\ tree.records = main[Tip].records \cup {new}
  BY <1>2, <1>3 DEF Tree
<1> HIDE DEF tree
<1>5. Recorded(tree) = Recorded(main[Tip]) \cup {v}
  BY <1>3, <1>4 DEF Recorded
<1>6. HasFloor(tree)
  <2>1. PICK m \in Recorded(main[Tip]) \cup {Inherited} :
          \A x \in Recorded(main[Tip]) \cup {Inherited} : m >= x
    BY DEF ReleaseInv, RecordsInv, HasFloor
  <2>2. Recorded(main[Tip]) \cup {Inherited} \subseteq Nat /\ v \in Nat
    <3>1. Recorded(main[Tip]) \subseteq Versions
      BY <1>2 DEF Recorded, Tree, Row
    <3>2. Versions \subseteq Nat /\ Inherited \in Nat
      BY ReleaseAssumption DEF Inherited
    <3> QED BY <3>1, <3>2
  <2>3. CASE m >= v
    BY <1>5, <2>1, <2>3 DEF HasFloor
  <2>4. CASE ~(m >= v)
    <3>1. v >= m /\ v >= v /\ \A x \in Recorded(main[Tip]) \cup {Inherited} : v >= x
      BY <2>1, <2>2, <2>4
    <3> QED BY <1>5, <3>1 DEF HasFloor
  <2> QED BY <2>3, <2>4
<1>7. \A row \in tree.records : RowTrue(row)
  BY <1>3, <1>4 DEF ReleaseInv, RecordsInv
<1>8. \A row, other \in tree.records : row.version = other.version => row = other
  <2>1. \A row \in main[Tip].records : row.version # v
    BY <1>1 DEF Recorded
  <2> QED BY <1>3, <1>4, <2>1 DEF ReleaseInv, RecordsInv
<1>9. /\ branch' \in [Versions -> Draft \cup {None}]
      /\ \A x \in Versions : branch'[x] = IF x = v THEN None ELSE branch[x]
  BY <1>1 DEF ReleaseInv, TypeOK
<1> QED BY <1>1, <1>4, <1>5, <1>6, <1>7, <1>8, <1>9, LandStep

-----------------------------------------------------------------------------
LEMMA ReleaseInitially == Init => ReleaseInv
<1> SUFFICES ASSUME Init PROVE ReleaseInv
  OBVIOUS
<1>1. PICK v \in Versions : main = <<[declares |-> v, records |-> {}, ledger |-> {v}]>>
  BY DEF Init
<1>2. /\ release = [r \in Releases |-> NoRelease]
      /\ index = [x \in Versions |-> [f \in Files |-> None]]
      /\ tag = [x \in Versions |-> None]
      /\ verify = [w \in Verifications |-> NoVerification]
      /\ branch = [x \in Versions |-> None]
  BY DEF Init
<1> DEFINE tree == [declares |-> v, records |-> {}, ledger |-> {v}]
<1>3. tree \in Tree /\ tree.records = {}
  BY DEF Tree
<1> HIDE DEF tree
<1>4. main \in Seq(Tree) /\ Tip = 1 /\ main[Tip] = tree
  BY <1>1, <1>3 DEF Tip, tree
<1>5. TypeOK
  <2>1. Tip \in 1..MaxCommits
    BY <1>4, ReleaseAssumption
  <2>2. NoRelease \in [phase : {"idle", "guarded", "built", "publishing", "published", "stopped"},
          version : Versions \cup {None}, sha : (1..MaxCommits) \cup {None},
          build : Builds \cup {None}]
    BY DEF NoRelease
  <2>3. NoVerification \in Observed
    BY DEF NoVerification, Observed
  <2> QED BY <1>2, <1>4, <2>1, <2>2, <2>3 DEF TypeOK, Observed
<1>6. \A r \in Releases : ReleaseOK(r)
  BY <1>2 DEF ReleaseOK, NoRelease
<1>7. IndexInv
  BY <1>2, ReleaseAssumption DEF IndexInv, OneBuildPerVersion, Files
<1>8. VerifyInv
  BY <1>2 DEF VerifyInv, VerifyOK, GreenOK, NoVerification
<1>9. BranchInv /\ TagIsEarned
  BY <1>2 DEF BranchInv, TagIsEarned, Tags
<1>10. RecordsInv
  <2>1. Recorded(tree) = {}
    BY <1>3 DEF Recorded
  <2>2. HasFloor(tree)
    BY <2>1 DEF HasFloor, Inherited
  <2> QED BY <1>3, <1>4, <2>2 DEF RecordsInv
<1> QED BY <1>5, <1>6, <1>7, <1>8, <1>9, <1>10 DEF ReleaseInv

LEMMA ReleaseNext ==
  ASSUME ReleaseInv, [Next]_vars
  PROVE  ReleaseInv' /\ Later
<1>1. CASE UNCHANGED vars
  <2>1. /\ main' = main /\ release' = release /\ index' = index /\ tag' = tag
        /\ verify' = verify /\ branch' = branch
    BY <1>1 DEF vars
  <2>2. Tip' = Tip /\ Tip \in Nat
    BY <2>1, ReleaseAssumption DEF Tip, ReleaseInv, TypeOK
  <2>3. Later
    BY <2>1, <2>2 DEF Later, Known, Recorded
  <2>4. TypeOK' /\ IndexInv' /\ \A r \in Releases : ReleaseOK(r)'
    BY <2>1, <2>2 DEF ReleaseInv, TypeOK, IndexInv, OneBuildPerVersion, ReleaseOK
  <2> QED BY <2>1, <2>3, <2>4, Follows
<1>2. ASSUME NEW r \in Releases, Release(r)
      PROVE  ReleaseInv' /\ Later
  BY <1>2, GuardStep, PhaseStep, UploadStep DEF Release
<1>3. ASSUME NEW w \in Verifications, Verification(w)
      PROVE  ReleaseInv' /\ Later
  BY <1>3, VerifyStep, LookUpStep, TagStep, PrepareStep, PushStep, StopVerificationStep
     DEF Verification
<1>4. ASSUME NEW v \in Versions, Commit(v) \/ EditRecord(v) \/ MergeRecord(v)
      PROVE  ReleaseInv' /\ Later
  BY <1>4, MainStep, EditStep, MergeStep
<1> QED BY <1>1, <1>2, <1>3, <1>4 DEF Next

\* What is said of a release follows.
LEMMA ReleasesSaid ==
  ASSUME ReleaseInv
  PROVE  TypeOK /\ OneBuildPerVersion /\ TagIsEarned /\ RecordsAreTrue /\ GreenMeansRecorded
<1>1. RecordsAreTrue
  BY DEF ReleaseInv, RecordsInv, RecordsAreTrue, RowTrue
<1>2. GreenMeansRecorded
  BY DEF ReleaseInv, VerifyInv, GreenOK, GreenMeansRecorded
<1> QED BY <1>1, <1>2 DEF ReleaseInv, IndexInv

-----------------------------------------------------------------------------
(***************************************************************************)
(* Revisions of the schema                                                 *)
(***************************************************************************)

\* What a command that runs looks like, and a migration.
Txns ==
  [kind : Schema!AllKinds, key : Keys, rest : Seq(Schema!Tables),
   touched : SUBSET Schema!Tables, since : 9..16]
Migrations ==
  [kind : {"up", "down"}, to : 9..16, rest : Seq(Schema!Tables),
   held : SUBSET Schema!Tables, looked : BOOLEAN]

Running(w) == txn[w] # Schema!Nothing

RowsInv ==
  /\ revision \in 9..16
  /\ stored \in [Schema!Tables -> SUBSET Keys]
  /\ \A x \in Schema!Tables : ~Schema!Exists(x) => stored[x] = {}
  /\ txn \in [Writers -> Txns \cup {Schema!Nothing}]
  /\ mig \in Migrations \cup {Schema!Nothing}

\* A command has touched its first table, and only tables that are there; and what
\* a revision promises about older commands it keeps by waiting for them.
CommandOK(t) ==
  /\ t.touched \cup Range(t.rest) = Range(Schema!Statements(t.kind))
  /\ Head(Schema!Statements(t.kind)) \in t.touched
  /\ \A x \in t.touched : Schema!Exists(x)
  /\ t.kind = "settle in place" => revision < 10
  /\ t.kind = "propose" => revision >= 15
  /\ t.kind = "issue" /\ revision >= 15 => t.since >= 15
  /\ t.kind = "end" => t.key \in stored["ledger"]

CommandsInv == \A w \in Writers : Running(w) => CommandOK(txn[w])

\* A migration holds what it locked, and what it saw there still is so.
Locks(m) == IF m.kind = "up" THEN Schema!UpLocks(m.to) ELSE Schema!DownLocks(m.to)

MigrationInv ==
  mig # Schema!Nothing =>
    /\ mig.to = IF mig.kind = "up" THEN revision + 1 ELSE revision - 1
    /\ mig.held \cup Range(mig.rest) = Range(Locks(mig))
    /\ \A w \in Writers : Running(w) => mig.held \cap txn[w].touched = {}
    /\ mig.looked =>
         /\ mig.rest = <<>>
         /\ mig.kind = "down" => \A x \in Schema!DownChecks(mig.to) : stored[x] = {}
         /\ mig.kind = "up" /\ mig.to = 16 => ~Schema!Reused

PromisesInv ==
  /\ ended \subseteq stored["ledger"]
  /\ Schema!OutcomesCarried /\ Schema!LegacyIsTerminal /\ Schema!MarkedPlansAreRead

\* A lease that was recorded or is about to be, under the unique constraint.
Issuing(w) == Running(w) /\ txn[w].kind = "issue" /\ "ledger" \in txn[w].touched

LeaseInv ==
  /\ bound \subseteq stored["ledger"]
  /\ bound # {} => revision = 16
  /\ revision = 16 =>
       /\ ~Schema!Reused
       /\ \A w \in Writers : Issuing(w) =>
            /\ \A l \in stored["ledger"] : ControllerOf[l] # ControllerOf[txn[w].key]
            /\ \A u \in Writers \ {w} : Issuing(u) =>
                 ControllerOf[txn[u].key] # ControllerOf[txn[w].key]

SchemaInv == RowsInv /\ CommandsInv /\ MigrationInv /\ PromisesInv /\ LeaseInv

-----------------------------------------------------------------------------
\* A sequence and what is left of it.
LEMMA RestOf ==
  ASSUME NEW S, NEW s \in Seq(S), s # <<>>
  PROVE  /\ Head(s) \in S /\ Tail(s) \in Seq(S)
         /\ Range(s) = {Head(s)} \cup Range(Tail(s))
<1>1. Len(s) \in Nat /\ Len(s) > 0 /\ DOMAIN s = 1..Len(s) /\ Tail(s) \in Seq(S)
  OBVIOUS
<1>2. DOMAIN Tail(s) = 1..(Len(s) - 1) /\ \A i \in 1..(Len(s) - 1) : Tail(s)[i] = s[i + 1]
  OBVIOUS
<1>3. Head(s) = s[1] /\ s[1] \in S
  OBVIOUS
<1>4. ASSUME NEW i \in 1..Len(s)
      PROVE  s[i] = Head(s) \/ \E j \in DOMAIN Tail(s) : s[i] = Tail(s)[j]
  <2>1. CASE i = 1
    BY <1>3, <2>1
  <2>2. CASE i # 1
    <3>1. i - 1 \in DOMAIN Tail(s) /\ Tail(s)[i - 1] = s[i]
      BY <1>1, <1>2, <2>2
    <3> QED BY <3>1
  <2> QED BY <2>1, <2>2
<1>5. Range(s) \subseteq {Head(s)} \cup Range(Tail(s))
  BY <1>1, <1>4 DEF Range
<1>6. Range(Tail(s)) \subseteq Range(s)
  <2>1. ASSUME NEW j \in DOMAIN Tail(s)
        PROVE  \E i \in DOMAIN s : Tail(s)[j] = s[i]
    <3>1. j + 1 \in DOMAIN s /\ Tail(s)[j] = s[j + 1]
      BY <1>1, <1>2
    <3> QED BY <3>1
  <2> QED BY <2>1 DEF Range
<1>7. Head(s) \in Range(s)
  BY <1>1, <1>3 DEF Range
<1> QED BY <1>1, <1>3, <1>5, <1>6, <1>7

LEMMA HeadIsFirst ==
  ASSUME NEW S, NEW s \in Seq(S), s # <<>>
  PROVE  1 \in DOMAIN s /\ Head(s) = s[1]
OBVIOUS

LEMMA TableNames ==
  Schema!Tables =
    {"attempts", "plans", "settlements", "enrolments", "closures", "grants",
     "descriptors", "associations", "associationClosures", "policies",
     "policyClosures", "subjectLocks", "ledger"}
BY DEF Schema!Tables, Schema!CreatedBy

LEMMA RangeOfOne ==
  ASSUME NEW a
  PROVE  Range(<<a>>) = {a}
BY DEF Range

LEMMA RangeOfTwo ==
  ASSUME NEW a, NEW b
  PROVE  Range(<<a, b>>) = {a, b}
<1>1. DOMAIN <<a, b>> = {1, 2} /\ <<a, b>>[1] = a /\ <<a, b>>[2] = b
  OBVIOUS
<1> QED BY <1>1 DEF Range

LEMMA RangeOfThree ==
  ASSUME NEW a, NEW b, NEW c
  PROVE  Range(<<a, b, c>>) = {a, b, c}
<1>1. /\ DOMAIN <<a, b, c>> = {1, 2, 3}
      /\ <<a, b, c>>[1] = a /\ <<a, b, c>>[2] = b /\ <<a, b, c>>[3] = c
  OBVIOUS
<1> QED BY <1>1 DEF Range

LEMMA RangeOfFour ==
  ASSUME NEW a, NEW b, NEW c, NEW d
  PROVE  Range(<<a, b, c, d>>) = {a, b, c, d}
<1>1. /\ DOMAIN <<a, b, c, d>> = {1, 2, 3, 4}
      /\ <<a, b, c, d>>[1] = a /\ <<a, b, c, d>>[2] = b
      /\ <<a, b, c, d>>[3] = c /\ <<a, b, c, d>>[4] = d
  OBVIOUS
<1> QED BY <1>1 DEF Range

LEMMA ShortSequences ==
  ASSUME NEW S, NEW a \in S
  PROVE  /\ <<>> \in Seq(S) /\ <<a>> \in Seq(S)
         /\ \A b \in S : <<a, b>> \in Seq(S)
         /\ \A b, c \in S : <<a, b, c>> \in Seq(S)
         /\ \A b, c, d \in S : <<a, b, c, d>> \in Seq(S)
         /\ \A b, c, d, e, f \in S : <<a, b, c, d, e, f>> \in Seq(S)
OBVIOUS

\* Which table a command writes first.
LEMMA StatementsOf ==
  ASSUME NEW kind \in Schema!AllKinds
  PROVE  LET s == Schema!Statements(kind) IN
         /\ s \in Seq(Schema!Tables) /\ s # <<>>
         /\ kind = "settle in place" => Head(s) = "attempts"
         /\ kind \in {"propose", "issue"} => Head(s) = "plans"
         /\ kind = "end" => Head(s) = "ledger"
<1>1. CASE kind = "settle in place"
  <2>1. Schema!Statements(kind) = <<"attempts">>
    BY <1>1 DEF Schema!Statements
  <2>2. <<"attempts">> \in Seq(Schema!Tables)
    BY TableNames, ShortSequences
  <2>3. <<"attempts">> # <<>>
    OBVIOUS
  <2>4. Head(<<"attempts">>) = "attempts"
    OBVIOUS
  <2> QED BY <1>1, <2>1, <2>2, <2>3, <2>4
<1>2. CASE kind = "settle"
  <2>1. Schema!Statements(kind) = <<"settlements">>
    BY <1>2 DEF Schema!Statements
  <2>2. <<"settlements">> \in Seq(Schema!Tables)
    BY TableNames, ShortSequences
  <2>3. <<"settlements">> # <<>>
    OBVIOUS
  <2>4. Head(<<"settlements">>) = "settlements"
    OBVIOUS
  <2> QED BY <1>2, <2>1, <2>2, <2>3, <2>4
<1>3. CASE kind = "enrol"
  <2>1. Schema!Statements(kind) = <<"subjectLocks", "enrolments", "descriptors">>
    BY <1>3 DEF Schema!Statements
  <2>2. <<"subjectLocks", "enrolments", "descriptors">> \in Seq(Schema!Tables)
    BY TableNames, ShortSequences
  <2>3. <<"subjectLocks", "enrolments", "descriptors">> # <<>>
    OBVIOUS
  <2>4. Head(<<"subjectLocks", "enrolments", "descriptors">>) = "subjectLocks"
    OBVIOUS
  <2> QED BY <1>3, <2>1, <2>2, <2>3, <2>4
<1>4. CASE kind = "rotate root"
  <2>1. Schema!Statements(kind) = <<"subjectLocks", "enrolments", "descriptors", "closures">>
    BY <1>4 DEF Schema!Statements
  <2>2. <<"subjectLocks", "enrolments", "descriptors", "closures">> \in Seq(Schema!Tables)
    BY TableNames, ShortSequences
  <2>3. <<"subjectLocks", "enrolments", "descriptors", "closures">> # <<>>
    OBVIOUS
  <2>4. Head(<<"subjectLocks", "enrolments", "descriptors", "closures">>) = "subjectLocks"
    OBVIOUS
  <2> QED BY <1>4, <2>1, <2>2, <2>3, <2>4
<1>5. CASE kind = "rotate host"
  <2>1. Schema!Statements(kind) = <<"associations", "associationClosures">>
    BY <1>5 DEF Schema!Statements
  <2>2. <<"associations", "associationClosures">> \in Seq(Schema!Tables)
    BY TableNames, ShortSequences
  <2>3. <<"associations", "associationClosures">> # <<>>
    OBVIOUS
  <2>4. Head(<<"associations", "associationClosures">>) = "associations"
    OBVIOUS
  <2> QED BY <1>5, <2>1, <2>2, <2>3, <2>4
<1>6. CASE kind = "revise policy"
  <2>1. Schema!Statements(kind) = <<"policies", "policyClosures">>
    BY <1>6 DEF Schema!Statements
  <2>2. <<"policies", "policyClosures">> \in Seq(Schema!Tables)
    BY TableNames, ShortSequences
  <2>3. <<"policies", "policyClosures">> # <<>>
    OBVIOUS
  <2>4. Head(<<"policies", "policyClosures">>) = "policies"
    OBVIOUS
  <2> QED BY <1>6, <2>1, <2>2, <2>3, <2>4
<1>7. CASE kind = "record grant"
  <2>1. Schema!Statements(kind) = <<"grants">>
    BY <1>7 DEF Schema!Statements
  <2>2. <<"grants">> \in Seq(Schema!Tables)
    BY TableNames, ShortSequences
  <2>3. <<"grants">> # <<>>
    OBVIOUS
  <2>4. Head(<<"grants">>) = "grants"
    OBVIOUS
  <2> QED BY <1>7, <2>1, <2>2, <2>3, <2>4
<1>8. CASE kind = "issue"
  <2>1. Schema!Statements(kind) = <<"plans", "ledger">>
    BY <1>8 DEF Schema!Statements
  <2>2. <<"plans", "ledger">> \in Seq(Schema!Tables)
    BY TableNames, ShortSequences
  <2>3. <<"plans", "ledger">> # <<>>
    OBVIOUS
  <2>4. Head(<<"plans", "ledger">>) = "plans"
    OBVIOUS
  <2> QED BY <1>8, <2>1, <2>2, <2>3, <2>4
<1>9. CASE kind = "end"
  <2>1. Schema!Statements(kind) = <<"ledger">>
    BY <1>9 DEF Schema!Statements
  <2>2. <<"ledger">> \in Seq(Schema!Tables)
    BY TableNames, ShortSequences
  <2>3. <<"ledger">> # <<>>
    OBVIOUS
  <2>4. Head(<<"ledger">>) = "ledger"
    OBVIOUS
  <2> QED BY <1>9, <2>1, <2>2, <2>3, <2>4
<1>10. CASE kind = "propose"
  <2>1. Schema!Statements(kind) = <<"plans">>
    BY <1>10 DEF Schema!Statements
  <2>2. <<"plans">> \in Seq(Schema!Tables)
    BY TableNames, ShortSequences
  <2>3. <<"plans">> # <<>>
    OBVIOUS
  <2>4. Head(<<"plans">>) = "plans"
    OBVIOUS
  <2> QED BY <1>10, <2>1, <2>2, <2>3, <2>4
<1> QED
  BY <1>1, <1>2, <1>3, <1>4, <1>5, <1>6, <1>7, <1>8, <1>9, <1>10 DEF Schema!AllKinds

\* Which commands insert a row of a table that a promise is about.
LEMMA InsertsOf ==
  ASSUME NEW kind \in Schema!AllKinds
  PROVE  /\ \A x \in Range(Schema!Statements(kind)) : Schema!Inserts(kind, x) =>
              /\ x = "attempts" => kind = "settle in place"
              /\ x = "plans" => kind = "propose"
              /\ x = "ledger" => kind = "issue"
         /\ kind = "issue" => /\ "ledger" \in Range(Schema!Statements(kind))
                             /\ Schema!Inserts(kind, "ledger")
<1>1. CASE kind = "settle in place"
  <2>1. Schema!Statements(kind) = <<"attempts">>
    BY <1>1 DEF Schema!Statements
  <2>2. Range(<<"attempts">>) = {"attempts"}
    BY RangeOfOne
  <2> QED BY <1>1, <2>1, <2>2 DEF Schema!Inserts
<1>2. CASE kind = "settle"
  <2>1. Schema!Statements(kind) = <<"settlements">>
    BY <1>2 DEF Schema!Statements
  <2>2. Range(<<"settlements">>) = {"settlements"}
    BY RangeOfOne
  <2> QED BY <1>2, <2>1, <2>2 DEF Schema!Inserts
<1>3. CASE kind = "enrol"
  <2>1. Schema!Statements(kind) = <<"subjectLocks", "enrolments", "descriptors">>
    BY <1>3 DEF Schema!Statements
  <2>2. Range(<<"subjectLocks", "enrolments", "descriptors">>) = {"subjectLocks", "enrolments", "descriptors"}
    BY RangeOfThree
  <2> QED BY <1>3, <2>1, <2>2 DEF Schema!Inserts
<1>4. CASE kind = "rotate root"
  <2>1. Schema!Statements(kind) = <<"subjectLocks", "enrolments", "descriptors", "closures">>
    BY <1>4 DEF Schema!Statements
  <2>2. Range(<<"subjectLocks", "enrolments", "descriptors", "closures">>) = {"subjectLocks", "enrolments", "descriptors", "closures"}
    BY RangeOfFour
  <2> QED BY <1>4, <2>1, <2>2 DEF Schema!Inserts
<1>5. CASE kind = "rotate host"
  <2>1. Schema!Statements(kind) = <<"associations", "associationClosures">>
    BY <1>5 DEF Schema!Statements
  <2>2. Range(<<"associations", "associationClosures">>) = {"associations", "associationClosures"}
    BY RangeOfTwo
  <2> QED BY <1>5, <2>1, <2>2 DEF Schema!Inserts
<1>6. CASE kind = "revise policy"
  <2>1. Schema!Statements(kind) = <<"policies", "policyClosures">>
    BY <1>6 DEF Schema!Statements
  <2>2. Range(<<"policies", "policyClosures">>) = {"policies", "policyClosures"}
    BY RangeOfTwo
  <2> QED BY <1>6, <2>1, <2>2 DEF Schema!Inserts
<1>7. CASE kind = "record grant"
  <2>1. Schema!Statements(kind) = <<"grants">>
    BY <1>7 DEF Schema!Statements
  <2>2. Range(<<"grants">>) = {"grants"}
    BY RangeOfOne
  <2> QED BY <1>7, <2>1, <2>2 DEF Schema!Inserts
<1>8. CASE kind = "issue"
  <2>1. Schema!Statements(kind) = <<"plans", "ledger">>
    BY <1>8 DEF Schema!Statements
  <2>2. Range(<<"plans", "ledger">>) = {"plans", "ledger"}
    BY RangeOfTwo
  <2> QED BY <1>8, <2>1, <2>2 DEF Schema!Inserts
<1>9. CASE kind = "end"
  <2>1. Schema!Statements(kind) = <<"ledger">>
    BY <1>9 DEF Schema!Statements
  <2>2. Range(<<"ledger">>) = {"ledger"}
    BY RangeOfOne
  <2> QED BY <1>9, <2>1, <2>2 DEF Schema!Inserts
<1>10. CASE kind = "propose"
  <2>1. Schema!Statements(kind) = <<"plans">>
    BY <1>10 DEF Schema!Statements
  <2>2. Range(<<"plans">>) = {"plans"}
    BY RangeOfOne
  <2> QED BY <1>10, <2>1, <2>2 DEF Schema!Inserts
<1> QED
  BY <1>1, <1>2, <1>3, <1>4, <1>5, <1>6, <1>7, <1>8, <1>9, <1>10 DEF Schema!AllKinds

\* What a revision locks, looks at and drops.
LEMMA UpLocksOf ==
  ASSUME NEW to \in 10..16
  PROVE  /\ Schema!UpLocks(to) \in Seq(Schema!Tables)
         /\ to = 10 => "attempts" \in Range(Schema!UpLocks(to))
         /\ to = 15 => "plans" \in Range(Schema!UpLocks(to))
         /\ to = 16 => "ledger" \in Range(Schema!UpLocks(to))
<1>1. Schema!UpLocks(to) \in Seq(Schema!Tables)
  <2>1. /\ <<"attempts">> \in Seq(Schema!Tables) /\ <<"plans">> \in Seq(Schema!Tables)
        /\ <<"ledger">> \in Seq(Schema!Tables) /\ <<>> \in Seq(Schema!Tables)
    BY TableNames, ShortSequences
  <2> QED BY <2>1 DEF Schema!UpLocks
<1> QED BY <1>1, RangeOfOne DEF Schema!UpLocks

LEMMA DownLocksOf ==
  ASSUME NEW to \in 9..15
  PROVE  /\ Schema!DownLocks(to) \in Seq(Schema!Tables)
         /\ Schema!DownChecks(to) = Range(Schema!DownLocks(to))
         /\ {x \in Schema!Tables : Schema!CreatedBy[x] = to + 1} \subseteq Schema!DownChecks(to)
         /\ to = 14 => "plans" \in Schema!DownChecks(to)
         /\ to = 15 => "ledger" \in Schema!DownChecks(to)
<1>1. Schema!DownLocks(to) \in Seq(Schema!Tables)
  <2> DEFINE s == Schema!DownTables(to)
  <2> USE TableNames, ShortSequences DEF Schema!DownLocks, Schema!DownTables
  <2>1. CASE to = 9
    BY <2>1
  <2>2. CASE to = 10
    BY <2>2
  <2>3. CASE to = 11
    BY <2>3
  <2>4. CASE to = 12
    BY <2>4 DEF Schema!HostTables
  <2>5. CASE to = 13
    BY <2>5
  <2>6. CASE to = 14
    BY <2>6
  <2>7. CASE to = 15
    BY <2>7
  <2> QED BY <2>1, <2>2, <2>3, <2>4, <2>5, <2>6, <2>7
<1>2. Schema!DownChecks(to) = Range(Schema!DownLocks(to))
  BY DEF Schema!DownChecks, Schema!DownLocks, Range
<1>3. {x \in Schema!Tables : Schema!CreatedBy[x] = to + 1} \subseteq Schema!DownChecks(to)
  <2> DEFINE s == Schema!DownTables(to)
  <2>1. CASE to = 9
    <3>1. s = <<"settlements">>
      BY <2>1 DEF Schema!DownTables
    <3>2. s[1] = "settlements" /\ 1 \in DOMAIN s
      BY <3>1
    <3> QED BY <2>1, <3>2, TableNames DEF Schema!CreatedBy, Schema!DownChecks
  <2>2. CASE to = 10
    <3>1. s = <<"enrolments", "closures">>
      BY <2>2 DEF Schema!DownTables
    <3>2. s[1] = "enrolments" /\ s[2] = "closures" /\ {1, 2} \subseteq DOMAIN s
      BY <3>1
    <3> QED BY <2>2, <3>2, TableNames DEF Schema!CreatedBy, Schema!DownChecks
  <2>3. CASE to = 11
    <3>1. s = <<"grants">>
      BY <2>3 DEF Schema!DownTables
    <3>2. s[1] = "grants" /\ 1 \in DOMAIN s
      BY <3>1
    <3> QED BY <2>3, <3>2, TableNames DEF Schema!CreatedBy, Schema!DownChecks
  <2>4. CASE to = 12
    <3>1. s = <<"descriptors", "associations", "associationClosures", "policies",
                "policyClosures", "subjectLocks">>
      BY <2>4 DEF Schema!DownTables, Schema!HostTables
    <3>2. /\ s[1] = "descriptors" /\ s[2] = "associations" /\ s[3] = "associationClosures"
          /\ s[4] = "policies" /\ s[5] = "policyClosures" /\ s[6] = "subjectLocks"
          /\ {1, 2, 3, 4, 5, 6} \subseteq DOMAIN s
      BY <3>1
    <3> QED BY <2>4, <3>2, TableNames DEF Schema!CreatedBy, Schema!DownChecks
  <2>5. CASE to = 13
    <3>1. s = <<"ledger">>
      BY <2>5 DEF Schema!DownTables
    <3>2. s[1] = "ledger" /\ 1 \in DOMAIN s
      BY <3>1
    <3> QED BY <2>5, <3>2, TableNames DEF Schema!CreatedBy, Schema!DownChecks
  <2>6. CASE to \in {14, 15}
    BY <2>6, TableNames DEF Schema!CreatedBy
  <2> QED BY <2>1, <2>2, <2>3, <2>4, <2>5, <2>6
<1>4. /\ to = 14 => "plans" \in Schema!DownChecks(to)
      /\ to = 15 => "ledger" \in Schema!DownChecks(to)
  BY <1>2, RangeOfOne DEF Schema!DownLocks, Schema!DownTables
<1> QED BY <1>1, <1>2, <1>3, <1>4

LEMMA NothingRuns ==
  /\ Schema!Nothing \notin Txns /\ Schema!Nothing \notin Migrations
  /\ Schema!Nothing.kind = "none"
BY DEF Schema!Nothing, Txns, Migrations

LEMMA SchemaInitially == Schema!Init => SchemaInv
<1> SUFFICES ASSUME Schema!Init PROVE SchemaInv
  OBVIOUS
<1>1. /\ revision = 9 /\ stored = [x \in Schema!Tables |-> {}] /\ ended = {} /\ marked = {}
      /\ bound = {} /\ mig = Schema!Nothing /\ \A w \in Writers : ~Running(w)
      /\ txn = [w \in Writers |-> Schema!Nothing]
  BY DEF Schema!Init, Schema!Base, Running
<1>2. \A x \in Schema!Tables : stored[x] = {}
  BY <1>1
<1>3. RowsInv /\ CommandsInv /\ MigrationInv
  BY <1>1, <1>2 DEF RowsInv, CommandsInv, MigrationInv
<1>4. PromisesInv /\ LeaseInv
  BY <1>1, <1>2, TableNames
     DEF PromisesInv, LeaseInv, Schema!OutcomesCarried, Schema!LegacyIsTerminal,
         Schema!MarkedPlansAreRead
<1> QED BY <1>3, <1>4 DEF SchemaInv

-----------------------------------------------------------------------------
\* A step of one command that changes no row.
LEMMA CommandStep ==
  ASSUME SchemaInv, NEW w \in Writers, NEW t \in Txns \cup {Schema!Nothing},
         txn' = [txn EXCEPT ![w] = t],
         UNCHANGED <<revision, stored, ended, marked, bound, mig>>,
         t # Schema!Nothing =>
           /\ CommandOK(t)
           /\ mig # Schema!Nothing => mig.held \cap t.touched = {}
           /\ revision = 16 /\ t.kind = "issue" /\ "ledger" \in t.touched =>
                /\ \A l \in stored["ledger"] : ControllerOf[l] # ControllerOf[t.key]
                /\ \A u \in Writers \ {w} : Issuing(u) =>
                     ControllerOf[txn[u].key] # ControllerOf[t.key]
  PROVE  SchemaInv'
<1>1. \A u \in Writers : txn'[u] = IF u = w THEN t ELSE txn[u]
  BY DEF SchemaInv, RowsInv
<1>2. RowsInv'
  BY DEF SchemaInv, RowsInv, Schema!Exists
<1>3. CommandsInv'
  <2>1. \A u \in Writers : txn'[u] # Schema!Nothing => CommandOK(txn'[u])
    BY <1>1 DEF SchemaInv, CommandsInv, Running
  <2>2. \A r : CommandOK(r) => CommandOK(r)'
    BY DEF CommandOK, Schema!Exists
  <2> QED BY <2>1, <2>2 DEF CommandsInv, Running
<1>4. MigrationInv'
  BY <1>1 DEF SchemaInv, MigrationInv, Running, Schema!Reused
<1>5. PromisesInv'
  BY DEF SchemaInv, PromisesInv, Schema!OutcomesCarried, Schema!LegacyIsTerminal,
         Schema!MarkedPlansAreRead
<1>6. LeaseInv'
  <2>1. \A u \in Writers : Issuing(u)' <=>
          IF u = w THEN t # Schema!Nothing /\ t.kind = "issue" /\ "ledger" \in t.touched
                   ELSE Issuing(u)
    BY <1>1 DEF Issuing, Running
  <2>2. ASSUME revision = 16, NEW v \in Writers, Issuing(v)'
        PROVE  /\ \A l \in stored["ledger"] : ControllerOf[l] # ControllerOf[txn'[v].key]
               /\ \A u \in Writers \ {v} : Issuing(u)' =>
                    ControllerOf[txn'[u].key] # ControllerOf[txn'[v].key]
    <3>1. CASE v = w
      BY <1>1, <2>1, <2>2, <3>1
    <3>2. CASE v # w
      BY <1>1, <2>1, <2>2, <3>2 DEF SchemaInv, LeaseInv
    <3> QED BY <3>1, <3>2
  <2> QED BY <2>2 DEF SchemaInv, LeaseInv, Schema!Reused
<1> QED BY <1>2, <1>3, <1>4, <1>5, <1>6 DEF SchemaInv

LEMMA BeginStep ==
  ASSUME SchemaInv, NEW w \in Writers, Schema!Begin(w)
  PROVE  SchemaInv'
<1>1. PICK kind \in Schema!AllKinds, k \in Keys :
        /\ Schema!Serves(kind) /\ ~Schema!Locked(Head(Schema!Statements(kind)))
        /\ kind = "end" => k \in stored["ledger"]
        /\ txn' = [txn EXCEPT ![w] =
             [kind |-> kind, key |-> k, rest |-> Tail(Schema!Statements(kind)),
              touched |-> {Head(Schema!Statements(kind))}, since |-> revision]]
        /\ UNCHANGED <<revision, stored, ended, marked, bound, mig>>
  BY DEF Schema!Begin
<1> DEFINE s == Schema!Statements(kind)
           t == [kind |-> kind, key |-> k, rest |-> Tail(s), touched |-> {Head(s)},
                 since |-> revision]
<1>2. /\ s \in Seq(Schema!Tables) /\ s # <<>>
      /\ kind = "settle in place" => Head(s) = "attempts"
      /\ kind \in {"propose", "issue"} => Head(s) = "plans"
      /\ kind = "end" => Head(s) = "ledger"
  BY StatementsOf
<1>3. /\ Head(s) \in Schema!Tables /\ Tail(s) \in Seq(Schema!Tables)
      /\ Range(s) = {Head(s)} \cup Range(Tail(s))
  BY <1>2, RestOf
<1>4. t \in Txns
  BY <1>3 DEF Txns, SchemaInv, RowsInv
<1>5. CommandOK(t)
  <2>1. Schema!Exists(Head(s))
    <3>1. CASE kind \in {"settle in place", "propose"}
      <4>1. Schema!Exists("attempts") /\ Schema!Exists("plans")
        BY DEF SchemaInv, RowsInv, Schema!Exists, Schema!CreatedBy
      <4> HIDE DEF s
      <4>2. Head(s) \in {"attempts", "plans"}
        BY <1>2, <3>1
      <4> QED BY <4>1, <4>2
    <3>2. CASE kind \notin {"settle in place", "propose"}
      <4>1. \A i \in DOMAIN s : Schema!Exists(s[i])
        BY <1>1, <3>2 DEF Schema!Serves
      <4> HIDE DEF s
      <4>2. 1 \in DOMAIN s /\ Head(s) = s[1]
        BY <1>2, HeadIsFirst
      <4> QED BY <4>1, <4>2
    <3> QED BY <3>1, <3>2
  <2>2. /\ kind = "settle in place" => revision < 10
        /\ kind = "propose" => revision >= 15
    BY <1>1 DEF Schema!Serves
  <2> HIDE DEF s
  <2> QED BY <1>1, <1>3, <2>1, <2>2 DEF CommandOK, s
<1>6. mig # Schema!Nothing => mig.held \cap t.touched = {}
  BY <1>1 DEF Schema!Locked
<1>7. ~(t.kind = "issue" /\ "ledger" \in t.touched)
  BY <1>2
<1> HIDE DEF t
<1> QED BY <1>1, <1>4, <1>5, <1>6, <1>7, CommandStep DEF t

LEMMA WriteStep ==
  ASSUME SchemaInv, NEW w \in Writers, Schema!Write(w)
  PROVE  SchemaInv'
<1> DEFINE r == txn[w]
           table == Head(r.rest)
           t == [r EXCEPT !.rest = Tail(@), !.touched = @ \cup {table}]
<1>1. /\ r # Schema!Nothing /\ r.rest # <<>>
      /\ ~Schema!Locked(table) /\ Schema!Exists(table)
      /\ (r.kind = "issue" /\ table = "ledger") => ~Schema!Collides(w)
      /\ txn' = [txn EXCEPT ![w].rest = Tail(@), ![w].touched = @ \cup {table}]
      /\ UNCHANGED <<revision, stored, ended, marked, bound, mig>>
  BY DEF Schema!Write
<1>2. r \in Txns /\ CommandOK(r)
  BY <1>1 DEF SchemaInv, RowsInv, CommandsInv, Running
<1>3. table \in Schema!Tables /\ Tail(r.rest) \in Seq(Schema!Tables)
        /\ Range(r.rest) = {table} \cup Range(Tail(r.rest))
  BY <1>1, <1>2, RestOf DEF Txns
<1>4. /\ t \in Txns /\ t.kind = r.kind /\ t.key = r.key /\ t.since = r.since
      /\ t.rest = Tail(r.rest) /\ t.touched = r.touched \cup {table}
  BY <1>2, <1>3 DEF Txns
<1>5. txn' = [txn EXCEPT ![w] = t]
  BY <1>1 DEF SchemaInv, RowsInv
<1>6. CommandOK(t)
  BY <1>1, <1>2, <1>3, <1>4 DEF CommandOK
<1>7. mig # Schema!Nothing => mig.held \cap t.touched = {}
  BY <1>1, <1>4 DEF SchemaInv, MigrationInv, Running, Schema!Locked
<1>8. revision = 16 /\ t.kind = "issue" /\ "ledger" \in t.touched =>
        /\ \A l \in stored["ledger"] : ControllerOf[l] # ControllerOf[t.key]
        /\ \A u \in Writers \ {w} : Issuing(u) =>
             ControllerOf[txn[u].key] # ControllerOf[t.key]
  <2>1. CASE "ledger" \in r.touched
    BY <1>1, <1>4, <2>1 DEF SchemaInv, LeaseInv, Issuing, Running
  <2>2. CASE "ledger" \notin r.touched
    <3>1. SUFFICES ASSUME revision = 16, t.kind = "issue", "ledger" \in t.touched
                   PROVE  /\ \A l \in stored["ledger"] : ControllerOf[l] # ControllerOf[r.key]
                          /\ \A u \in Writers \ {w} : Issuing(u) =>
                               ControllerOf[txn[u].key] # ControllerOf[r.key]
      BY <1>4
    <3>2. ~Schema!Collides(w)
      BY <1>1, <1>4, <2>2, <3>1
    <3>3. \A u \in Writers \ {w} : Issuing(u) =>
            txn[u].key \in {txn[v].key : v \in {v \in Writers \ {w} :
                    txn[v] # Schema!Nothing /\ txn[v].kind = "issue"
                      /\ "ledger" \in txn[v].touched}}
      BY DEF Issuing, Running
    <3> QED BY <3>1, <3>2, <3>3 DEF Schema!Collides
  <2> QED BY <2>1, <2>2
<1> HIDE DEF t
<1> QED BY <1>1, <1>4, <1>5, <1>6, <1>7, <1>8, CommandStep

LEMMA RollbackStep ==
  ASSUME SchemaInv, NEW w \in Writers, Schema!Rollback(w)
  PROVE  SchemaInv'
BY CommandStep DEF Schema!Rollback

LEMMA CommandCommits ==
  ASSUME SchemaInv, NEW w \in Writers, Schema!Commit(w)
  PROVE  SchemaInv' /\ \A x \in Schema!Tables : stored[x] \subseteq stored'[x]
<1> DEFINE t == txn[w]
           Inserted(x) == x \in t.touched /\ Schema!Inserts(t.kind, x)
<1>1. /\ t # Schema!Nothing /\ t.rest = <<>>
      /\ stored' = [x \in Schema!Tables |->
           IF Inserted(x) THEN stored[x] \cup {t.key} ELSE stored[x]]
      /\ ended' = IF t.kind = "end" THEN ended \cup {t.key} ELSE ended
      /\ marked' = IF t.kind = "issue" /\ t.since >= 15 THEN marked \cup {t.key} ELSE marked
      /\ bound' = IF t.kind = "issue" /\ revision = 16 THEN bound \cup {t.key} ELSE bound
      /\ txn' = [txn EXCEPT ![w] = Schema!Nothing]
      /\ UNCHANGED <<revision, mig>>
  BY DEF Schema!Commit
<1>2. t \in Txns /\ CommandOK(t)
  BY <1>1 DEF SchemaInv, RowsInv, CommandsInv, Running
<1>3. t.touched = Range(Schema!Statements(t.kind)) /\ t.kind \in Schema!AllKinds
  <2>1. Range(<<>>) = {}
    BY DEF Range
  <2> QED BY <1>1, <1>2, <2>1 DEF CommandOK, Txns
<1>4. /\ Inserted("attempts") => t.kind = "settle in place"
      /\ Inserted("plans") => t.kind = "propose"
      /\ Inserted("ledger") <=> t.kind = "issue"
  BY <1>3, InsertsOf
<1>5. \A x \in Schema!Tables :
        stored'[x] = IF Inserted(x) THEN stored[x] \cup {t.key} ELSE stored[x]
  BY <1>1
<1>6. \A u \in Writers : txn'[u] = IF u = w THEN Schema!Nothing ELSE txn[u]
  BY <1>1 DEF SchemaInv, RowsInv
<1>7. {"attempts", "settlements", "plans", "ledger"} \subseteq Schema!Tables
  BY TableNames
<1> DEFINE Ins == {x \in Schema!Tables : Inserted(x)}
<1>8. \A x \in Schema!Tables : stored'[x] = IF x \in Ins THEN stored[x] \cup {t.key} ELSE stored[x]
  BY <1>5
<1>9. /\ "attempts" \in Ins => t.kind = "settle in place"
      /\ "plans" \in Ins => t.kind = "propose"
      /\ "ledger" \in Ins <=> t.kind = "issue"
      /\ Ins \subseteq t.touched
  BY <1>4, <1>7
<1> HIDE DEF Ins, Inserted
<1>10. RowsInv'
  <2>1. stored' \in [Schema!Tables -> SUBSET Keys]
    <3>1. stored' \in [Schema!Tables -> SUBSET Keys] <=>
            /\ stored' = [x \in Schema!Tables |-> stored'[x]]
            /\ \A x \in Schema!Tables : stored'[x] \subseteq Keys
      OBVIOUS
    <3>2. stored' = [x \in Schema!Tables |-> stored'[x]]
      BY <1>1
    <3>3. t.key \in Keys
      BY <1>2 DEF Txns
    <3> QED BY <1>8, <3>1, <3>2, <3>3 DEF SchemaInv, RowsInv
  <2>2. txn' \in [Writers -> Txns \cup {Schema!Nothing}]
    BY <1>1 DEF SchemaInv, RowsInv
  <2>3. \A x \in Schema!Tables : ~Schema!Exists(x)' => stored'[x] = {}
    BY <1>1, <1>2, <1>8, <1>9 DEF SchemaInv, RowsInv, CommandOK, Schema!Exists
  <2> QED BY <1>1, <2>1, <2>2, <2>3 DEF SchemaInv, RowsInv
<1>11. CommandsInv'
  <2>1. \A r : CommandOK(r) => CommandOK(r)'
    BY <1>1, <1>7, <1>8 DEF CommandOK, Schema!Exists
  <2> QED BY <1>6, <2>1 DEF SchemaInv, CommandsInv, Running
<1>12. MigrationInv'
  <2>1. SUFFICES ASSUME mig # Schema!Nothing PROVE MigrationInv'
    BY <1>1 DEF MigrationInv
  <2>2. /\ mig \in Migrations
        /\ mig.to = IF mig.kind = "up" THEN revision + 1 ELSE revision - 1
        /\ mig.held \cup Range(mig.rest) = Range(Locks(mig))
        /\ mig.held \cap t.touched = {}
    BY <1>1, <2>1 DEF SchemaInv, RowsInv, MigrationInv, Running
  <2>3. mig.looked => mig.held = Range(Locks(mig))
    <3>1. Range(<<>>) = {}
      BY DEF Range
    <3> QED BY <2>1, <2>2, <3>1 DEF SchemaInv, MigrationInv
  <2>4. mig.looked /\ mig.kind = "down" => \A x \in Schema!DownChecks(mig.to) : stored'[x] = {}
    <3>1. SUFFICES ASSUME mig.looked, mig.kind = "down", NEW x \in Schema!DownChecks(mig.to)
                   PROVE  stored'[x] = {}
      OBVIOUS
    <3>2. mig.to \in 9..15
      BY <2>2, <3>1 DEF SchemaInv, RowsInv, Migrations
    <3>3. x \in mig.held /\ x \in Schema!Tables
      BY <2>2, <2>3, <3>1, <3>2, DownLocksOf DEF Locks, Migrations
    <3> QED BY <1>8, <1>9, <2>1, <2>2, <3>1, <3>3 DEF SchemaInv, MigrationInv
  <2>5. mig.looked /\ mig.kind = "up" /\ mig.to = 16 => ~Schema!Reused'
    <3>1. SUFFICES ASSUME mig.looked, mig.kind = "up", mig.to = 16
                   PROVE  ~Schema!Reused'
      OBVIOUS
    <3>2. "ledger" \in mig.held
      BY <2>3, <3>1, UpLocksOf DEF Locks
    <3>3. stored'["ledger"] = stored["ledger"]
      BY <1>7, <1>8, <1>9, <2>2, <3>2
    <3> QED BY <2>1, <3>1, <3>3 DEF SchemaInv, MigrationInv, Schema!Reused
  <2>6. \A u \in Writers : txn'[u] # Schema!Nothing => mig.held \cap txn'[u].touched = {}
    BY <1>6, <2>1 DEF SchemaInv, MigrationInv, Running
  <2>7. mig.looked => mig.rest = <<>>
    BY <2>1 DEF SchemaInv, MigrationInv
  <2> QED BY <1>1, <2>2, <2>4, <2>5, <2>6, <2>7 DEF MigrationInv, Running
<1>13. /\ revision' = revision
       /\ ended \subseteq ended' /\ marked \subseteq marked'
       /\ bound' = IF t.kind = "issue" /\ revision = 16 THEN bound \cup {t.key} ELSE bound
  BY <1>1
<1>14. PromisesInv'
  <2>1. /\ stored["attempts"] # stored'["attempts"] => revision < 10
        /\ stored["settlements"] \subseteq stored'["settlements"]
        /\ stored'["plans"] # stored["plans"] => revision >= 15
    BY <1>2, <1>7, <1>8, <1>9 DEF CommandOK
  <2>2. ended' \subseteq stored'["ledger"]
    BY <1>1, <1>2, <1>7, <1>8 DEF CommandOK, SchemaInv, PromisesInv
  <2>3. Schema!LegacyIsTerminal'
    <3>1. t.kind = "issue" /\ revision >= 15 => marked' = marked \cup {t.key}
      BY <1>1, <1>2 DEF CommandOK
    <3>3. stored'["ledger"] = IF t.kind = "issue" THEN stored["ledger"] \cup {t.key}
                                                 ELSE stored["ledger"]
      BY <1>7, <1>8, <1>9
    <3>4. t.kind = "issue" /\ revision >= 15 => t.key \in marked'
      BY <3>1
    <3>5. revision >= 15 => stored["ledger"] \ marked \subseteq ended
      BY DEF SchemaInv, PromisesInv, Schema!LegacyIsTerminal
    <3>6. revision' >= 15 => stored'["ledger"] \ marked' \subseteq ended'
      BY <1>13, <3>3, <3>4, <3>5
    <3> QED BY <3>6 DEF Schema!LegacyIsTerminal
  <2>4. Schema!OutcomesCarried' /\ Schema!MarkedPlansAreRead'
    BY <1>13, <2>1 DEF SchemaInv, RowsInv, PromisesInv, Schema!OutcomesCarried, Schema!MarkedPlansAreRead
  <2> QED BY <2>2, <2>3, <2>4 DEF PromisesInv
<1>15. LeaseInv'
  <2>1. stored'["ledger"] = IF t.kind = "issue" THEN stored["ledger"] \cup {t.key}
                                                ELSE stored["ledger"]
    BY <1>7, <1>8, <1>9
  <2>2. t.kind = "issue" => Issuing(w)
    BY <1>1, <1>3, InsertsOf DEF Issuing, Running
  <2>3. bound' \subseteq stored'["ledger"] /\ (bound' # {} => revision' = 16)
    BY <1>13, <2>1 DEF SchemaInv, LeaseInv
  <2>4. \A u \in Writers : Issuing(u)' <=> u # w /\ Issuing(u)
    BY <1>6 DEF Issuing, Running
  <2>5. ASSUME revision = 16
        PROVE  ~Schema!Reused'
    BY <2>1, <2>2, <2>5 DEF SchemaInv, LeaseInv, Schema!Reused
  <2>6. ASSUME revision = 16, NEW v \in Writers, Issuing(v)'
        PROVE  /\ \A l \in stored'["ledger"] : ControllerOf[l] # ControllerOf[txn'[v].key]
               /\ \A u \in Writers \ {v} : Issuing(u)' =>
                    ControllerOf[txn'[u].key] # ControllerOf[txn'[v].key]
    <3>1. v # w /\ Issuing(v) /\ txn'[v] = txn[v]
      BY <1>6, <2>4, <2>6
    <3>2. /\ \A l \in stored["ledger"] : ControllerOf[l] # ControllerOf[txn[v].key]
          /\ \A u \in Writers \ {v} : Issuing(u) =>
               ControllerOf[txn[u].key] # ControllerOf[txn[v].key]
      BY <2>6, <3>1 DEF SchemaInv, LeaseInv
    <3>3. t.kind = "issue" => ControllerOf[t.key] # ControllerOf[txn[v].key]
      BY <2>2, <3>1, <3>2
    <3>4. \A l \in stored'["ledger"] : ControllerOf[l] # ControllerOf[txn'[v].key]
      BY <2>1, <3>1, <3>2, <3>3
    <3>5. \A u \in Writers \ {v} : Issuing(u)' =>
                    ControllerOf[txn'[u].key] # ControllerOf[txn'[v].key]
      BY <1>6, <2>4, <3>1, <3>2
    <3> QED BY <3>4, <3>5
  <2> QED BY <1>13, <2>3, <2>5, <2>6 DEF LeaseInv
<1> QED BY <1>8, <1>10, <1>11, <1>12, <1>14, <1>15 DEF SchemaInv

\* A step of a migration that changes nothing but the migration.
LEMMA MigrationStep ==
  ASSUME SchemaInv, mig' \in Migrations \cup {Schema!Nothing},
         UNCHANGED <<revision, stored, ended, marked, bound, txn>>,
         mig' # Schema!Nothing =>
           /\ mig'.to = IF mig'.kind = "up" THEN revision + 1 ELSE revision - 1
           /\ mig'.held \cup Range(mig'.rest) =
                Range(IF mig'.kind = "up" THEN Schema!UpLocks(mig'.to)
                                         ELSE Schema!DownLocks(mig'.to))
           /\ \A w \in Writers : Running(w) => mig'.held \cap txn[w].touched = {}
           /\ mig'.looked =>
                /\ mig'.rest = <<>>
                /\ mig'.kind = "down" => \A x \in Schema!DownChecks(mig'.to) : stored[x] = {}
                /\ mig'.kind = "up" /\ mig'.to = 16 => ~Schema!Reused
  PROVE  SchemaInv'
<1>1. RowsInv'
  BY DEF SchemaInv, RowsInv, Schema!Exists
<1>2. CommandsInv'
  <2>1. \A r : CommandOK(r) => CommandOK(r)'
    BY DEF CommandOK, Schema!Exists
  <2> QED BY <2>1 DEF SchemaInv, CommandsInv, Running
<1>3. MigrationInv'
  BY DEF MigrationInv, Locks, Running, Schema!Reused
<1>4. PromisesInv'
  BY DEF SchemaInv, PromisesInv, Schema!OutcomesCarried, Schema!LegacyIsTerminal,
         Schema!MarkedPlansAreRead
<1>5. LeaseInv'
  BY DEF SchemaInv, LeaseInv, Issuing, Running, Schema!Reused
<1> QED BY <1>1, <1>2, <1>3, <1>4, <1>5 DEF SchemaInv

LEMMA BeginUpgradeStep ==
  ASSUME SchemaInv, Schema!BeginUpgrade
  PROVE  SchemaInv'
<1> DEFINE to == revision + 1
           m == [kind |-> "up", to |-> to, rest |-> Schema!UpLocks(to), held |-> {},
                 looked |-> FALSE]
<1>1. to \in 10..16
  BY DEF SchemaInv, RowsInv, Schema!BeginUpgrade, Schema!Latest
<1>2. mig' = m /\ UNCHANGED <<revision, stored, ended, marked, bound, txn>>
  BY DEF Schema!BeginUpgrade, Schema!Migrating
<1>3. m \in Migrations
  BY <1>1, UpLocksOf DEF Migrations
<1>4. m.kind = "up" /\ m.to = to /\ m.held = {} /\ ~m.looked /\ m.rest = Schema!UpLocks(to)
  OBVIOUS
<1> HIDE DEF m
<1> QED BY <1>2, <1>3, <1>4, MigrationStep

LEMMA BeginDowngradeStep ==
  ASSUME SchemaInv, Schema!BeginDowngrade
  PROVE  SchemaInv'
<1> DEFINE to == revision - 1
           m == [kind |-> "down", to |-> to, rest |-> Schema!DownLocks(to), held |-> {},
                 looked |-> FALSE]
<1>1. to \in 9..15
  BY DEF SchemaInv, RowsInv, Schema!BeginDowngrade, Schema!Base
<1>2. mig' = m /\ UNCHANGED <<revision, stored, ended, marked, bound, txn>>
  BY DEF Schema!BeginDowngrade, Schema!Migrating
<1>3. m \in Migrations
  BY <1>1, DownLocksOf DEF Migrations
<1>4. m.kind = "down" /\ m.to = to /\ m.held = {} /\ ~m.looked /\ m.rest = Schema!DownLocks(to)
  OBVIOUS
<1> HIDE DEF m
<1> QED BY <1>2, <1>3, <1>4, MigrationStep

LEMMA LockStep ==
  ASSUME SchemaInv, Schema!LockTable
  PROVE  SchemaInv'
<1> DEFINE table == Head(mig.rest)
           m == [mig EXCEPT !.rest = Tail(@), !.held = @ \cup {table}]
<1>1. /\ mig # Schema!Nothing /\ mig.rest # <<>> /\ ~Schema!Touched(table) /\ mig' = m
      /\ UNCHANGED <<revision, stored, ended, marked, bound, txn>>
  BY DEF Schema!LockTable
<1>2. /\ mig \in Migrations
      /\ mig.to = IF mig.kind = "up" THEN revision + 1 ELSE revision - 1
      /\ mig.held \cup Range(mig.rest) = Range(Locks(mig))
      /\ \A w \in Writers : Running(w) => mig.held \cap txn[w].touched = {}
      /\ ~mig.looked
  BY <1>1 DEF SchemaInv, RowsInv, MigrationInv
<1>3. table \in Schema!Tables /\ Tail(mig.rest) \in Seq(Schema!Tables)
        /\ Range(mig.rest) = {table} \cup Range(Tail(mig.rest))
  BY <1>1, <1>2, RestOf DEF Migrations
<1>4. /\ m \in Migrations /\ m.kind = mig.kind /\ m.to = mig.to /\ ~m.looked
      /\ m.rest = Tail(mig.rest) /\ m.held = mig.held \cup {table}
  BY <1>2, <1>3 DEF Migrations
<1>5. \A w \in Writers : Running(w) => table \notin txn[w].touched
  BY <1>1 DEF Schema!Touched, Running
<1>6. m.held \cup Range(m.rest) =
        Range(IF m.kind = "up" THEN Schema!UpLocks(m.to) ELSE Schema!DownLocks(m.to))
  BY <1>2, <1>3, <1>4 DEF Locks
<1> HIDE DEF m
<1> QED BY <1>1, <1>2, <1>4, <1>5, <1>6, MigrationStep

LEMMA LookedStep ==
  ASSUME SchemaInv, Schema!Look
  PROVE  SchemaInv'
<1> DEFINE m == [mig EXCEPT !.looked = TRUE]
           refused == (mig.kind = "down" /\ \E x \in Schema!DownChecks(mig.to) : stored[x] # {})
                        \/ (mig.kind = "up" /\ mig.to = 16 /\ Schema!Reused)
<1>1. /\ mig # Schema!Nothing /\ mig.rest = <<>>
      /\ mig' = IF refused THEN Schema!Nothing ELSE m
      /\ UNCHANGED <<revision, stored, ended, marked, bound, txn>>
  BY DEF Schema!Look
<1>2. /\ mig \in Migrations
      /\ mig.to = IF mig.kind = "up" THEN revision + 1 ELSE revision - 1
      /\ mig.held \cup Range(mig.rest) = Range(Locks(mig))
      /\ \A w \in Writers : Running(w) => mig.held \cap txn[w].touched = {}
  BY <1>1 DEF SchemaInv, RowsInv, MigrationInv
<1>3. /\ m \in Migrations /\ m.kind = mig.kind /\ m.to = mig.to
      /\ m.rest = mig.rest /\ m.held = mig.held
  BY <1>2 DEF Migrations
<1>4. CASE refused
  BY <1>1, <1>4, MigrationStep
<1>5. CASE ~refused
  <2>1. mig' = m
    BY <1>1, <1>5
  <2>2. /\ m.kind = "down" => \A x \in Schema!DownChecks(m.to) : stored[x] = {}
        /\ m.kind = "up" /\ m.to = 16 => ~Schema!Reused
    BY <1>3, <1>5
  <2>3. m.held \cup Range(m.rest) =
          Range(IF m.kind = "up" THEN Schema!UpLocks(m.to) ELSE Schema!DownLocks(m.to))
    BY <1>2, <1>3 DEF Locks
  <2> HIDE DEF m
  <2> QED BY <1>1, <1>2, <1>3, <2>1, <2>2, <2>3, MigrationStep
<1> QED BY <1>4, <1>5

LEMMA UpgradeStep ==
  ASSUME SchemaInv, Schema!Upgrade
  PROVE  SchemaInv' /\ \A x \in Schema!Tables : stored[x] \subseteq stored'[x]
<1> DEFINE to == mig.to
<1>1. /\ mig # Schema!Nothing /\ mig.kind = "up" /\ mig.looked
      /\ revision' = to /\ mig' = Schema!Nothing
      /\ marked' = marked /\ txn' = txn
  BY DEF Schema!Upgrade
<1>2. /\ stored' = Schema!Copied(to)
      /\ ended' = IF to = 15 THEN stored["ledger"] ELSE ended
      /\ bound' = IF to = 16 THEN bound \cup stored["ledger"] ELSE bound
  BY DEF Schema!Upgrade
<1>3. to = revision + 1 /\ to \in 10..16 /\ revision \in 9..15
  BY <1>1 DEF SchemaInv, RowsInv, MigrationInv, Migrations
<1>4. /\ to = 10 => "attempts" \in mig.held
      /\ to = 15 => "plans" \in mig.held
      /\ to = 16 => "ledger" \in mig.held
  <2>1. mig.held = Range(Schema!UpLocks(to))
    <3>1. Range(<<>>) = {}
      BY DEF Range
    <3> QED BY <1>1, <3>1 DEF SchemaInv, MigrationInv, Locks
  <2> QED BY <1>3, <2>1, UpLocksOf
<1>5. \A w \in Writers : Running(w) => mig.held \cap txn[w].touched = {}
  BY <1>1 DEF SchemaInv, MigrationInv
<1>6. {"attempts", "settlements", "plans", "ledger", "subjectLocks", "enrolments"}
        \subseteq Schema!Tables
  BY TableNames
<1>7. /\ \A x \in Schema!Tables : stored'[x] =
           IF to = 10 /\ x = "settlements" THEN stored["attempts"]
           ELSE IF to = 13 /\ x = "subjectLocks" THEN stored["enrolments"]
           ELSE stored[x]
      /\ stored' \in [Schema!Tables -> SUBSET Keys]
  BY <1>2, <1>6 DEF Schema!Copied, SchemaInv, RowsInv
<1>8. Schema!CreatedBy["settlements"] = 10 /\ Schema!CreatedBy["subjectLocks"] = 13
        /\ \A x \in Schema!Tables : Schema!CreatedBy[x] \in Nat
  BY TableNames DEF Schema!CreatedBy
<1>9. RowsInv' /\ \A x \in Schema!Tables : stored[x] \subseteq stored'[x]
  <2>1. \A x \in Schema!Tables : ~(Schema!CreatedBy[x] <= revision) => stored[x] = {}
    BY DEF SchemaInv, RowsInv, Schema!Exists
  <2>2. \A x \in Schema!Tables : ~Schema!Exists(x)' => stored'[x] = {}
    BY <1>1, <1>3, <1>7, <1>8, <2>1 DEF Schema!Exists
  <2>3. \A x \in Schema!Tables : stored[x] \subseteq stored'[x]
    BY <1>3, <1>6, <1>7, <1>8, <2>1
  <2>4. txn' \in [Writers -> Txns \cup {Schema!Nothing}]
          /\ mig' \in Migrations \cup {Schema!Nothing} /\ revision' \in 9..16
    BY <1>1, <1>3 DEF SchemaInv, RowsInv
  <2> QED BY <1>7, <2>2, <2>3, <2>4 DEF RowsInv
<1>10. /\ stored'["ledger"] = stored["ledger"] /\ stored'["attempts"] = stored["attempts"]
       /\ stored'["plans"] = stored["plans"]
       /\ stored'["settlements"] = IF to = 10 THEN stored["attempts"] ELSE stored["settlements"]
  BY <1>6, <1>7
<1>11. CommandsInv'
  <2>1. SUFFICES ASSUME NEW w \in Writers, Running(w)
                 PROVE  CommandOK(txn[w])'
    BY <1>1 DEF CommandsInv, Running
  <2> DEFINE t == txn[w]
  <2>2. /\ CommandOK(t) /\ t.kind \in Schema!AllKinds
        /\ mig.held \cap t.touched = {}
    BY <1>5, <2>1 DEF SchemaInv, RowsInv, CommandsInv, Running, Txns
  <2>3. t.touched \subseteq Schema!Tables
    BY <2>1 DEF SchemaInv, RowsInv, Running, Txns
  <2>4. \A x \in t.touched : Schema!Exists(x)'
    <3>1. \A x \in t.touched : Schema!CreatedBy[x] <= revision /\ Schema!CreatedBy[x] \in Nat
      BY <1>8, <2>2, <2>3 DEF CommandOK, Schema!Exists
    <3>2. \A x \in t.touched : Schema!CreatedBy[x] <= to
      BY <1>3, <3>1
    <3> QED BY <1>1, <3>2 DEF Schema!Exists
  <2>5. t.kind = "settle in place" => FALSE
    <3>1. t.kind = "settle in place" => "attempts" \in t.touched /\ revision < 10
      BY <2>2, StatementsOf DEF CommandOK
    <3>2. revision < 10 => to = 10
      BY <1>3
    <3>3. t.kind = "settle in place" => to = 10
      BY <3>1, <3>2
    <3>4. \A x \in mig.held : x \notin t.touched
      BY <2>2
    <3> QED BY <1>4, <3>1, <3>3, <3>4
  <2>6. t.kind = "propose" => to >= 15
    BY <1>3, <2>2 DEF CommandOK
  <2>7. t.kind = "issue" /\ to >= 15 => t.since >= 15
    <3>1. t.kind = "issue" => "plans" \in t.touched /\ (revision >= 15 => t.since >= 15)
      BY <2>2, StatementsOf DEF CommandOK
    <3> QED BY <1>3, <1>4, <2>2, <3>1
  <2>8. t.kind = "end" => t.key \in stored'["ledger"]
    BY <1>10, <2>2 DEF CommandOK
  <2>9. /\ t.touched \cup Range(t.rest) = Range(Schema!Statements(t.kind))
        /\ Head(Schema!Statements(t.kind)) \in t.touched
    BY <2>2 DEF CommandOK
  <2> QED BY <1>1, <2>4, <2>5, <2>6, <2>7, <2>8, <2>9 DEF CommandOK
<1>12. MigrationInv'
  BY <1>1 DEF MigrationInv
<1>13. PromisesInv'
  <2>1. ended' \subseteq stored'["ledger"]
    BY <1>2, <1>10 DEF SchemaInv, PromisesInv
  <2>2. Schema!OutcomesCarried'
    BY <1>1, <1>3, <1>10 DEF SchemaInv, PromisesInv, Schema!OutcomesCarried
  <2>3. Schema!LegacyIsTerminal'
    <3>1. /\ revision >= 15 => stored["ledger"] \ marked \subseteq ended
          /\ to = 15 => ended' = stored["ledger"]
          /\ to # 15 => ended' = ended
      BY <1>2 DEF SchemaInv, PromisesInv, Schema!LegacyIsTerminal
    <3>2. revision' >= 15 => stored'["ledger"] \ marked' \subseteq ended'
      BY <1>1, <1>3, <1>10, <3>1
    <3> QED BY <3>2 DEF Schema!LegacyIsTerminal
  <2>4. Schema!MarkedPlansAreRead'
    BY <1>1, <1>3, <1>10 DEF SchemaInv, PromisesInv, Schema!MarkedPlansAreRead
  <2> QED BY <2>1, <2>2, <2>3, <2>4 DEF PromisesInv
<1>14. LeaseInv'
  <2>1. bound \subseteq stored["ledger"] /\ bound = {}
    BY <1>3 DEF SchemaInv, LeaseInv
  <2>2. bound' \subseteq stored'["ledger"] /\ (bound' # {} => revision' = 16)
    BY <1>1, <1>2, <1>10, <2>1
  <2>3. revision' = 16 => ~Schema!Reused'
    BY <1>1, <1>10 DEF SchemaInv, MigrationInv, Schema!Reused
  <2>4. revision' = 16 => \A w \in Writers : ~Issuing(w)'
    BY <1>1, <1>4, <1>5 DEF Issuing, Running
  <2> QED BY <2>2, <2>3, <2>4 DEF LeaseInv
<1> QED BY <1>9, <1>11, <1>12, <1>13, <1>14 DEF SchemaInv

LEMMA DowngradeStep ==
  ASSUME SchemaInv, Schema!Downgrade
  PROVE  SchemaInv' /\ stored' = stored
<1> DEFINE to == mig.to
           dropped == {x \in Schema!Tables : Schema!CreatedBy[x] = to + 1}
<1>1. /\ mig # Schema!Nothing /\ mig.kind = "down" /\ mig.looked
      /\ revision' = to /\ mig' = Schema!Nothing
      /\ marked' = marked /\ bound' = bound /\ txn' = txn
      /\ \A x \in dropped : ~Schema!Touched(x)
  BY DEF Schema!Downgrade
<1>2. /\ stored' = [x \in Schema!Tables |-> IF x \in dropped THEN {} ELSE stored[x]]
      /\ ended' = IF "ledger" \in dropped THEN {} ELSE ended
  BY DEF Schema!Downgrade
<1>3. to = revision - 1 /\ to \in 9..15 /\ revision \in 10..16
  BY <1>1 DEF SchemaInv, RowsInv, MigrationInv, Migrations
<1>4. /\ dropped \subseteq Schema!DownChecks(to)
      /\ to = 14 => "plans" \in Schema!DownChecks(to)
      /\ to = 15 => "ledger" \in Schema!DownChecks(to)
  BY <1>3, DownLocksOf
<1>5. mig.held = Schema!DownChecks(to)
  <2>1. Range(<<>>) = {}
    BY DEF Range
  <2>2. mig.held = Range(Schema!DownLocks(to))
    BY <1>1, <2>1 DEF SchemaInv, MigrationInv, Locks
  <2> QED BY <1>3, <2>2, DownLocksOf
<1>6. \A x \in Schema!DownChecks(to) : stored[x] = {}
  BY <1>1 DEF SchemaInv, MigrationInv
<1>7. \A w \in Writers : Running(w) => Schema!DownChecks(to) \cap txn[w].touched = {}
  BY <1>1, <1>5 DEF SchemaInv, MigrationInv
<1>8. stored' = stored
  BY <1>2, <1>4, <1>6 DEF SchemaInv, RowsInv
<1>9. ended' = ended
  BY <1>2, <1>4, <1>6 DEF SchemaInv, PromisesInv
<1>10. \A x \in Schema!Tables : Schema!CreatedBy[x] \in Nat
  BY TableNames DEF Schema!CreatedBy
<1> HIDE DEF dropped
<1>11. RowsInv'
  <2>1. \A x \in Schema!Tables : ~Schema!Exists(x)' => stored'[x] = {}
    BY <1>1, <1>3, <1>4, <1>6, <1>8, <1>10 DEF SchemaInv, RowsInv, Schema!Exists, dropped
  <2> QED BY <1>1, <1>3, <1>8, <2>1 DEF SchemaInv, RowsInv
<1>12. CommandsInv'
  <2>1. SUFFICES ASSUME NEW w \in Writers, Running(w)
                 PROVE  CommandOK(txn[w])'
    BY <1>1 DEF CommandsInv, Running
  <2> DEFINE t == txn[w]
  <2>2. /\ CommandOK(t) /\ t.kind \in Schema!AllKinds
        /\ t.touched \subseteq Schema!Tables
        /\ Schema!DownChecks(to) \cap t.touched = {}
    BY <1>7, <2>1 DEF SchemaInv, RowsInv, CommandsInv, Running, Txns
  <2>3. \A x \in t.touched : Schema!Exists(x)'
    <3>1. \A x \in t.touched : x \notin dropped /\ x \in Schema!Tables
      BY <1>4, <2>2
    <3>2. \A x \in t.touched : /\ Schema!CreatedBy[x] <= revision /\ Schema!CreatedBy[x] \in Nat
                              /\ Schema!CreatedBy[x] # to + 1
      BY <1>10, <2>2, <3>1 DEF CommandOK, Schema!Exists, dropped
    <3>3. \A x \in t.touched : Schema!CreatedBy[x] <= to
      BY <1>3, <3>2
    <3> QED BY <1>1, <3>3 DEF Schema!Exists
  <2>4. t.kind = "propose" => to >= 15
    <3>1. t.kind = "propose" => "plans" \in t.touched /\ revision >= 15
      BY <2>2, StatementsOf DEF CommandOK
    <3> QED BY <1>3, <1>4, <2>2, <3>1
  <2>5. /\ t.touched \cup Range(t.rest) = Range(Schema!Statements(t.kind))
        /\ Head(Schema!Statements(t.kind)) \in t.touched
        /\ t.kind = "settle in place" => to < 10
        /\ t.kind = "issue" /\ to >= 15 => t.since >= 15
        /\ t.kind = "end" => t.key \in stored'["ledger"]
    <3>1. /\ t.touched \cup Range(t.rest) = Range(Schema!Statements(t.kind))
          /\ Head(Schema!Statements(t.kind)) \in t.touched
          /\ t.kind = "settle in place" => revision < 10
          /\ t.kind = "issue" /\ revision >= 15 => t.since >= 15
          /\ t.kind = "end" => t.key \in stored["ledger"]
      BY <2>2 DEF CommandOK
    <3>2. (revision < 10 => to < 10) /\ (to >= 15 => revision >= 15)
      BY <1>3
    <3> QED BY <1>8, <3>1, <3>2
  <2> QED BY <1>1, <2>3, <2>4, <2>5 DEF CommandOK
<1>13. MigrationInv'
  BY <1>1 DEF MigrationInv
<1>14. PromisesInv'
  BY <1>1, <1>3, <1>4, <1>6, <1>8, <1>9
     DEF SchemaInv, PromisesInv, Schema!OutcomesCarried, Schema!LegacyIsTerminal,
         Schema!MarkedPlansAreRead
<1>15. LeaseInv'
  <2>1. bound = {}
    BY <1>3, <1>4, <1>6 DEF SchemaInv, LeaseInv
  <2> QED BY <1>1, <1>3, <2>1 DEF LeaseInv
<1> QED BY <1>8, <1>11, <1>12, <1>13, <1>14, <1>15 DEF SchemaInv

-----------------------------------------------------------------------------
LEMMA SchemaStep ==
  ASSUME SchemaInv, [Schema!Next]_(Schema!vars)
  PROVE  SchemaInv' /\ \A x \in Schema!Tables : stored[x] \subseteq stored'[x]
<1>1. CASE UNCHANGED Schema!vars
  <2>1. UNCHANGED <<revision, stored, ended, marked, bound, mig, txn>>
    BY <1>1 DEF Schema!vars
  <2>2. SchemaInv'
    BY <2>1, MigrationStep DEF SchemaInv, RowsInv, MigrationInv, Locks
  <2> QED BY <2>1, <2>2
<1>2. ASSUME NEW w \in Writers,
             Schema!Begin(w) \/ Schema!Write(w) \/ Schema!Rollback(w)
      PROVE  SchemaInv' /\ stored' = stored
  BY <1>2, BeginStep, WriteStep, RollbackStep
     DEF Schema!Begin, Schema!Write, Schema!Rollback
<1>3. ASSUME NEW w \in Writers, Schema!Commit(w)
      PROVE  SchemaInv' /\ \A x \in Schema!Tables : stored[x] \subseteq stored'[x]
  BY <1>3, CommandCommits
<1>4. CASE Schema!BeginUpgrade \/ Schema!BeginDowngrade \/ Schema!LockTable \/ Schema!Look
  <2>1. SchemaInv'
    BY <1>4, BeginUpgradeStep, BeginDowngradeStep, LockStep, LookedStep
  <2>2. stored' = stored
    BY <1>4 DEF Schema!BeginUpgrade, Schema!BeginDowngrade, Schema!LockTable, Schema!Look
  <2> QED BY <2>1, <2>2
<1>5. CASE Schema!Upgrade
  BY <1>5, UpgradeStep
<1>6. CASE Schema!Downgrade
  BY <1>6, DowngradeStep
<1> QED BY <1>1, <1>2, <1>3, <1>4, <1>5, <1>6 DEF Schema!Next

LEMMA SchemaSaid ==
  ASSUME SchemaInv
  PROVE  SchemaHolds
<1>1. Schema!TypeOK
  <2>1. mig # Schema!Nothing => mig.to \in {revision - 1, revision + 1} /\ mig.held \subseteq Schema!Tables
    BY DEF SchemaInv, RowsInv, MigrationInv, Migrations
  <2>2. \A w \in Writers : txn[w] = Schema!Nothing \/ txn[w].kind \in Schema!AllKinds
    BY DEF SchemaInv, RowsInv, Txns
  <2> QED BY <2>1, <2>2
          DEF SchemaInv, RowsInv, PromisesInv, Schema!TypeOK, Schema!Base, Schema!Latest
<1>2. Schema!ControllersKeepOneLease
  BY DEF SchemaInv, LeaseInv, Schema!Reused, Schema!ControllersKeepOneLease
<1> QED BY <1>1, <1>2 DEF SchemaInv, PromisesInv, SchemaHolds

-----------------------------------------------------------------------------
(***************************************************************************)
(* The whole                                                               *)
(***************************************************************************)

\* Releases and revisions do not disturb each other: what runs together is a
\* behaviour of each.
THEOREM OperationsStandAlone == OperationSpec => Spec /\ Schema!Spec
<1>1. OperationInit => Init /\ Schema!Init
  BY DEF OperationInit
<1>2. [OperationNext]_operationVars => [Next]_vars
  BY DEF OperationNext, operationVars
<1>3. [OperationNext]_operationVars => [Schema!Next]_(Schema!vars)
  BY DEF OperationNext, operationVars, schema, Schema!vars
<1> QED BY <1>1, <1>2, <1>3, PTL DEF OperationSpec, Spec, Schema!Spec

\* Behind every tag is a run of the tagged commit whose bytes are the ones the index
\* serves, whether or not that run uploaded them; a record is true; and a green
\* verification recorded its version (release.yml, verify-release.yml, tag_once.py,
\* write_release_record.py), however many versions, runs, verifications and commits
\* there are.
THEOREM ReleasesTellTheTruth == OperationSpec => []ReleasesAreTrue
<1>1. Init => ReleaseInv
  BY ReleaseInitially
<1>2. ReleaseInv /\ [Next]_vars => ReleaseInv'
  BY ReleaseNext
<1>3. ReleaseInv => ReleasesAreTrue
  BY ReleasesSaid DEF ReleasesAreTrue
<1> QED BY <1>1, <1>2, <1>3, OperationsStandAlone, PTL DEF Spec

\* No step takes back what was said before: a commit of main, a build, an uploaded
\* file, a tag, a verdict, and that a version is recorded or its record prepared, for
\* the merge that deletes the record branch puts the row on main.
THEOREM NothingIsTakenBack == OperationSpec => [][Later]_vars
<1>1. Init => ReleaseInv
  BY ReleaseInitially
<1>2. ReleaseInv /\ [Next]_vars => ReleaseInv' /\ Later
  BY ReleaseNext
<1> QED BY <1>1, <1>2, OperationsStandAlone, PTL DEF Spec

\* Each revision keeps what it promises the code that runs under it, up and down
\* again (dc_0010 .. dc_0016), however many commands run beside the migrations, on
\* however many rows, and in any mix.
THEOREM RevisionsKeepPromises == OperationSpec => []SchemaHolds
<1>1. Schema!Init => SchemaInv
  BY SchemaInitially
<1>2. SchemaInv /\ [Schema!Next]_(Schema!vars) => SchemaInv'
  BY SchemaStep
<1>3. SchemaInv => SchemaHolds
  BY SchemaSaid
<1> QED BY <1>1, <1>2, <1>3, OperationsStandAlone, PTL DEF Schema!Spec

\* No revision discards a committed row of evidence (the downgrades of
\* dc_0010 .. dc_0016 look and drop under one lock).
THEOREM EvidenceIsKept == OperationSpec => EvidenceKept
<1>1. Schema!Init => SchemaInv
  BY SchemaInitially
<1>2. SchemaInv /\ [Schema!Next]_(Schema!vars) => SchemaInv'
  BY SchemaStep
<1>3. SchemaInv /\ [Schema!Next]_(Schema!vars) =>
        [\A x \in Schema!Tables : stored[x] \subseteq stored'[x]]_(Schema!vars)
  BY SchemaStep
<1> QED BY <1>1, <1>2, <1>3, OperationsStandAlone, PTL
        DEF Schema!Spec, EvidenceKept, Schema!EvidenceKept
===============================================================================
