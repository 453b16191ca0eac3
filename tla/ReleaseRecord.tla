--------------------------- MODULE ReleaseRecord ---------------------------
(***************************************************************************)
(* How a version of the distribution is published, verified, tagged and    *)
(* recorded: release.yml with release_guard.py and assert_current_main.sh, *)
(* verify-release.yml with fetch_published_artifacts.py, verify_release.py *)
(* and tag_once.py, and open_release_record_pr.sh with                     *)
(* write_release_record.py.  The two workflows run concurrently with each  *)
(* other and with commits on main; a run may be cancelled between any two  *)
(* of its steps.                                                           *)
(***************************************************************************)
EXTENDS Naturals, Sequences, FiniteSets, FiniteSetsExt

CONSTANTS Versions,     \* the versions declared after the inherited ones
          Releases,     \* runs of release.yml
          Verifications,\* runs of verify-release.yml
          Builds,       \* what a build may produce: equal builds, equal bytes
          MaxCommits,   \* bound on the commits of main
          None

\* The highest version inherited from the source repository; every other
\* inherited row of published-versions.json lies below it.
Inherited == 0

Files == {"wheel", "sdist"}

VARIABLES main,     \* the trees of main's commits, oldest first
          release,  \* the runs of release.yml
          index,    \* which run uploaded each file of each version
          tag,      \* the commit each release tag peels to
          verify,   \* the runs of verify-release.yml
          branch    \* the record branch of each version

vars == <<main, release, index, tag, verify, branch>>

Row == [version : Versions, commit : 1..MaxCommits, run : Releases,
        verify : Verifications, supersedes : Versions \cup {Inherited}]

Tree == [declares : Versions, records : SUBSET Row, ledger : SUBSET Versions]

\* What the record branch of a version may hold.
Draft == [row : Row, edited : BOOLEAN]

ASSUME ReleaseAssumption ==
    /\ Versions \subseteq Nat \ {0}
    /\ MaxCommits \in Nat \ {0}
    /\ None \notin Nat \cup Releases \cup Verifications \cup Builds \cup Draft

NoRelease == [phase |-> "idle", version |-> None, sha |-> None, build |-> None]

NoVerification ==
    [phase |-> "idle", version |-> None, run |-> None, verified |-> FALSE,
     fetched |-> FALSE, tagged |-> None, row |-> None, lease |-> None,
     failed |-> FALSE]

Tip == Len(main)

Recorded(tree) == {row.version : row \in tree.records}

\* The floor of the guard: the highest version a tree's record knows.
Floor(tree) == Max(Recorded(tree) \cup {Inherited})

Tags == {v \in Versions : tag[v] # None}

-----------------------------------------------------------------------------
(* main *)

\* The gates a commit of main passes: the ledger holds exactly the declared
\* version while it is unpublished, and no row outlives its tag.
Gate(tree) ==
    /\ tree.ledger = {tree.declares} \ Recorded(tree)
    /\ tree.ledger \cap Tags = {}
    /\ tree.declares \in Tags \cup tree.ledger

Land(tree) ==
    /\ Tip < MaxCommits
    /\ Gate(tree)
    /\ main' = Append(main, tree)

\* A commit lands, declaring the same version or another one.
Commit(v) ==
    /\ Land([main[Tip] EXCEPT !.declares = v,
                              !.ledger = {v} \ Recorded(main[Tip])])
    /\ UNCHANGED <<release, index, tag, verify, branch>>

-----------------------------------------------------------------------------
(* release.yml *)

\* Workflow concurrency: one release run at a time.
Releasing == \E r \in Releases :
                release[r].phase \in {"guarded", "built", "publishing"}

\* assert_current_main.sh and release_guard.py, run by guard and again by
\* publish on the tree of the run's own commit.
MayPublish(sha, v) == sha = Tip /\ v > Floor(main[sha])

\* The look at the index in this job is not a guard of the model: a failed
\* request reads as an empty page, and the index may lag behind an upload.
Guard(r, v) ==
    /\ release[r].phase = "idle"
    /\ ~Releasing
    /\ main[Tip].declares = v
    /\ MayPublish(Tip, v)
    /\ release' = [release EXCEPT ![r] =
                     [@ EXCEPT !.phase = "guarded", !.version = v, !.sha = Tip]]
    /\ UNCHANGED <<main, index, tag, verify, branch>>

Build(r) ==
    /\ release[r].phase = "guarded"
    /\ \E b \in Builds :
          release' = [release EXCEPT ![r] = [@ EXCEPT !.phase = "built", !.build = b]]
    /\ UNCHANGED <<main, index, tag, verify, branch>>

\* The publish job re-asserts both guards; refused, the run stops.
Publish(r) ==
    /\ release[r].phase = "built"
    /\ release' = [release EXCEPT ![r].phase =
                     IF MayPublish(release[r].sha, release[r].version)
                     THEN "publishing" ELSE "stopped"]
    /\ UNCHANGED <<main, index, tag, verify, branch>>

\* twine uploads the wheel, then the sdist; the index refuses a name it has,
\* and the refusal fails the job.
Upload(r) ==
    LET v == release[r].version
        file == IF index[v]["wheel"] = r THEN "sdist" ELSE "wheel"
    IN  /\ release[r].phase = "publishing"
        /\ IF index[v][file] = None
           THEN /\ index' = [index EXCEPT ![v][file] = r]
                /\ release' = [release EXCEPT ![r].phase =
                                 IF file = "sdist" THEN "published" ELSE @]
           ELSE /\ release' = [release EXCEPT ![r].phase = "stopped"]
                /\ UNCHANGED index
        /\ UNCHANGED <<main, tag, verify, branch>>

\* A job fails or the run is cancelled.
StopRelease(r) ==
    /\ release[r].phase \in {"guarded", "built", "publishing"}
    /\ release' = [release EXCEPT ![r].phase = "stopped"]
    /\ UNCHANGED <<main, index, tag, verify, branch>>

-----------------------------------------------------------------------------
(* verify-release.yml *)

\* Every file the run built is served, with the bytes the run built.
Fetched(r) ==
    LET served == index[release[r].version]
    IN  \A f \in Files : /\ served[f] # None
                         /\ release[served[f]].build = release[r].build

\* Faulty variant: the word of the consumer, without the comparison of the bytes.
VerdictOfConsumer(v, r, fetched, works) ==
    /\ main[release[r].sha].declares = v
    /\ works

\* evaluate: provenance, hash equality, one wheel and one sdist, and the
\* observations of the consumer.  The conclusion it takes for the publish job's
\* is that of the first job whose name begins with "publish": the job "publisher
\* identity", which succeeded in every run that built anything.
Verdict(v, r, fetched, works) ==
    /\ main[release[r].sha].declares = v
    /\ fetched
    /\ works

\* The observations and the verdict.  The files of the run are fetched by
\* name; a request for them, the read-back, the installation, the import and
\* the canaries may each fail.
Verify(w, v, r) ==
    /\ verify[w].phase = "idle"
    /\ release[r].build # None
    /\ \E served, works \in BOOLEAN :
          LET fetched == served /\ Fetched(r)
              verdict == Verdict(v, r, fetched, works)
          IN  verify' = [verify EXCEPT ![w] =
                [@ EXCEPT !.phase = IF verdict THEN "verified" ELSE "record",
                          !.version = v, !.run = r, !.verified = verdict,
                          !.fetched = fetched, !.tagged = tag[v],
                          !.failed = ~verdict]]
    /\ UNCHANGED <<main, release, index, tag, branch>>

\* existing_commit: the tag is fetched; when that fails the answer is what
\* the checkout had.
LookUpTag(w) ==
    /\ verify[w].phase = "verified"
    /\ \E seen \in {verify[w].tagged, tag[verify[w].version]} :
          verify' = [verify EXCEPT ![w] = [@ EXCEPT !.phase = "tag", !.tagged = seen]]
    /\ UNCHANGED <<main, release, index, tag, branch>>

\* decide, and the push, which the remote refuses when the tag exists there.
Tag(w) ==
    LET v == verify[w].version
        sha == release[verify[w].run].sha
        create == verify[w].tagged = None /\ tag[v] = None
    IN  /\ verify[w].phase = "tag"
        /\ tag' = IF create THEN [tag EXCEPT ![v] = sha] ELSE tag
        /\ verify' = [verify EXCEPT ![w] =
             [@ EXCEPT !.phase = "record",
                       !.failed = ~(create \/ verify[w].tagged = sha)]]
        /\ UNCHANGED <<main, release, index, branch>>

-----------------------------------------------------------------------------
(* open_release_record_pr.sh *)

\* The refusals of the record writer: the tag exists and peels to the run's
\* commit, the registry served what the run built, and the version is new.
Writable(w, tree) ==
    /\ tag[verify[w].version] = release[verify[w].run].sha
    /\ verify[w].fetched
    /\ verify[w].version \notin Recorded(tree)

\* The coordinates of the record, derived from the tag, the observations and
\* the records main has.
NewRow(w, tree) ==
    [version |-> verify[w].version, commit |-> tag[verify[w].version],
     run |-> verify[w].run, verify |-> w,
     supersedes |-> Max(Recorded(tree) \cup {Inherited})]

\* The step runs whatever happened before it (if: always()).  Main, its tags
\* and the record branch are fetched, which may fail, and the writer edits
\* main's tree.
Prepare(w) ==
    /\ verify[w].phase = "record"
    /\ \E reached \in BOOLEAN :
          verify' = [verify EXCEPT ![w] =
            IF reached /\ Writable(w, main[Tip])
            THEN [@ EXCEPT !.phase = "push", !.row = NewRow(w, main[Tip]),
                           !.lease = branch[verify[w].version]]
            ELSE [@ EXCEPT !.phase = "ended", !.failed = TRUE]]
    /\ UNCHANGED <<main, release, index, tag, branch>>

\* push --force-with-lease: the branch is replaced, whatever it holds, unless
\* it moved since it was fetched.  The pull request may then fail to open.
PushRecord(w) ==
    LET v == verify[w].version
        held == branch[v] = verify[w].lease
    IN  /\ verify[w].phase = "push"
        /\ branch' = IF held
                     THEN [branch EXCEPT ![v] = [row |-> verify[w].row, edited |-> FALSE]]
                     ELSE branch
        /\ \E opened \in BOOLEAN :
              verify' = [verify EXCEPT ![w] =
                [@ EXCEPT !.phase = "ended",
                          !.failed = verify[w].failed \/ ~held \/ ~opened]]
        /\ UNCHANGED <<main, release, index, tag>>

\* The verification is cancelled.
StopVerification(w) ==
    /\ verify[w].phase \notin {"idle", "ended"}
    /\ verify' = [verify EXCEPT ![w] = [@ EXCEPT !.phase = "ended", !.failed = TRUE]]
    /\ UNCHANGED <<main, release, index, tag, branch>>

\* A person adds the floor literals and the disposition to the branch ...
EditRecord(v) ==
    /\ branch[v] # None
    /\ ~branch[v].edited
    /\ branch' = [branch EXCEPT ![v].edited = TRUE]
    /\ UNCHANGED <<main, release, index, tag, verify>>

\* ... and merges it, up to date with main.
MergeRecord(v) ==
    /\ branch[v] # None
    /\ branch[v].edited
    /\ v \notin Recorded(main[Tip])
    /\ Land([main[Tip] EXCEPT !.records = @ \cup {branch[v].row},
                              !.ledger = @ \ {v}])
    /\ branch' = [branch EXCEPT ![v] = None]
    /\ UNCHANGED <<release, index, tag, verify>>

-----------------------------------------------------------------------------

Init ==
    /\ \E v \in Versions :
          main = <<[declares |-> v, records |-> {}, ledger |-> {v}]>>
    /\ release = [r \in Releases |-> NoRelease]
    /\ index = [v \in Versions |-> [f \in Files |-> None]]
    /\ tag = [v \in Versions |-> None]
    /\ verify = [w \in Verifications |-> NoVerification]
    /\ branch = [v \in Versions |-> None]

Release(r) ==
    \/ \E v \in Versions : Guard(r, v)
    \/ Build(r)
    \/ Publish(r)
    \/ Upload(r)
    \/ StopRelease(r)

Verification(w) ==
    \/ \E v \in Versions, r \in Releases : Verify(w, v, r)
    \/ LookUpTag(w)
    \/ Tag(w)
    \/ Prepare(w)
    \/ PushRecord(w)
    \/ StopVerification(w)

Next ==
    \/ \E r \in Releases : Release(r)
    \/ \E w \in Verifications : Verification(w)
    \/ \E v \in Versions : Commit(v) \/ EditRecord(v) \/ MergeRecord(v)

Spec == Init /\ [][Next]_vars

-----------------------------------------------------------------------------

\* Types of the state.
TypeOK ==
    /\ main \in Seq(Tree)
    /\ Tip \in 1..MaxCommits
    /\ release \in [Releases ->
         [phase : {"idle", "guarded", "built", "publishing", "published", "stopped"},
          version : Versions \cup {None}, sha : (1..MaxCommits) \cup {None},
          build : Builds \cup {None}]]
    /\ index \in [Versions -> [Files -> Releases \cup {None}]]
    /\ tag \in [Versions -> (1..MaxCommits) \cup {None}]
    /\ verify \in [Verifications ->
         [phase : {"idle", "verified", "tag", "record", "push", "ended"},
          version : Versions \cup {None}, run : Releases \cup {None},
          verified : BOOLEAN, fetched : BOOLEAN,
          tagged : (1..MaxCommits) \cup {None}, row : Row \cup {None},
          lease : Draft \cup {None}, failed : BOOLEAN]]
    /\ branch \in [Versions -> Draft \cup {None}]

\* Both files of a version on the index come from one release run, although
\* runs of one version may be stopped after the first file and started again
\* and the look at the index before the build may see nothing
\* (release.yml:171-184, 260: no --skip-existing).
OneBuildPerVersion ==
    \A v \in Versions, r \in Releases :
        index[v]["sdist"] = r => index[v]["wheel"] = r

\* A tag says that a version was verified: some verification of the version
\* ended VERIFIED for the commit the tag names, that commit declares the
\* version, and what the index serves is, byte for byte, what the run of that
\* commit built (tag_once.py:3, verify-release.yml:287-289).
TagIsEarned ==
    \A v \in Tags : \E w \in Verifications :
        LET r == verify[w].run
        IN  /\ verify[w].verified
            /\ verify[w].version = v
            /\ release[r].sha = tag[v] /\ release[r].version = v
            /\ main[tag[v]].declares = v
            /\ Fetched(r)

\* The run a verification was VERIFIED for is the one that published the version
\* (verify-release.yml:22): it uploaded both files.
VerifiedRunPublishedIt ==
    \A w \in Verifications : verify[w].verified =>
        \A f \in Files : index[verify[w].version][f] = verify[w].run

\* A version is recorded on main once, with the commit its tag names, and
\* with a release run of that commit whose artifacts are, byte for byte, the
\* ones the index serves: also when the step runs for a verification that was
\* not VERIFIED, was told of another run, or was overtaken by a second one
\* (write_release_record.py:171-252).
RecordsAreTrue ==
    \A row \in main[Tip].records :
        /\ row.commit = tag[row.version]
        /\ release[row.run].sha = row.commit
        /\ release[row.run].version = row.version
        /\ Fetched(row.run)
        /\ \A other \in main[Tip].records : other.version = row.version => other = row

\* A verification that ends green left the tag on its commit, and the record
\* of the version is on main or on its branch: a green run without a record
\* would be taken for a run with one (open_release_record_pr.sh:23-28).
GreenMeansRecorded ==
    \A w \in Verifications :
        verify[w].phase = "ended" /\ ~verify[w].failed =>
            LET v == verify[w].version
            IN  /\ tag[v] = release[verify[w].run].sha
                /\ v \in Recorded(main[Tip]) \/ branch[v] # None
=============================================================================
