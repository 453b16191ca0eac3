------------------------------ MODULE Operations ------------------------------
(***************************************************************************)
(* What is done around the running service: releases, and the revisions of *)
(* the schema.  They share nothing, so a behaviour is about one of them;   *)
(* and of the schema, with one mix of the commands that run beside the     *)
(* migrations.                                                             *)
(***************************************************************************)
EXTENDS ReleaseRecord

CONSTANTS
  Writers, Keys, ControllerOf,
  Mixes   \* the commands that run in a behaviour, by the name of the mix

VARIABLES operation, revision, stored, ended, marked, bound, mig, txn

schema == <<revision, stored, ended, marked, bound, mig, txn>>
operationVars == <<operation, vars, schema>>

Schema == INSTANCE EvidenceMigrations

ASSUME SchemaInputs == Schema!KeysAssumption /\ "release" \notin DOMAIN Mixes

-------------------------------------------------------------------------------
OperationInit ==
  /\ operation \in {"release"} \cup DOMAIN Mixes
  /\ Init /\ Schema!Init

\* Only the commands of the mix run.
Mixed ==
  \A w \in Writers : txn'[w] # Schema!Nothing =>
    [writer |-> w, kind |-> txn'[w].kind, key |-> txn'[w].key] \in Mixes[operation]

OperationNext ==
  /\ UNCHANGED operation
  /\ \/ operation = "release" /\ Next /\ UNCHANGED schema
     \/ operation # "release" /\ Schema!Next /\ Mixed /\ UNCHANGED vars

OperationSpec == OperationInit /\ [][OperationNext]_operationVars

-------------------------------------------------------------------------------
\* Behind every tag is a verification that ended VERIFIED, of a run of the tagged
\* commit whose bytes are those the index serves, whether or not that run uploaded
\* them; a version is recorded once and truly, and a verification that ended green
\* recorded it (release.yml, verify-release.yml, tag_once.py,
\* write_release_record.py).
ReleasesAreTrue ==
  TypeOK /\ OneBuildPerVersion /\ TagIsEarned /\ RecordsAreTrue /\ GreenMeansRecorded

\* No revision discards committed evidence, whatever commits between its look at a
\* table and the drop (the downgrades of dc_0010 .. dc_0016).
EvidenceKept == Schema!EvidenceKept

\* What a revision promises the code that runs under it, up and down again: every
\* attempt the old code settled has its settlement (dc_0010), an authorization
\* without an authority class is terminal and no plan with a purpose marker is
\* left to code that cannot read it (dc_0015), and a controller key never gets a
\* second lease (dc_0016).
SchemaHolds ==
  /\ Schema!TypeOK /\ Schema!OutcomesCarried
  /\ Schema!LegacyIsTerminal /\ Schema!MarkedPlansAreRead
  /\ Schema!ControllersKeepOneLease
===============================================================================
