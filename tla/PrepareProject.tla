---------------------------- MODULE PrepareProject -----------------------------
(***************************************************************************)
(* scripts/prepare_godot_project.py: a copy of a source tree is prepared   *)
(* in two imports, each under a configuration of its own, and the original *)
(* configuration is put back.  The source, the copy and its configuration  *)
(* may be changed by the engine or by anybody while that lasts.            *)
(*                                                                         *)
(* A file is as it was or changed for good.  Contents of project.godot are *)
(* the source's, the two that the program writes, another one of the shape *)
(* it accepts, and one it does not know.                                   *)
(***************************************************************************)
EXTENDS FiniteSets

VARIABLES
  step,           \* the place in prepare()
  phase,          \* bootstrap, then qualification
  source,         \* external: the source tree: its files, its revision, an override.cfg in it
  copy,           \* the prepared tree: its files, project.godot, the registry, an override.cfg
  known,          \* prepare()'s locals: whether git names the source, the copied files, original
  report,         \* the report in memory
  saved,          \* the report on disk
  trial           \* history: what project.godot held when each phase's import ended

vars == <<step, phase, source, copy, known, report, saved, trial>>

Contents == {"none", "source", "bootstrap", "qualification", "edited", "unknown"}
Statuses == {"none", "failed", "passed"}
Phases == {"bootstrap", "qualification"}

TypeOK ==
  /\ step \in {"begin", "admit", "stage", "configure", "check", "write", "start", "import",
               "imported", "inspect", "restore", "verify", "save", "done"}
  /\ phase \in Phases
  /\ source \in [changed : BOOLEAN, moved : BOOLEAN, override : BOOLEAN]
  /\ copy \in [exact : BOOLEAN, config : Contents, registry : {"none", "known", "other"},
               override : BOOLEAN]
  /\ known \in [git : BOOLEAN, changed : BOOLEAN, original : Contents]
  /\ report \in [status : Statuses, bootstrap : Statuses, qualification : Statuses,
                 restored : BOOLEAN, lost : BOOLEAN]

Init ==
  /\ step = "begin" /\ phase = "bootstrap"
  /\ source \in [changed : BOOLEAN, moved : BOOLEAN, override : {FALSE}]
  /\ copy = [exact |-> TRUE, config |-> "none", registry |-> "none", override |-> FALSE]
  /\ known \in [git : BOOLEAN, changed : {FALSE}, original : {"none"}]
  /\ report = [status |-> "failed", bootstrap |-> "none", qualification |-> "none",
               restored |-> FALSE, lost |-> FALSE]
  /\ saved = [report EXCEPT !.status = "none"]
  /\ trial = [p \in Phases |-> "none"]

-----------------------------------------------------------------------------
\* The checks

\* verify_source(): the revision and the index of a git source, the hashes of any
SourceHolds ==
  /\ ~source.override
  /\ known.git => ~source.moved /\ ~source.changed
  /\ source.changed = known.changed

\* verify_copy(): every file and the registry as expected, no override, this configuration
CopyHolds(config) ==
  ~copy.override /\ copy.exact /\ copy.registry = "known" /\ copy.config = config

\* configurations(): the shape of project.godot that can be rewritten
Rewritable(config) == config \in {"source", "edited"}

KnownConfigs == {known.original, "bootstrap", "qualification"}

-----------------------------------------------------------------------------
\* prepare()

\* an error raised in the try block is recorded; the finally block comes next
Raise ==
  /\ step' = "inspect" /\ report' = [report EXCEPT !.status = "failed"]

\* save_report() writes a file beside the report and replaces it; it may fail instead, which in
\* the try block is an error like any other
Save(next) ==
  \/ saved' = report /\ step' = next /\ UNCHANGED report
  \/ UNCHANGED saved /\ Raise

\* the first report is saved before anything else; without it the program ends
Begin ==
  /\ step = "begin"
  /\ \/ saved' = report /\ step' = "admit"
     \/ UNCHANGED saved /\ step' = "done"
  /\ UNCHANGED <<phase, source, copy, known, report, trial>>

\* source_inventory(): a git source is at its revision and clean; there is no override
Admit ==
  /\ step = "admit"
  /\ \/ Raise
     \/ /\ ~source.override /\ (known.git => ~source.moved /\ ~source.changed)
        /\ step' = "stage" /\ UNCHANGED report
  /\ UNCHANGED <<phase, source, copy, known, saved, trial>>

\* the files are copied and hashed
StageCopy ==
  /\ step = "stage"
  /\ \/ Raise /\ UNCHANGED <<copy, known>>
     \/ /\ copy' = [copy EXCEPT !.config = "source"]
        /\ known' = [known EXCEPT !.changed = source.changed]
        /\ step' = "configure" /\ UNCHANGED report
  /\ UNCHANGED <<phase, source, saved, trial>>

\* the source is verified; the configuration is read back from the copy, and becomes original
\* if it can be rewritten; the registry is written
Configure ==
  /\ step = "configure"
  /\ \/ Raise /\ UNCHANGED <<copy, known>>
     \/ /\ SourceHolds /\ Rewritable(copy.config)
        /\ known' = [known EXCEPT !.original = copy.config]
        /\ \/ Raise /\ UNCHANGED copy
           \/ /\ copy' = [copy EXCEPT !.registry = "known"]
              /\ step' = "check" /\ UNCHANGED report
  /\ UNCHANGED <<phase, source, saved, trial>>

Before == IF phase = "bootstrap" THEN known.original ELSE "bootstrap"

Check ==
  /\ step = "check"
  /\ IF SourceHolds /\ CopyHolds(Before) THEN step' = "write" /\ UNCHANGED report ELSE Raise
  /\ UNCHANGED <<phase, source, copy, known, saved, trial>>

WriteConfiguration ==
  /\ step = "write"
  /\ \/ Raise /\ UNCHANGED copy
     \/ copy' = [copy EXCEPT !.config = phase] /\ step' = "start" /\ UNCHANGED report
  /\ UNCHANGED <<phase, source, known, saved, trial>>

\* verified once more, then the report is saved
Start ==
  /\ step = "start"
  /\ IF CopyHolds(phase) THEN Save("import") ELSE Raise /\ UNCHANGED saved
  /\ UNCHANGED <<phase, source, copy, known, trial>>

\* import_phase(): the engine exits with success and says nothing wrong, or does not, or is
\* killed; starting it may fail
Import ==
  /\ step = "import"
  /\ \/ Raise /\ UNCHANGED trial
     \/ /\ \E status \in {"failed", "passed"} : report' = [report EXCEPT ![phase] = status]
        /\ trial' = [trial EXCEPT ![phase] = copy.config] /\ step' = "imported"
  /\ UNCHANGED <<phase, source, copy, known, saved>>

\* the copy is verified, the report saved; the next phase, or the verdict
Imported ==
  /\ step = "imported"
  /\ IF ~CopyHolds(phase) THEN Raise /\ UNCHANGED <<saved, phase>>
     ELSE \/ Raise /\ UNCHANGED <<saved, phase>>
          \/ /\ saved' = report
             /\ IF report[phase] = "passed" /\ phase = "bootstrap"
                  THEN step' = "check" /\ phase' = "qualification" /\ UNCHANGED report
                  ELSE /\ step' = "inspect" /\ UNCHANGED phase
                       /\ report' = [report EXCEPT !.status = report[phase]]
  /\ UNCHANGED <<source, copy, known, trial>>

-----------------------------------------------------------------------------
\* prepare()'s finally block

LoseCustody ==
  /\ step' = "save" /\ report' = [report EXCEPT !.status = "failed", !.lost = TRUE]

\* nothing to restore unless the original was read; a configuration the program does not know is
\* left as it is
Inspect ==
  /\ step = "inspect"
  /\ IF known.original = "none" THEN step' = "save" /\ UNCHANGED report
     ELSE IF ~copy.override /\ copy.config \in KnownConfigs
       THEN step' = "restore" /\ UNCHANGED report
       ELSE LoseCustody
  /\ UNCHANGED <<phase, source, copy, known, saved, trial>>

Restore ==
  /\ step = "restore"
  /\ \/ LoseCustody /\ UNCHANGED copy
     \/ copy' = [copy EXCEPT !.config = known.original] /\ step' = "verify" /\ UNCHANGED report
  /\ UNCHANGED <<phase, source, known, saved, trial>>

\* mutant: what was put back is not looked at again
VerifyRestored_Nothing ==
  /\ step = "verify" /\ step' = "save" /\ report' = [report EXCEPT !.restored = TRUE]
  /\ UNCHANGED <<phase, source, copy, known, saved, trial>>

VerifyRestored ==
  /\ step = "verify"
  /\ IF CopyHolds(known.original) /\ SourceHolds
       THEN step' = "save" /\ report' = [report EXCEPT !.restored = TRUE]
       ELSE LoseCustody
  /\ UNCHANGED <<phase, source, copy, known, saved, trial>>

\* a report that cannot be saved makes the program fail, and leaves the one before
SaveLast ==
  /\ step = "save" /\ step' = "done"
  /\ saved' = report \/ UNCHANGED saved
  /\ UNCHANGED <<phase, source, copy, known, report, trial>>

-----------------------------------------------------------------------------
\* External: until the last verification the source and the copy may change

Watched == step \notin {"begin", "save", "done"}

ChangeSource ==
  /\ Watched
  /\ source' \in {[source EXCEPT !.changed = TRUE], [source EXCEPT !.moved = TRUE],
                  [source EXCEPT !.override = TRUE]}
  /\ UNCHANGED <<step, phase, copy, known, report, saved, trial>>

ChangeCopy ==
  /\ Watched /\ copy.config # "none"
  /\ copy' \in {[copy EXCEPT !.exact = FALSE], [copy EXCEPT !.override = TRUE],
                [copy EXCEPT !.registry = "other"], [copy EXCEPT !.config = "edited"],
                [copy EXCEPT !.config = "unknown"]}
  /\ UNCHANGED <<step, phase, source, known, report, saved, trial>>

Next ==
  \/ Begin \/ Admit \/ StageCopy \/ Configure \/ Check \/ WriteConfiguration \/ Start \/ Import
  \/ Imported \/ Inspect \/ Restore \/ VerifyRestored \/ SaveLast
  \/ ChangeSource \/ ChangeCopy
Spec == Init /\ [][Next]_vars

-----------------------------------------------------------------------------
\* A preparation that passes, on disk and at any moment, ran both imports with success, each
\* under its own configuration, on an exact copy of a source that still is what was copied, and
\* has put the configuration back that it read (prepare_godot_project.py:402-445).
PassIsEarned ==
  saved.status = "passed" =>
    /\ saved.bootstrap = "passed" /\ saved.qualification = "passed" /\ saved.restored
    /\ \A p \in Phases : trial[p] = p
    /\ copy.exact /\ ~copy.override /\ copy.config = known.original /\ ~source.override
    /\ source.changed = known.changed /\ (known.git => ~source.moved /\ ~source.changed)

\* Whenever the program ends with a project.godot that it neither read nor wrote, after it had
\* read one, its last word is that custody was lost (prepare_godot_project.py:424-445).
LostIsSaid ==
  (step = "done" /\ known.original # "none" /\ copy.config # known.original) =>
    report.lost /\ report.status = "failed"

-----------------------------------------------------------------------------
\* What is true between any two steps: which configuration the copy can hold, what the report
\* says by then, and what a status that says passed rests on.
Early == {"begin", "admit", "stage", "configure"}
Late == {"save", "done"}

TrialInv ==
  /\ step \in Early => phase = "bootstrap" /\ known.original = "none"
  /\ step \in {"check", "write", "start", "import", "imported"} => known.original \in {"source", "edited"}
  /\ phase = "qualification" => report.bootstrap = "passed" /\ trial["bootstrap"] = "bootstrap"
  /\ step = "imported" /\ copy.config = phase => trial[phase] = phase
  /\ report.status = "passed" =>
       /\ step \in {"inspect", "restore", "verify"} \cup Late /\ known.original # "none"
       /\ report.bootstrap = "passed" /\ report.qualification = "passed"
       /\ \A p \in Phases : trial[p] = p
       /\ step \in Late => report.restored

RestoredInv ==
  /\ report.restored => step \in Late
  /\ report.restored =>
       /\ copy.exact /\ ~copy.override /\ copy.config = known.original /\ ~source.override
       /\ source.changed = known.changed /\ (known.git => ~source.moved /\ ~source.changed)
  /\ step \in {"restore", "verify"} => known.original # "none"
  /\ step \in Late =>
       known.original = "none" \/ report.restored \/ (report.lost /\ report.status = "failed")

PrepareInv ==
  /\ TypeOK /\ saved \in [status : Statuses, bootstrap : Statuses, qualification : Statuses,
                          restored : BOOLEAN, lost : BOOLEAN]
  /\ trial \in [Phases -> Contents]
  /\ TrialInv /\ RestoredInv
  /\ saved.status = "passed" => step = "done" /\ saved = report
=============================================================================
