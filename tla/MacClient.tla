------------------------------- MODULE MacClient -------------------------------
(***************************************************************************)
(* scripts/macos/published.py, package.py and admission.py: making a Mac   *)
(* client around the published pack or from the sources, and trying one on *)
(* the server.  A run works in temporary state of its own, executes tools  *)
(* it has fingerprinted, and publishes a directory; every scope it opened  *)
(* is closed on the way out, by a failure too.                             *)
(*                                                                         *)
(* What a file holds is whether it still is what was fingerprinted.        *)
(***************************************************************************)
EXTENDS FiniteSets

VARIABLES
  tool,           \* which of the three programs runs
  step,           \* the place in it
  failing,        \* an exception is on its way out
  report,         \* the report's fields that decide or are decided
  output,         \* the directory to publish: whose it is and what is in it
  temp,           \* the temporary states that exist: the outer scope's, the inner one's
  override,       \* an override.cfg lies beside the executable or the pack that is tried
  changed,        \* external: the files that no longer are what was fingerprinted
  tainted         \* history: a changed file was executed or qualified

vars == <<tool, step, failing, report, output, temp, override, changed, tainted>>

Inputs == {"sources", "editor", "template", "pack", "app"}   \* the app's pack, the staged client
Outputs == [owner : {"none", "ours", "other"}, whole : BOOLEAN, exact : BOOLEAN,
            override : BOOLEAN]
NoOutput == [owner |-> "none", whole |-> FALSE, exact |-> FALSE, override |-> FALSE]

\* assemble_pack() between the scopes it opens and closes, and build() likewise
Assembly == {"audit", "preboot", "shell", "probe", "custody", "stage", "publish", "last"}
Building == {"export", "offline", "startup", "hand_over"}
Between == {"manifest", "download", "assemble", "after", "import", "contact"}
Stages == Assembly \cup Building \cup Between
Leaving == {"inner_state", "inner_guard", "outer_state", "outer_guard", "write"}

TypeOK ==
  /\ tool \in {"package", "published", "admission"} /\ failing \in BOOLEAN
  /\ step \in {"diagnose", "done"} \cup Stages \cup Leaving
  /\ report \in [passed : BOOLEAN, written : BOOLEAN, created : BOOLEAN, kept : BOOLEAN,
                 native : BOOLEAN, isolated : BOOLEAN, admitted : BOOLEAN,
                 receipts : SUBSET BOOLEAN, removed : BOOLEAN]
  /\ output \in Outputs /\ temp \subseteq {"outer", "inner"} /\ changed \subseteq Inputs

Init ==
  /\ tool \in {"package", "published", "admission"} /\ step = "diagnose" /\ failing = FALSE
  /\ report = [passed |-> FALSE, written |-> FALSE, created |-> FALSE, kept |-> FALSE,
               native |-> FALSE, isolated |-> FALSE, admitted |-> FALSE, receipts |-> {},
               removed |-> TRUE]
  /\ output \in {NoOutput, [NoOutput EXCEPT !.owner = "other"]}
  /\ temp = {} /\ override = FALSE /\ changed = {} /\ tainted = FALSE

-----------------------------------------------------------------------------
\* The scopes

\* owned_state(): its report field says there is temporary state until it is proved removed
Enter(scope) ==
  /\ temp' = temp \cup {scope}
  /\ report' = [report EXCEPT !.removed = FALSE]

\* its finally: both directories go, or one stays and the receipt says so
LeaveState(scope, next) ==
  \E gone, raised \in BOOLEAN :
    /\ ~gone => raised
    /\ temp' = (IF gone THEN temp \ {scope} ELSE temp)
    /\ report' = [report EXCEPT !.receipts = @ \cup {gone},
                                !.removed = FALSE \notin (report.receipts \cup {gone})]
    /\ failing' = (failing \/ raised)
    /\ step' = next
    /\ UNCHANGED <<tool, output, override, changed, tainted>>

\* publication_guard(): a failure, or a scope whose state was left, takes away the output this
\* run created, if it can
LeaveGuard(passes, next) ==
  LET fails == failing \/ (report.receipts # {} /\ ~report.removed)
      rest  == [report EXCEPT !.passed = FALSE] IN
  /\ step' = next /\ failing' = fails
  /\ IF ~fails THEN report' = passes /\ UNCHANGED output
     ELSE IF ~report.created THEN report' = rest /\ UNCHANGED output
     ELSE \/ report' = [rest EXCEPT !.kept = FALSE] /\ output' = NoOutput
          \/ report' = [rest EXCEPT !.kept = output # NoOutput] /\ UNCHANGED output
  /\ UNCHANGED <<tool, temp, override, changed, tainted>>

\* the report as both programs close it
Verdict == [report EXCEPT !.passed = report.admitted /\ report.removed]

\* a step raises: the nearest scope that is open is left
Nearest == IF step \in Assembly THEN "inner_state"
           ELSE IF step \in Building \cup Between THEN "outer_state" ELSE "write"
Raise == step' = Nearest /\ failing' = TRUE

-----------------------------------------------------------------------------
\* A step that uses some files and goes on only if those it checks are unchanged
Try(here, uses, checks, next) ==
  /\ step = here
  /\ \/ Raise /\ UNCHANGED tainted
     \/ /\ checks \cap changed = {} /\ step' = next /\ UNCHANGED failing
        /\ tainted' = (tainted \/ uses \cap changed # {})

\* pack_boot_settings(), and build()'s try blocks: an override beside what is tried, which goes
\* whether the trial succeeds or not; an unlink that fails is a failure
PlaceOverride ==
  /\ step \in {"preboot", "probe", "offline", "startup"} /\ ~override /\ override' = TRUE
  /\ UNCHANGED <<tool, step, failing, report, output, temp, changed, tainted>>

TryWithOverride(here, uses, next) ==
  /\ override
  /\ \/ Try(here, uses, {}, next) /\ override' = FALSE
     \/ step = here /\ Raise /\ UNCHANGED <<override, tainted>>

\* what a step of the assembly leaves alone
Keeps == UNCHANGED <<tool, output, temp, changed>>

\* A program fingerprints its sources and tools, which can fail, and opens its first scope
Diagnose(program, next) ==
  /\ tool = program /\ step = "diagnose"
  /\ \/ step' = next /\ UNCHANGED failing /\ Enter("outer")
     \/ Raise /\ UNCHANGED <<report, temp>>
  /\ UNCHANGED <<tool, output, override, changed, tainted>>

\* an output that is there is refused
Refuse(program) ==
  /\ tool = program /\ step = "diagnose" /\ output.owner # "none" /\ Raise
  /\ UNCHANGED <<tool, report, output, temp, override, changed, tainted>>

DiagnosePublished ==
  \/ Refuse("published")
  \/ output.owner = "none" /\ Diagnose("published", "manifest")
DiagnosePackage ==
  \/ Refuse("package")
  \/ output.owner = "none" /\ Diagnose("package", "export")
DiagnoseAdmission == Diagnose("admission", "import")

-----------------------------------------------------------------------------
\* published.py

\* validate_manifest(): the manifest, of bounded size and fetched without a redirect, must be
\* the pinned release's
FetchManifest == Try("manifest", {}, {}, "download") /\ Keeps /\ UNCHANGED <<report, override>>

\* download(), extract_archive(): the archive and its two members are pinned by size and hash, so
\* what comes through is the pack; all of it lies in the temporary state
Download == Try("download", {}, {}, "assemble") /\ Keeps /\ UNCHANGED <<report, override>>

\* assemble_pack() compares sources, tools and pack with the report, then opens its scopes
Assemble ==
  /\ step = "assemble"
  /\ \/ Raise /\ UNCHANGED <<report, temp>>
     \/ /\ output.owner = "none" /\ changed \cap {"sources", "editor", "template", "pack"} = {}
        /\ step' = "audit" /\ UNCHANGED failing /\ Enter("inner")
  /\ UNCHANGED <<tool, output, override, changed, tainted>>

\* a copy of the editor, checked, reads the pack as data; the pack is checked afterwards
Audit ==
  /\ Try("audit", {"editor", "pack"}, {"editor", "pack"}, "preboot")
  /\ Keeps /\ UNCHANGED <<report, override>>

\* the override must be in force before the first autoload of a harmless pack
Preboot == TryWithOverride("preboot", {"editor"}, "shell") /\ Keeps /\ UNCHANGED report

\* the template's shell around the pack, whose copy is checked, signed
Shell ==
  /\ Try("shell", {"template", "pack"}, {"pack", "app"}, "probe")
  /\ Keeps /\ UNCHANGED <<report, override>>

\* external: what a native probe reports of itself
Evidence == [passed : BOOLEAN, connected : BOOLEAN, isolated : BOOLEAN, crossed : BOOLEAN]

\* mutant: the verdict is believed whatever the probe says it observed
ValidEvidence_Believed(e) == ~e.crossed

\* validate_evidence(): a probe that went past its boundary is refused, and so is a verdict that
\* its own observations do not bear out
ValidEvidence(e) == ~e.crossed /\ e.passed = (e.connected /\ e.isolated)

\* a step that came through without a failure has valid evidence; its verdict counts only from a
\* process that exited well
Probed ==
  \/ failing' /\ UNCHANGED report
  \/ ~failing' /\ \E e \in Evidence, exited \in BOOLEAN :
       /\ ValidEvidence(e)
       /\ report' = [report EXCEPT !.native = (e.passed /\ exited), !.isolated = e.isolated,
                                  !.admitted = (tool = "admission" /\ e.passed /\ exited)]

\* the pack is admitted by its native probe, or not
Probe ==
  /\ TryWithOverride("probe", {"editor", "pack"}, "custody") /\ Keeps /\ Probed

\* verify_custody(): everything that went in is still what it was
Custody(here, next) == Try(here, {}, Inputs, next)

\* without a native pass assemble_pack() returns here, through its scopes
Checked ==
  /\ Custody("custody", IF report.native THEN "stage" ELSE "inner_state")
  /\ Keeps /\ UNCHANGED <<report, override>>

\* the app and its archive are staged in the temporary state and checked again
Stage == Custody("stage", "publish") /\ Keeps /\ UNCHANGED <<report, override>>

\* mutant: the output is known to be the run's own only once it is filled
Publish_FlagsLate(here, next) ==
  /\ step = here
  /\ \/ Raise /\ UNCHANGED <<report, output>>
     \/ /\ output.owner = "none"
        /\ \E whole \in BOOLEAN :
             LET good == whole /\ (tool = "published" => "app" \notin changed) IN
             /\ output' = [owner |-> "ours", whole |-> whole, exact |-> "app" \notin changed,
                           override |-> override]
             /\ report' = [report EXCEPT !.created = (good /\ tool = "published"), !.admitted = good]
             /\ IF good THEN step' = next /\ UNCHANGED failing ELSE Raise
  /\ UNCHANGED <<tool, temp, override, changed, tainted>>

\* the directory is made, which fails if it is there, and filled; what was copied is checked
Publish(here, next) ==
  /\ step = here
  /\ \/ Raise /\ UNCHANGED <<report, output>>
     \/ /\ output.owner = "none"
        /\ \E whole \in BOOLEAN :
             LET good == whole /\ (tool = "published" => "app" \notin changed) IN
             /\ output' = [owner |-> "ours", whole |-> whole, exact |-> "app" \notin changed,
                           override |-> override]
             /\ report' = [report EXCEPT !.created = (tool = "published"), !.admitted = good]
             /\ IF good THEN step' = next /\ UNCHANGED failing ELSE Raise
  /\ UNCHANGED <<tool, temp, override, changed, tainted>>

PublishPublished == Publish("publish", "last")

LastCustody == Custody("last", "inner_state") /\ Keeps /\ UNCHANGED <<report, override>>

InnerState == step = "inner_state" /\ LeaveState("inner", "inner_guard")
InnerGuard ==
  /\ step = "inner_guard"
  /\ LeaveGuard(IF report.admitted THEN Verdict ELSE report, IF failing THEN "outer_state" ELSE "after")

\* diagnose() compares sources and tools once more, after the verdict
After ==
  /\ Try("after", {}, {"sources", "editor", "template"}, "outer_state")
  /\ Keeps /\ UNCHANGED <<report, override>>

OuterGuard == step = "outer_guard" /\ LeaveGuard(Verdict, "write")

-----------------------------------------------------------------------------
\* package.py

\* the editor's copy is checked; it imports and exports the staged project, and the bundle is
\* signed and inventoried
Export == Try("export", {"editor", "template", "sources"}, {"editor"}, "offline")
          /\ Keeps /\ UNCHANGED <<report, override>>

Offline == TryWithOverride("offline", {}, "startup") /\ Keeps /\ UNCHANGED report
Startup == TryWithOverride("startup", {}, "hand_over") /\ Keeps /\ UNCHANGED report

\* nothing takes the output of a failed build away
HandOver == Publish("hand_over", "outer_state")

OuterState ==
  /\ step = "outer_state"
  /\ LeaveState("outer", IF tool = "published" THEN "outer_guard" ELSE "write")

-----------------------------------------------------------------------------
\* admission.py

\* the editor's copy is checked, and imports the staged client
ColdImport == Try("import", {"editor", "sources"}, {"editor"}, "contact")
              /\ Keeps /\ UNCHANGED <<report, override>>

\* the probe asks the server in; its evidence is validated, then everything is checked again
Contact ==
  /\ Try("contact", {"editor", "sources", "app"}, {"editor", "sources", "app"}, "outer_state")
  /\ Keeps /\ UNCHANGED override /\ Probed

-----------------------------------------------------------------------------
\* main()'s finally: a report that cannot be written fails the run
Write(program, passes) ==
  /\ tool = program /\ step = "write" /\ step' = "done"
  /\ \E written \in BOOLEAN :
       report' = [report EXCEPT !.written = written, !.passed = (passes /\ written)]
  /\ UNCHANGED <<tool, failing, output, temp, override, changed, tainted>>

\* the guards have decided; the verdicts of the other two are the last lines of their work
WritePublished == Write("published", report.passed)
WritePackage == Write("package", ~failing /\ report.removed)
WriteAdmission == Write("admission", ~failing /\ report.removed /\ report.admitted)

\* external: a file changes while the run lasts; another program makes the output directory
Change ==
  /\ step \in Stages /\ \E f \in Inputs \ changed : changed' = changed \cup {f}
  /\ UNCHANGED <<tool, step, failing, report, output, temp, override, tainted>>

Occupy ==
  /\ step # "done" /\ output.owner = "none"
  /\ output' = [NoOutput EXCEPT !.owner = "other"]
  /\ UNCHANGED <<tool, step, failing, report, temp, override, changed, tainted>>

Next ==
  \/ DiagnosePublished \/ DiagnosePackage \/ DiagnoseAdmission \/ FetchManifest \/ Download
  \/ Assemble \/ Audit \/ PlaceOverride \/ Preboot \/ Shell \/ Probe
  \/ Checked \/ Stage \/ PublishPublished \/ LastCustody \/ InnerState \/ InnerGuard \/ After
  \/ OuterState \/ OuterGuard \/ Export \/ Offline \/ Startup \/ HandOver \/ ColdImport
  \/ Contact \/ WritePublished \/ WritePackage \/ WriteAdmission
  \/ Change \/ Occupy
Spec == Init /\ [][Next]_vars

-----------------------------------------------------------------------------
\* A report that passes stands for a whole output, with no override in it, made by a run whose
\* temporary state is gone; the published client's is the exact pack, admitted natively, and no
\* step of it, nor of an admission, executed or qualified a file that had changed
\* (published.py:425-454 and 532-565, package.py:133-157, admission.py:224-245).
PassIsEarned ==
  (report.passed /\ step = "done") =>
    /\ temp = {} /\ ~override
    /\ tool # "admission" => output.owner = "ours" /\ output.whole /\ ~output.override
    /\ tool # "package" => report.native /\ report.isolated /\ ~tainted
    /\ tool = "published" => output.exact

\* A published run that reports a failure has left no output of its own, or says that it could
\* not remove it, however late and through however many scopes it failed (published.py:425-441).
FailureLeavesNothing ==
  (tool = "published" /\ step = "done" /\ report.written /\ ~report.passed) =>
    (output.owner = "ours" => report.kept)

\* What somebody else put in the place of the output is never replaced, nor removed by a run that
\* has not made an output itself (published.py:425-441 and 548, package.py:287).
OutputStays == output.owner = "other" /\ ~report.created => output' = output
OthersOutputStays == [][OutputStays]_vars

-----------------------------------------------------------------------------
\* What is true between any two steps: where each program can be, what of its temporary state
\* there is, and what an output, an admission and a verdict stand for until a failure.
Ending == {"outer_state", "write", "done"}

StepInv ==
  /\ step \in Assembly \cup {"manifest", "download", "assemble", "after", "inner_state", "inner_guard",
                             "outer_guard"} => tool = "published"
  /\ step \in Building => tool = "package"
  /\ step \in {"import", "contact"} => tool = "admission"
  /\ step \in {"diagnose"} \cup Stages => ~failing
  /\ override => failing \/ step \in {"preboot", "probe", "offline", "startup"}

TempInv ==
  /\ step = "diagnose" => temp = {}
  /\ step \in {"diagnose", "inner_state"} \cup (Stages \ {"after"}) => report.receipts = {}
  /\ step \in Building \cup (Between \ {"after"}) => temp \subseteq {"outer"}
  /\ step \in {"inner_guard", "after", "outer_state"} /\ FALSE \notin report.receipts => "inner" \notin temp
  /\ step \in {"inner_guard", "outer_guard"} => report.receipts # {}
  /\ step = "inner_guard" /\ ~report.removed => failing
  /\ report.receipts # {} => report.removed = (FALSE \notin report.receipts)
  /\ step \in {"outer_guard", "write", "done"} /\ report.removed => temp = {}

OutputInv ==
  /\ tool = "published" /\ output.owner = "ours" => report.created /\ (~failing => report.admitted)
  /\ tool = "published" /\ report.admitted /\ ~failing =>
       output.owner = "ours" /\ output.whole /\ output.exact /\ ~output.override
  /\ tool = "package" /\ step \in Ending /\ ~failing =>
       output.owner = "ours" /\ output.whole /\ ~output.override
  /\ step \in {"diagnose"} \cup (Stages \ {"last", "after"}) => output.owner # "ours"

AdmittedInv ==
  /\ report.native => report.isolated
  /\ tainted => changed # {}
  /\ tool = "admission" /\ tainted => changed \cap {"editor", "sources"} # {}
  /\ tool = "published" /\ (step \in {"stage", "publish", "last"} \/ report.admitted) =>
       report.native /\ ~tainted
  /\ step \in {"diagnose"} \cup (Stages \ {"last", "after"}) => ~report.admitted
  /\ tool = "admission" /\ report.admitted => step \in Ending /\ report.native /\ ~tainted

VerdictInv ==
  /\ step = "diagnose" => ~report.passed
  /\ report.passed /\ (step = "done" \/ (step = "write" /\ tool = "published")) =>
       ~failing /\ report.removed /\ (tool # "package" => report.admitted)
  /\ tool = "published" /\ output.owner = "ours" /\ (step = "write" \/ (step = "done" /\ report.written)) =>
       report.passed \/ report.kept

MacInv ==
  /\ TypeOK /\ override \in BOOLEAN /\ tainted \in BOOLEAN
  /\ StepInv /\ TempInv /\ OutputInv /\ AdmittedInv /\ VerdictInv
=============================================================================
