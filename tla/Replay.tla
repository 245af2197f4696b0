------------------------------- MODULE Replay -------------------------------
(***************************************************************************)
(* replay.replay: the launcher, the child it starts for each operation,    *)
(* and the sandbox between the child and the rest of the system.           *)
(*                                                                         *)
(* The launcher first has the child attempt each thing the sandbox must    *)
(* deny (prove_isolation), then lets it compare the two documents.  The    *)
(* sandbox may deny an attempt, let it pass, or be leaky: the connection   *)
(* is made, or the file created, and then the attempt is denied.  The      *)
(* child may crash, hang, or find its file system failing.                 *)
(***************************************************************************)
EXTENDS Documents

CONSTANT MaxOutput    \* entries that fit in the 4096 bytes read back

ASSUME OutputAssumption == MaxOutput \in Nat

VARIABLES
    baseline, candidate, expected,   \* the arguments of replay
    boundary,         \* what the sandbox makes of each attempt
    stage,            \* where the launcher is: an operation, or before or after them
    tripped,          \* the controls found to have tripped
    child,            \* the child process, or its exit code
    effects,          \* attempts that took effect: a connection, a file outside the root
    output,           \* result.json in the child's root
    outcome           \* what replay returned or raised

request == <<baseline, candidate, expected, boundary>>
vars == <<request, stage, tripped, child, effects, output, outcome>>

Probes == {"network_probe", "parent_write_probe", "symlink_output_probe"}
Operations == Probes \cup {"compare_documents"}
After ==
    [validate |-> "network_probe", network_probe |-> "parent_write_probe",
     parent_write_probe |-> "symlink_output_probe",
     symlink_output_probe |-> "compare_documents"]

Treatments == {"denied", "passed", "leaky"}

(* Exit codes: 0 and 77 as in the code, 26 for another OSError, 1 for an   *)
(* exception or a signal, and one code that stands for 21, 22 and 24.      *)
ExitCodes == {"0", "1", "26", "77", "violated"}
Running == {"starting", "past", "writing"}

NoOutput == [kind |-> "absent"]
Garbled == [kind |-> "garbled"]
Written(result) == [kind |-> "json", result |-> result]

Init ==
    /\ baseline \in Inputs /\ candidate \in Inputs
    /\ expected \in {baseline, candidate}
    /\ boundary \in [Probes -> Treatments]
    /\ stage = "validate"
    /\ tripped = {}
    /\ child = "none"
    /\ effects = {}
    /\ output = NoOutput
    /\ outcome = Pending

-----------------------------------------------------------------------------
(* The launcher.                                                           *)

(* The call ends; subprocess.run kills and reaps a child that still runs.  *)
Leave(answer) ==
    /\ outcome' = answer
    /\ stage' = "done"
    /\ child' = IF child \in Running THEN "killed" ELSE child
    /\ UNCHANGED <<request, tripped, effects, output>>

(* ValidationError, OSError and SubprocessError, which the caller catches, *)
(* and what it does not.                                                   *)
FailClosed == Leave(FailedClosed)
Escape == Leave(Raised)

(* A fresh root for the next operation, its request, and the child in it.  *)
Launch(results) ==
    /\ stage' = After[stage]
    /\ tripped' = results
    /\ child' = "starting"
    /\ output' = NoOutput
    /\ UNCHANGED <<request, effects, outcome>>

(* The documents are checked before anything is started.  The first        *)
(* sandbox profile may already be the end: it is written as ASCII, and a   *)
(* path in it that is not raises UnicodeEncodeError.                       *)
Validate ==
    /\ stage = "validate"
    /\ IF Admissible(baseline, candidate) /\ expected = baseline
         THEN Launch({}) \/ Escape
         ELSE FailClosed

(* No sandbox (sandbox_available), or an OSError of the launcher's own:    *)
(* the listener, a directory, a request, starting, reading, cleaning up.   *)
LauncherFails ==
    /\ stage # "done"
    /\ FailClosed

(* Mutant: the exception of a probe's time limit is swallowed. *)
TimeoutSwallowed ==
    /\ stage \in Operations
    /\ child \in Running
    /\ child' = "killed"
    /\ UNCHANGED <<request, stage, tripped, effects, output, outcome>>

(* Mutant: there is no time limit. *)
NoTimeout == FALSE /\ FailClosed

(* subprocess.run(timeout=5), TimeoutExpired.                              *)
Timeout ==
    /\ stage \in Operations
    /\ child \in Running
    /\ FailClosed

(* Mutant: the exit code is believed. *)
TrippedByCode(probe, seen) == child = "77"

(* A control has tripped when the child says it was denied and nothing is  *)
(* there: no connection accepted, no forbidden.txt, no link target.        *)
Tripped(probe, seen) == child = "77" /\ probe \notin seen

(* accept may give up (0.05 s) before a connection has come through; one   *)
(* that was made before the attempt was denied is there to be accepted.    *)
Noticed ==
    {effects} \cup (IF boundary["network_probe"] = "passed"
                      THEN {effects \ {"network_probe"}} ELSE {})

(* all(results.values()), when the last of them has run.                   *)
Judge ==
    /\ stage \in Probes
    /\ child \in ExitCodes
    /\ \E seen \in Noticed :
         LET results == IF Tripped(stage, seen) THEN tripped \cup {stage} ELSE tripped
         IN IF After[stage] \in Probes \/ results = Probes
              THEN Launch(results)
              ELSE FailClosed

(* Mutant: any JSON text is taken. *)
AcceptedShape(read) == read.kind = "json" /\ Size(read.result) <= MaxOutput

(* result.json is read when the child reported success: not too large, one *)
(* JSON text, and what validate_replay_result expects of these documents.  *)
Accepted(read) ==
    /\ read.kind = "json"
    /\ Size(read.result) <= MaxOutput
    /\ read.result = Compare(baseline, candidate, baseline)

(* What does not parse fails closed, or raises RecursionError if too deep. *)
Collect ==
    /\ stage = "compare_documents"
    /\ child \in ExitCodes
    /\ IF child = "0" /\ Accepted(output)
         THEN Leave(Completed(output.result))
         ELSE FailClosed \/ (child = "0" /\ output = Garbled /\ Escape)

LauncherStep == Validate \/ Timeout \/ Judge \/ Collect

-----------------------------------------------------------------------------
(* The child.                                                              *)

Exit(code) ==
    /\ child' = code
    /\ UNCHANGED <<request, stage, tripped, effects, output, outcome>>

(* Startup, the reading of the request, a signal: nothing main catches.    *)
ChildCrashes ==
    /\ child \in Running
    /\ Exit("1")

(* The attempt: denied, it ends the child; otherwise it has its effect and *)
(* the child goes on.                                                      *)
Attempt ==
    /\ child = "starting" /\ stage \in Probes
    /\ IF boundary[stage] = "denied"
         THEN Exit("77")
         ELSE /\ effects' = effects \cup {stage}
              /\ child' = IF boundary[stage] = "leaky" THEN "77" ELSE "past"
              /\ UNCHANGED <<request, stage, tripped, output, outcome>>

(* connect refused, no space, an I/O error: an OSError that proves nothing.*)
AttemptFails ==
    /\ child = "starting" /\ stage \in Probes
    /\ Exit("26")

(* Past the boundary: the child says so, or the write it began fails.      *)
Confess ==
    /\ child = "past"
    /\ Exit("violated") \/ (stage # "network_probe" /\ Exit("26"))

(* O_CREAT | O_EXCL | O_NOFOLLOW in the fresh root.                        *)
OpenResult ==
    /\ child = "starting" /\ stage = "compare_documents"
    /\ child' = "writing"
    /\ output' = Garbled
    /\ UNCHANGED <<request, stage, tripped, effects, outcome>>

OpenFails ==
    /\ child = "starting" /\ stage = "compare_documents"
    /\ Exit("26") \/ Exit("77")

(* The comparison is written, and what a reader finds of it is that, or    *)
(* something damaged, or the comparison of other documents.                *)
WriteResult ==
    /\ child = "writing"
    /\ output' \in {Written(Compare(baseline, candidate, expected)),
                    Written(Compare(baseline, baseline, expected)), Garbled}
    /\ child' = "0"
    /\ UNCHANGED <<request, stage, tripped, effects, outcome>>

WriteFails ==
    /\ child = "writing"
    /\ Exit("26")

ChildStep ==
    \/ ChildCrashes \/ Attempt \/ AttemptFails \/ Confess
    \/ OpenResult \/ OpenFails \/ WriteResult \/ WriteFails

Next == LauncherStep \/ LauncherFails \/ ChildStep

Spec == Init /\ [][Next]_vars

(* The launcher is scheduled and its time limits expire; the child owes    *)
(* nothing, and no failure is owed either.                                 *)
FairSpec == Spec /\ WF_vars(LauncherStep)

-----------------------------------------------------------------------------
(* PROPERTIES                                                              *)

(* The launcher is at one of its places, and a child runs, or has run,     *)
(* only for an operation.                                                  *)
ReplayTypeOK ==
    /\ {baseline, candidate, expected} \subseteq Inputs
    /\ stage \in Operations \cup {"validate", "done"}
    /\ child \in Running \cup ExitCodes \cup {"none", "killed"}
    /\ tripped \subseteq Probes /\ effects \subseteq Probes
    /\ stage \in Operations => child \in Running \cup ExitCodes

(* The documents are handed to a child only in a sandbox that denies each  *)
(* of the three attempts, and after nothing got out: a child that crashed, *)
(* hung, met another error, or failed after its attempt had its effect,    *)
(* proves nothing (replay.py:161-205, EVALUATION.md:55).                   *)
ControlsBeforeComparison ==
    stage = "compare_documents" \/ outcome.kind = "completed" =>
        effects = {} /\ \A p \in Probes : boundary[p] = "denied"

(* A patch on the baseline gives documents the replay admits.              *)
PatchReplays == \A key \in Keys : PatchSound(baseline, key)

(* Of a completed replay the diagnostic looks at the quarantine only.  Its *)
(* criteria are met for a version exactly when the candidate is, items and *)
(* order included, the baseline with that version quarantined by a patch   *)
(* that applies: validate_transition and the check of the result see to    *)
(* the rest (diagnostic.py:49-59 with replay.py:52-64 and 208-226).        *)
CriteriaMeanPatched ==
    outcome.kind = "completed" =>
        \A key \in Keys :
            LET patch == BuildPatch(baseline, key)
            IN MeetsCriteria(outcome.result, key) <=>
                 Applicable(baseline, patch) /\ candidate = ApplyPatch(baseline, patch)

(* What replay may answer: a failure, and to an admissible request also    *)
(* the comparison, or an exception that is nobody's.                       *)
Answers(before, after, base) ==
    {FailedClosed} \cup (IF Admissible(before, after) /\ base = before
                           THEN {Raised, Completed(Compare(before, after, base))} ELSE {})

(* The call returns, whatever the child does or fails to do.               *)
ReplayReturns == <>(outcome # Pending)

(* The caller sees the comparison of the documents it asked about, or a    *)
(* failure, once and for all (replay.py:208-226 with cli.py:126-140).      *)
Contract == INSTANCE ReplayContract WITH Allowed <- Answers
ImplementsReplayContract == Contract!Spec
=============================================================================
