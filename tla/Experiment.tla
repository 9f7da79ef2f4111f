----------------------------- MODULE Experiment -----------------------------
(***************************************************************************)
(* "repm run", repm/src/commands/run.rs: a matrix of cells (mode,          *)
(* scheduler, repetition) is measured into an experiment directory.  A run *)
(* can be killed at any step and resumed: the directory says what has been *)
(* done, provenance.json and config_snapshot.toml say with what.           *)
(*                                                                         *)
(* The environment is the user, who starts runs one at a time and between  *)
(* them edits the config, rebuilds schedulers or makes the rt-app config,  *)
(* and the measured programs, which succeed, fail or log nothing.          *)
(*                                                                         *)
(* A file that a kill can leave half written is Torn between the two steps *)
(* of its writing.  A CSV is the set of the measurements in it: under      *)
(* which config and build, with which schedulers loaded.  The empty set is *)
(* a CSV without any: with a placeholder row, or the header alone.         *)
(***************************************************************************)
EXTENDS Integers, FiniteSets, SequencesExt

CONSTANTS
    Modes,          \* the run modes asked for, a sequence
    Keys,           \* scheduler_keys, a sequence
    Builtin,        \* the keys of kernel-builtin schedulers
    Reps,           \* reps
    Config,         \* contents the config file can have
    Build,          \* binaries a scheduler can be built to
    Size,           \* size in bytes of each
    Versions,       \* bound: experiments v001 .. are made
    Kills,          \* bound: runs that are killed
    Failures,       \* bound: measurements that fail
    Edits,          \* bound: edits and rebuilds
    Absent, Torn    \* of a file: not there, half written

Key == Range(Keys)

(* A measurement: what was configured, built and loaded when it was made.  *)
Row == [config : Config, built : Build, loaded : SUBSET Key]

Provenance == [config : Config, built : [Key -> Build]]

ASSUME ExperimentAssumption ==
    /\ Modes \in Seq({"rtapp_pinned", "rtapp_sim", "rtapp_vm"})
    /\ Keys \in Seq(Key)
    /\ Builtin \subseteq Key
    /\ "rtapp_sim" \in Range(Modes) => Builtin = {}    \* validate_mode_scheduler_compat
    /\ Size \in [Build -> Nat]
    /\ {Reps, Versions, Kills, Failures, Edits} \subseteq Nat
    /\ Absent # Torn
    /\ {Absent, Torn} \cap Config = {}
    /\ \A file \in Provenance \cup SUBSET Row : file \notin {Absent, Torn}

VARIABLES
    config,     \* content of the config file
    built,      \* the binary of each scheduler
    rtapp,      \* whether configs/rtapp.json exists
    exp,        \* the experiment directories, oldest first
    loaded,     \* schedulers that run on the machine
    pc,         \* where the run is; "idle": there is none
    dir,        \* the experiment of the run
    cell,       \* index in the matrix of the cell it is at
    fails, kills, edits

files == <<config, built, rtapp>>
bounds == <<fails, kills, edits>>
vars == <<files, exp, loaded, pc, dir, cell, bounds>>

Cell == 1 .. Len(Modes) * Len(Keys) * Reps

(* build_matrix: all schedulers of a mode and all repetitions of a         *)
(* scheduler together.                                                     *)
Matrix ==
    [c \in Cell |->
        [mode |-> Modes[((c - 1) \div (Len(Keys) * Reps)) + 1],
         key  |-> Keys[(((c - 1) \div Reps) % Len(Keys)) + 1],
         rep  |-> ((c - 1) % Reps) + 1]]

(* A directory that holds nothing yet; logs of an attempt are never        *)
(* cleaned.                                                                *)
EmptyDir == [provenance |-> Absent, snapshot |-> Absent, done |-> {},
             csv |-> [c \in Cell |-> Absent], logs |-> [c \in Cell |-> {}]]

Init ==
    /\ config \in Config
    /\ built \in [Key -> Build]
    /\ rtapp \in BOOLEAN
    /\ exp = <<>>
    /\ loaded = {}
    /\ pc = "idle"
    /\ dir = 0
    /\ cell = 0
    /\ fails = 0 /\ kills = 0 /\ edits = 0

-----------------------------------------------------------------------------
(* Choosing the directory. *)

SameSize(b, d) == Size[b] = Size[d]

(* Mutant: a changed config is not looked at. *)
ResumableAnyConfig(e) ==
    e.provenance # Absent =>
       /\ e.provenance # Torn
       /\ \A k \in Key \ Builtin : SameSize(built[k], e.provenance.built[k])

(* check_experiment_resumable: a provenance that does not parse is an      *)
(* error; the config is compared when there is a snapshot, and binaries by *)
(* their size.                                                             *)
Resumable(e) ==
    e.provenance # Absent =>
       /\ e.provenance # Torn
       /\ e.snapshot # Absent => e.provenance.config = config
       /\ \A k \in Key \ Builtin : SameSize(built[k], e.provenance.built[k])

Start(v) ==
    /\ pc = "idle"
    /\ dir' = v
    /\ cell' = 1
    /\ pc' = "provenance"
    /\ UNCHANGED <<files, loaded, bounds>>

(* --experiment, or by default the newest. *)
Resume(v) ==
    /\ v \in DOMAIN exp
    /\ Resumable(exp[v])
    /\ Start(v)
    /\ UNCHANGED exp

NewVersion ==
    /\ Len(exp) < Versions
    /\ Start(Len(exp) + 1)
    /\ exp' = Append(exp, EmptyDir)

-----------------------------------------------------------------------------
(* Sealing it. *)

Step(to) ==
    /\ pc' = to
    /\ UNCHANGED <<files, loaded, dir, cell, bounds>>

(* Mutant: a provenance that is there is an error. *)
OpenProvenanceNew ==
    /\ pc = "provenance"
    /\ IF exp[dir].provenance = Absent
       THEN /\ exp' = [exp EXCEPT ![dir].provenance = Torn]
            /\ Step("fillProvenance")
       ELSE Step("idle") /\ UNCHANGED exp

(* write_provenance writes it once. *)
OpenProvenance ==
    /\ pc = "provenance"
    /\ IF exp[dir].provenance = Absent
       THEN /\ exp' = [exp EXCEPT ![dir].provenance = Torn]
            /\ Step("fillProvenance")
       ELSE Step("snapshot") /\ UNCHANGED exp

FillProvenance ==
    /\ pc = "fillProvenance"
    /\ exp' = [exp EXCEPT ![dir].provenance = [config |-> config, built |-> built]]
    /\ Step("snapshot")

(* write_config_snapshot, too. *)
OpenSnapshot ==
    /\ pc = "snapshot"
    /\ IF exp[dir].snapshot = Absent
       THEN /\ exp' = [exp EXCEPT ![dir].snapshot = Torn]
            /\ Step("fillSnapshot")
       ELSE Step("matrix") /\ UNCHANGED exp

FillSnapshot ==
    /\ pc = "fillSnapshot"
    /\ exp' = [exp EXCEPT ![dir].snapshot = config]
    /\ Step("matrix")

-----------------------------------------------------------------------------
(* execute_matrix, one cell after the other. *)

Here == Matrix[cell]

Advance ==
    /\ cell' = cell + 1
    /\ pc' = "matrix"
    /\ UNCHANGED <<files, dir>>

(* Mutant: completed cells are measured again. *)
SkipNone == FALSE

(* A cell with its .done marker is skipped. *)
Done == cell \in exp[dir].done

SkipCell ==
    /\ pc = "matrix"
    /\ cell \in Cell
    /\ Done
    /\ Advance
    /\ UNCHANGED <<exp, loaded, bounds>>

(* execute_rtapp_pinned starts the scheduler and then looks for the rt-app *)
(* config: without it the cell fails and the scheduler goes on running.    *)
StartPinned ==
    /\ pc = "matrix"
    /\ cell \in Cell
    /\ ~Done
    /\ Here.mode = "rtapp_pinned"
    /\ loaded' = loaded \cup ({Here.key} \ Builtin)
    /\ pc' = IF rtapp THEN "workload" ELSE "failed"
    /\ UNCHANGED <<files, exp, dir, cell, bounds>>

Measured == [config |-> config, built |-> built[Here.key], loaded |-> loaded]

(* rt-app leaves logs or not, and succeeds or not.  *)
RunRtapp ==
    /\ pc = "workload"
    /\ \E logged \in {{}, {Measured}} :
         exp' = [exp EXCEPT ![dir].logs[cell] = @ \cup logged]
    /\ \/ pc' = "stop" /\ UNCHANGED fails
       \/ /\ fails < Failures
          /\ fails' = fails + 1
          /\ pc' = "stopFailed"
    /\ UNCHANGED <<files, loaded, dir, cell, kills, edits>>

(* pkill -f by the name of the binary. *)
StopScheduler ==
    /\ pc \in {"stop", "stopFailed"}
    /\ loaded' = loaded \ {Here.key}
    /\ pc' = IF pc = "stop" THEN "collect" ELSE "failed"
    /\ UNCHANGED <<files, exp, dir, cell, bounds>>

(* execute_rtapp_sim and execute_rtapp_vm: the simulator needs no          *)
(* scheduler on the machine; the VM mode is not implemented.               *)
RunElsewhere ==
    /\ pc = "matrix"
    /\ cell \in Cell
    /\ ~Done
    /\ \/ /\ Here.mode = "rtapp_sim"
          /\ pc' = "collect"
          /\ UNCHANGED fails
       \/ /\ Here.mode = "rtapp_sim"
          /\ fails < Failures
          /\ fails' = fails + 1
          /\ pc' = "failed"
       \/ /\ Here.mode = "rtapp_vm"
          /\ pc' = "failed"
          /\ UNCHANGED fails
    /\ UNCHANGED <<files, exp, loaded, dir, cell, kills, edits>>

OpenCsv ==
    /\ pc = "collect"
    /\ exp' = [exp EXCEPT ![dir].csv[cell] = Torn]
    /\ Step("fillCsv")

(* collect_rtapp_metrics reads whatever logs there are, and with none      *)
(* writes a placeholder row; parse_scxsim_output_to_csv finds metrics in   *)
(* the output, or none and writes the header.  Both succeed.               *)
FillCsv ==
    /\ pc = "fillCsv"
    /\ \E rows \in IF Here.mode = "rtapp_pinned" THEN {exp[dir].logs[cell]}
                   ELSE {{}, {[Measured EXCEPT !.loaded = {Here.key}]}} :
         exp' = [exp EXCEPT ![dir].csv[cell] = rows]
    /\ Step("mark")

(* Whatever has been collected: execute_matrix marks what returned Ok.     *)
MarkDone ==
    /\ pc = "mark"
    /\ exp' = [exp EXCEPT ![dir].done = @ \cup {cell}]
    /\ Advance
    /\ UNCHANGED <<loaded, bounds>>

CellFailed ==
    /\ pc = "failed"
    /\ exp' = [exp EXCEPT ![dir].done = @ \ {cell}, ![dir].csv[cell] = Absent]
    /\ Advance
    /\ UNCHANGED <<loaded, bounds>>

Finish ==
    /\ pc = "matrix"
    /\ cell \notin Cell
    /\ Step("idle")
    /\ UNCHANGED exp

-----------------------------------------------------------------------------
(* The environment. *)

(* repm is killed; what sudo started goes on. *)
Kill ==
    /\ pc # "idle"
    /\ kills < Kills
    /\ kills' = kills + 1
    /\ pc' = "idle"
    /\ UNCHANGED <<files, exp, loaded, dir, cell, fails, edits>>

Edit ==
    /\ pc = "idle"
    /\ edits < Edits
    /\ edits' = edits + 1
    /\ \/ config' \in Config \ {config} /\ UNCHANGED built
       \/ /\ \E k \in Key \ Builtin : \E b \in Build \ {built[k]} :
                built' = [built EXCEPT ![k] = b]
          /\ UNCHANGED config
    /\ UNCHANGED <<rtapp, exp, loaded, pc, dir, cell, fails, kills>>

(* repm gen-config *)
GenConfig ==
    /\ pc = "idle"
    /\ ~rtapp
    /\ rtapp' = TRUE
    /\ UNCHANGED <<config, built, exp, loaded, pc, dir, cell, bounds>>

Run ==
    \/ OpenProvenance \/ FillProvenance \/ OpenSnapshot \/ FillSnapshot
    \/ SkipCell \/ StartPinned \/ RunRtapp \/ StopScheduler \/ RunElsewhere
    \/ OpenCsv \/ FillCsv \/ MarkDone \/ CellFailed \/ Finish

Next ==
    \/ \E v \in 1 .. Versions : Resume(v)
    \/ NewVersion \/ Run \/ Kill \/ Edit \/ GenConfig

(* "Re-run to retry failed cells": the user does, in the newest            *)
(* experiment, and has made the rt-app config at some time.                *)
Spec ==
    /\ Init
    /\ [][Next]_vars
    /\ WF_vars(Run) /\ SF_vars(Resume(Len(exp))) /\ SF_vars(GenConfig)

-----------------------------------------------------------------------------
(* Properties *)

(* A file that is there and has been written to its end. *)
IsWhole(csv) == csv \notin {Absent, Torn}

(* A marker vouches for a whole CSV, wherever a run was killed; not for    *)
(* measurements in it (MarkedIsMeasured).                                  *)
DoneHasCsv == \A v \in DOMAIN exp : \A c \in exp[v].done : IsWhole(exp[v].csv[c])

(* "An empty CSV or a CSV with only a placeholder row does NOT get a .done *)
(* marker.  Only successful data collection does."                         *)
MarkedIsMeasured == \A v \in DOMAIN exp : \A c \in exp[v].done : exp[v].csv[c] # {}

(* What a marker vouches for is final: no later run, resumed or retried,   *)
(* touches it.                                                             *)
DataSealed ==
    [][\A v \in DOMAIN exp : \A c \in exp[v].done :
          c \in exp'[v].done /\ exp'[v].csv[c] = exp[v].csv[c]]_vars

(* "The config_snapshot.toml is the authoritative frozen config": where    *)
(* the snapshot is that of the provenance (or torn), every row of the      *)
(* experiment was measured with the config and the builds of its           *)
(* provenance, over kills, edits, rebuilds and failed attempts.            *)
SnapshotSeals ==
    \A v \in DOMAIN exp :
        LET e == exp[v] IN
        (e.provenance \notin {Absent, Torn} /\ e.snapshot \in {e.provenance.config, Torn})
            => \A c \in e.done : \A m \in e.csv[c] :
                  m.config = e.provenance.config
                    /\ (Matrix[c].key \notin Builtin =>
                          m.built = e.provenance.built[Matrix[c].key])

(* "Re-run to retry failed cells": over kills at any step and failures, a  *)
(* user who re-runs gets through the matrix - every cell but those of the  *)
(* mode that is not implemented has an attempt that succeeds and its       *)
(* marker - unless what was sealed has changed.  What the marker is for    *)
(* may hold no measurement, and is then not retried.                       *)
MatrixCompletes ==
    <>[](exp # <<>> /\ Resumable(Last(exp)))
        => <>(exp # <<>> /\ {c \in Cell : Matrix[c].mode # "rtapp_vm"} \subseteq Last(exp).done)

=============================================================================
