-------------------------- MODULE ExperimentProofs --------------------------
(***************************************************************************)
(* What an experiment directory vouches for, for any matrix and any number *)
(* of kills, edits and failures.                                           *)
(***************************************************************************)
EXTENDS Experiment, TLAPS

Directory == [provenance : Provenance \cup {Absent, Torn},
              snapshot   : Config \cup {Absent, Torn},
              done       : SUBSET Cell,
              csv        : [Cell -> (SUBSET Row) \cup {Absent, Torn}],
              logs       : [Cell -> SUBSET Row]]

\* Control points of a run at a cell.
AtCell == {"workload", "stop", "stopFailed", "collect", "fillCsv", "mark", "failed"}

PCs == {"idle", "provenance", "fillProvenance", "snapshot", "fillSnapshot", "matrix"}
         \cup AtCell

TypeOK ==
    /\ config \in Config
    /\ built \in [Key -> Build]
    /\ exp \in Seq(Directory)
    /\ loaded \subseteq Key
    /\ pc \in PCs
    /\ dir \in Nat
    /\ cell \in Nat

(***************************************************************************)
(* Of every directory: a marker has its CSV; while the config is not sealed *)
(* nothing has been measured; and where the snapshot is that of the         *)
(* provenance, what was measured - logs included, as a later attempt reads  *)
(* them - was measured with it, as far as sizes of binaries tell.           *)
(***************************************************************************)
MarkersHold(e) == \A c \in e.done : IsWhole(e.csv[c])

Unmeasured(e) == \A c \in Cell : e.logs[c] = {} /\ ~IsWhole(e.csv[c])

Sealed(e) == e.provenance \notin {Absent, Torn} /\ e.snapshot \in {e.provenance.config, Torn}

UnderSeal(e, c, m) ==
    /\ m.config = e.provenance.config
    /\ Matrix[c].key \notin Builtin =>
          SameSize(m.built, e.provenance.built[Matrix[c].key])

DirInv(e) ==
    /\ MarkersHold(e)
    /\ e.provenance \in {Absent, Torn} \/ e.snapshot = Absent => Unmeasured(e)
    /\ Sealed(e) => \A c \in Cell :
          /\ \A m \in e.logs[c] : UnderSeal(e, c, m)
          /\ IsWhole(e.csv[c]) => \A m \in e.csv[c] : UnderSeal(e, c, m)

(***************************************************************************)
(* Of the run under way: what it may still find in its directory, and that  *)
(* a cell it is at has no marker.                                           *)
(***************************************************************************)
SameBuilds(e) == \A k \in Key \ Builtin : SameSize(built[k], e.provenance.built[k])

RunInv ==
    /\ pc # "idle" => dir \in DOMAIN exp
    /\ pc = "provenance" => Resumable(exp[dir])
    /\ pc = "fillProvenance" => exp[dir].provenance = Torn
    /\ pc \in {"snapshot", "fillSnapshot", "matrix"} \cup AtCell =>
          exp[dir].provenance \in Provenance /\ SameBuilds(exp[dir])
    /\ pc = "snapshot" /\ exp[dir].snapshot # Absent => config = exp[dir].provenance.config
    /\ pc = "fillSnapshot" => exp[dir].snapshot = Torn
    /\ pc \in {"matrix"} \cup AtCell =>
          /\ exp[dir].snapshot # Absent
          /\ Sealed(exp[dir]) => config = exp[dir].provenance.config
    /\ pc \in AtCell => cell \in Cell /\ cell \notin exp[dir].done
    /\ pc = "mark" => IsWhole(exp[dir].csv[cell])

IInv == TypeOK /\ RunInv /\ \A v \in DOMAIN exp : DirInv(exp[v])

(***************************************************************************)
(* Every cell of the matrix is of a scheduler asked for.                    *)
(***************************************************************************)
LEMMA MatrixKeys == \A c \in Cell : Matrix[c].key \in Key
<1> SUFFICES ASSUME NEW c \in Cell
             PROVE  Matrix[c].key \in Key
  OBVIOUS
<1> DEFINE n == (c - 1) \div Reps
<1>1. Len(Keys) \in Nat /\ Len(Modes) \in Nat /\ Reps \in Nat
  BY ExperimentAssumption
<1>2. Len(Keys) # 0 /\ Reps # 0
  BY <1>1 DEF Cell
<1>3. c - 1 \in Nat
  BY <1>1 DEF Cell
<1>4. n \in Nat
  BY <1>1, <1>2, <1>3
<1> HIDE DEF n
<1>5. (n % Len(Keys)) + 1 \in 1 .. Len(Keys)
  BY <1>1, <1>2, <1>4
<1>6. Matrix[c].key = Keys[(n % Len(Keys)) + 1]
  BY DEF Matrix, n
<1> QED
  BY <1>5, <1>6, ExperimentAssumption DEF Key, Range

(***************************************************************************)
(* Writing a directory leaves the others alone.                             *)
(***************************************************************************)
LEMMA Update ==
    ASSUME exp \in Seq(Directory), dir \in DOMAIN exp, NEW d \in Directory,
           exp' = [exp EXCEPT ![dir] = d]
    PROVE  /\ exp' \in Seq(Directory)
           /\ DOMAIN exp' = DOMAIN exp
           /\ exp'[dir] = d
           /\ \A v \in DOMAIN exp : v # dir => exp'[v] = exp[v]
  OBVIOUS

LEMMA Fields ==
    ASSUME TypeOK, NEW v \in DOMAIN exp
    PROVE  /\ exp[v] \in Directory
           /\ exp[v].provenance \in Provenance \cup {Absent, Torn}
           /\ exp[v].snapshot \in Config \cup {Absent, Torn}
           /\ exp[v].done \subseteq Cell
           /\ exp[v].csv \in [Cell -> (SUBSET Row) \cup {Absent, Torn}]
           /\ exp[v].logs \in [Cell -> SUBSET Row]
<1>1. exp[v] \in Directory
  BY DEF TypeOK
<1> QED
  BY <1>1 DEF Directory

(***************************************************************************)
(* What a cell is measured with.                                            *)
(***************************************************************************)
LEMMA MeasuredRow ==
    ASSUME TypeOK, cell \in Cell
    PROVE  /\ Matrix[cell].key \in Key
           /\ Measured \in Row
           /\ [Measured EXCEPT !.loaded = {Here.key}] \in Row
           /\ Measured.config = config
           /\ Measured.built = built[Matrix[cell].key]
           /\ [Measured EXCEPT !.loaded = {Here.key}].config = config
           /\ [Measured EXCEPT !.loaded = {Here.key}].built = built[Matrix[cell].key]
<1>1. Matrix[cell].key \in Key
  BY MatrixKeys
<1> QED
  BY <1>1 DEF TypeOK, Row, Measured, Here

(***************************************************************************)
(* The actions that write to the directory of the run, and the fields they  *)
(* change.                                                                  *)
(***************************************************************************)
Writes(d) == d \in Directory /\ exp' = [exp EXCEPT ![dir] = d]

LEMMA ProvenanceWrites ==
    ASSUME TypeOK, RunInv, pc # "idle", NEW p \in Provenance \cup {Absent, Torn},
           exp' = [exp EXCEPT ![dir].provenance = p]
    PROVE  \E d \in Directory :
              /\ Writes(d)
              /\ d.provenance = p
              /\ d.snapshot = exp[dir].snapshot
              /\ d.done = exp[dir].done /\ d.csv = exp[dir].csv /\ d.logs = exp[dir].logs
<1> DEFINE d == [exp[dir] EXCEPT !.provenance = p]
<1>1. exp[dir] \in Directory
  BY Fields DEF RunInv
<1>2. d \in Directory
  BY <1>1 DEF Directory
<1>3. /\ d.provenance = p
      /\ d.snapshot = exp[dir].snapshot
      /\ d.done = exp[dir].done /\ d.csv = exp[dir].csv /\ d.logs = exp[dir].logs
  BY <1>1 DEF Directory
<1>4. Writes(d)
  BY <1>2 DEF Writes
<1> QED
  BY <1>2, <1>3, <1>4

LEMMA SnapshotWrites ==
    ASSUME TypeOK, RunInv, pc # "idle", NEW c \in Config \cup {Absent, Torn},
           exp' = [exp EXCEPT ![dir].snapshot = c]
    PROVE  \E d \in Directory :
              /\ Writes(d)
              /\ d.snapshot = c
              /\ d.provenance = exp[dir].provenance
              /\ d.done = exp[dir].done /\ d.csv = exp[dir].csv /\ d.logs = exp[dir].logs
<1> DEFINE d == [exp[dir] EXCEPT !.snapshot = c]
<1>1. exp[dir] \in Directory
  BY Fields DEF RunInv
<1>2. d \in Directory
  BY <1>1 DEF Directory
<1>3. /\ d.snapshot = c
      /\ d.provenance = exp[dir].provenance
      /\ d.done = exp[dir].done /\ d.csv = exp[dir].csv /\ d.logs = exp[dir].logs
  BY <1>1 DEF Directory
<1>4. Writes(d)
  BY <1>2 DEF Writes
<1> QED
  BY <1>2, <1>3, <1>4

LEMMA LogWrites ==
    ASSUME TypeOK, RunInv, pc # "idle", cell \in Cell, NEW rows \in SUBSET Row,
           exp' = [exp EXCEPT ![dir].logs[cell] = @ \cup rows]
    PROVE  \E d \in Directory :
              /\ Writes(d)
              /\ d.logs = [exp[dir].logs EXCEPT ![cell] = @ \cup rows]
              /\ d.provenance = exp[dir].provenance /\ d.snapshot = exp[dir].snapshot
              /\ d.done = exp[dir].done /\ d.csv = exp[dir].csv
<1> DEFINE new == [exp[dir].logs EXCEPT ![cell] = @ \cup rows]
           d == [exp[dir] EXCEPT !.logs = new]
<1>1. exp[dir] \in Directory /\ exp[dir].logs \in [Cell -> SUBSET Row]
  BY Fields DEF RunInv
<1>2. new \in [Cell -> SUBSET Row]
  BY <1>1
<1>3. exp' = [exp EXCEPT ![dir] = d]
  OBVIOUS
<1> HIDE DEF new
<1>4. d \in Directory
  BY <1>1, <1>2 DEF Directory
<1>5. /\ d.logs = new
      /\ d.provenance = exp[dir].provenance /\ d.snapshot = exp[dir].snapshot
      /\ d.done = exp[dir].done /\ d.csv = exp[dir].csv
  BY <1>1 DEF Directory
<1>6. Writes(d)
  BY <1>3, <1>4 DEF Writes
<1> QED
  BY <1>4, <1>5, <1>6 DEF new

LEMMA CsvWrites ==
    ASSUME TypeOK, RunInv, pc # "idle", cell \in Cell,
           NEW file \in (SUBSET Row) \cup {Absent, Torn},
           exp' = [exp EXCEPT ![dir].csv[cell] = file]
    PROVE  \E d \in Directory :
              /\ Writes(d)
              /\ d.csv = [exp[dir].csv EXCEPT ![cell] = file]
              /\ d.provenance = exp[dir].provenance /\ d.snapshot = exp[dir].snapshot
              /\ d.done = exp[dir].done /\ d.logs = exp[dir].logs
<1> DEFINE new == [exp[dir].csv EXCEPT ![cell] = file]
           d == [exp[dir] EXCEPT !.csv = new]
<1>1. exp[dir] \in Directory /\ exp[dir].csv \in [Cell -> (SUBSET Row) \cup {Absent, Torn}]
  BY Fields DEF RunInv
<1>2. new \in [Cell -> (SUBSET Row) \cup {Absent, Torn}]
  BY <1>1
<1>3. exp' = [exp EXCEPT ![dir] = d]
  OBVIOUS
<1> HIDE DEF new
<1>4. d \in Directory
  BY <1>1, <1>2 DEF Directory
<1>5. /\ d.csv = new
      /\ d.provenance = exp[dir].provenance /\ d.snapshot = exp[dir].snapshot
      /\ d.done = exp[dir].done /\ d.logs = exp[dir].logs
  BY <1>1 DEF Directory
<1>6. Writes(d)
  BY <1>3, <1>4 DEF Writes
<1> QED
  BY <1>4, <1>5, <1>6 DEF new

LEMMA MarkWrites ==
    ASSUME TypeOK, RunInv, pc # "idle", cell \in Cell,
           exp' = [exp EXCEPT ![dir].done = @ \cup {cell}]
    PROVE  \E d \in Directory :
              /\ Writes(d)
              /\ d.done = exp[dir].done \cup {cell}
              /\ d.provenance = exp[dir].provenance /\ d.snapshot = exp[dir].snapshot
              /\ d.csv = exp[dir].csv /\ d.logs = exp[dir].logs
<1> DEFINE d == [exp[dir] EXCEPT !.done = @ \cup {cell}]
<1>1. exp[dir] \in Directory /\ exp[dir].done \subseteq Cell
  BY Fields DEF RunInv
<1>2. d \in Directory
  BY <1>1 DEF Directory
<1>3. /\ d.done = exp[dir].done \cup {cell}
      /\ d.provenance = exp[dir].provenance /\ d.snapshot = exp[dir].snapshot
      /\ d.csv = exp[dir].csv /\ d.logs = exp[dir].logs
  BY <1>1 DEF Directory
<1>4. Writes(d)
  BY <1>2 DEF Writes
<1> QED
  BY <1>2, <1>3, <1>4

LEMMA FailureWrites ==
    ASSUME TypeOK, RunInv, pc # "idle", cell \in Cell,
           exp' = [exp EXCEPT ![dir].done = @ \ {cell}, ![dir].csv[cell] = Absent]
    PROVE  \E d \in Directory :
              /\ Writes(d)
              /\ d.done = exp[dir].done \ {cell}
              /\ d.csv = [exp[dir].csv EXCEPT ![cell] = Absent]
              /\ d.provenance = exp[dir].provenance /\ d.snapshot = exp[dir].snapshot
              /\ d.logs = exp[dir].logs
<1> DEFINE new == [exp[dir].csv EXCEPT ![cell] = Absent]
           d == [exp[dir] EXCEPT !.done = @ \ {cell}, !.csv = new]
<1>1. /\ exp[dir] \in Directory
      /\ exp[dir].csv \in [Cell -> (SUBSET Row) \cup {Absent, Torn}]
      /\ exp[dir].done \subseteq Cell
      /\ dir \in DOMAIN exp
  BY Fields DEF RunInv
<1>2. new \in [Cell -> (SUBSET Row) \cup {Absent, Torn}]
  BY <1>1
<1> HIDE DEF new
<1>3. /\ d.done = exp[dir].done \ {cell}
      /\ d.csv = new
      /\ d.provenance = exp[dir].provenance /\ d.snapshot = exp[dir].snapshot
      /\ d.logs = exp[dir].logs
  BY <1>1 DEF Directory
<1>4. d \in Directory
  BY <1>1, <1>2 DEF Directory
<1>5. exp' = [exp EXCEPT ![dir] = d]
  BY <1>1 DEF TypeOK, new, Directory
<1>6. Writes(d)
  BY <1>4, <1>5 DEF Writes
<1> QED
  BY <1>3, <1>4, <1>6 DEF new

(***************************************************************************)
(* A step keeps what a marker vouches for.                                  *)
(***************************************************************************)
Keeps(e, d) == \A c \in e.done : c \in d.done /\ d.csv[c] = e.csv[c]

Sealing == \A v \in DOMAIN exp : Keeps(exp[v], exp'[v])

Good == IInv' /\ Sealing

LEMMA WriteKeeps ==
    ASSUME IInv, pc # "idle", NEW d \in Directory, Writes(d), DirInv(d), Keeps(exp[dir], d)
    PROVE  /\ exp' \in Seq(Directory)
           /\ DOMAIN exp' = DOMAIN exp
           /\ exp'[dir] = d
           /\ \A v \in DOMAIN exp' : DirInv(exp'[v])
           /\ Sealing
<1>1. dir \in DOMAIN exp /\ exp \in Seq(Directory)
  BY DEF IInv, TypeOK, RunInv
<1>2. /\ exp' \in Seq(Directory)
      /\ DOMAIN exp' = DOMAIN exp
      /\ exp'[dir] = d
      /\ \A v \in DOMAIN exp : v # dir => exp'[v] = exp[v]
  BY <1>1, Update DEF Writes
<1>3. \A v \in DOMAIN exp : DirInv(exp[v])
  BY DEF IInv
<1>4. \A v \in DOMAIN exp : Keeps(exp[v], exp[v])
  BY DEF Keeps
<1> QED
  BY <1>2, <1>3, <1>4 DEF Sealing

(* Steps that leave every directory as it is. *)
LEMMA ReadKeeps ==
    ASSUME IInv, UNCHANGED exp
    PROVE  /\ exp' \in Seq(Directory)
           /\ \A v \in DOMAIN exp' : DirInv(exp'[v])
           /\ Sealing
BY DEF IInv, TypeOK, Sealing, Keeps

LEMMA RunReads ==
    ASSUME IInv,
           SkipCell \/ StartPinned \/ StopScheduler \/ RunElsewhere \/ Finish
    PROVE  Good
<1> SUFFICES TypeOK' /\ RunInv'
  <2>1. UNCHANGED exp
    BY DEF SkipCell, StartPinned, StopScheduler, RunElsewhere, Finish
  <2> QED
    BY <2>1, ReadKeeps DEF Good, IInv
<1> USE DEF IInv, TypeOK, RunInv, PCs, AtCell, Sealed, SameBuilds, files, bounds
<1>1. CASE SkipCell
  BY <1>1 DEF SkipCell, Done, Advance, Cell
<1>2. CASE StartPinned
  <2>1. Here.key \in Key
    BY <1>2, MatrixKeys DEF StartPinned, Here
  <2> QED
    BY <1>2, <2>1 DEF StartPinned, Done
<1>3. CASE StopScheduler
  BY <1>3 DEF StopScheduler
<1>4. CASE RunElsewhere
  BY <1>4 DEF RunElsewhere, Done
<1>5. CASE Finish
  BY <1>5 DEF Finish, Step
<1> QED
  BY <1>1, <1>2, <1>3, <1>4, <1>5

(* The environment, and a run that starts. *)
LEMMA EmptyDirectory == EmptyDir \in Directory /\ DirInv(EmptyDir) /\ Resumable(EmptyDir)
<1>1. EmptyDir \in Directory
  BY DEF EmptyDir, Directory
<1>2. /\ EmptyDir.provenance = Absent /\ EmptyDir.snapshot = Absent /\ EmptyDir.done = {}
      /\ \A c \in Cell : EmptyDir.csv[c] = Absent /\ EmptyDir.logs[c] = {}
  BY DEF EmptyDir
<1> HIDE DEF EmptyDir
<1> QED
  BY <1>1, <1>2 DEF DirInv, MarkersHold, Unmeasured, Sealed, IsWhole, Resumable

LEMMA BetweenRuns ==
    ASSUME IInv,
           (\E v \in 1 .. Versions : Resume(v)) \/ NewVersion \/ Kill \/ Edit \/ GenConfig
    PROVE  Good
<1>1. CASE \E v \in 1 .. Versions : Resume(v)
  <2>1. UNCHANGED exp
    BY <1>1 DEF Resume
  <2>2. TypeOK' /\ RunInv'
    BY <1>1 DEF IInv, TypeOK, RunInv, Resume, Start, Resumable, files, PCs, AtCell
  <2> QED
    BY <2>1, <2>2, ReadKeeps DEF Good, IInv
<1>2. CASE NewVersion
  <2>1. exp \in Seq(Directory) /\ \A v \in DOMAIN exp : DirInv(exp[v])
    BY DEF IInv, TypeOK
  <2>2. exp' = Append(exp, EmptyDir) /\ dir' = Len(exp) + 1
    BY <1>2 DEF NewVersion, Start
  <2>3. /\ exp' \in Seq(Directory)
        /\ DOMAIN exp' = 1 .. Len(exp) + 1
        /\ exp'[dir'] = EmptyDir
        /\ dir' \in Nat
        /\ \A v \in DOMAIN exp : v \in DOMAIN exp' /\ exp'[v] = exp[v]
    BY <2>1, <2>2, EmptyDirectory
  <2>4. \A v \in DOMAIN exp' : DirInv(exp'[v])
    BY <2>1, <2>2, <2>3, EmptyDirectory
  <2>5. Sealing
    BY <2>3 DEF Sealing, Keeps
  <2>6. TypeOK'
    BY <1>2, <2>3 DEF IInv, TypeOK, NewVersion, Start, files, PCs
  <2>7. UNCHANGED <<config, built>> /\ pc' = "provenance"
    BY <1>2 DEF NewVersion, Start, files
  <2>8. Resumable(exp[dir])'
    <3>1. exp'[dir'].provenance = Absent
      BY <2>3 DEF EmptyDir
    <3> QED
      BY <3>1 DEF Resumable
  <2>9. RunInv'
    BY <2>1, <2>2, <2>3, <2>7, <2>8 DEF RunInv, AtCell
  <2> QED
    BY <2>4, <2>5, <2>6, <2>9 DEF Good, IInv
<1>3. CASE Kill \/ Edit \/ GenConfig
  <2>1. UNCHANGED exp
    BY <1>3 DEF Kill, Edit, GenConfig
  <2>2. TypeOK' /\ RunInv'
    BY <1>3, ExperimentAssumption
       DEF IInv, TypeOK, RunInv, Kill, Edit, GenConfig, files, bounds, PCs, AtCell
  <2> QED
    BY <2>1, <2>2, ReadKeeps DEF Good, IInv
<1> QED
  BY <1>1, <1>2, <1>3

(***************************************************************************)
(* The steps of a run that write to its directory.                          *)
(***************************************************************************)
LEMMA ProvenanceStep ==
    ASSUME IInv, OpenProvenance \/ FillProvenance
    PROVE  Good
<1> USE DEF files, bounds, PCs, AtCell
<1> dir \in DOMAIN exp /\ pc # "idle" /\ DirInv(exp[dir]) /\ TypeOK /\ RunInv
  BY DEF IInv, RunInv, OpenProvenance, FillProvenance
<1>1. CASE OpenProvenance /\ exp[dir].provenance # Absent
  <2>1. UNCHANGED exp /\ pc' = "snapshot" /\ UNCHANGED <<config, built, loaded, dir, cell>>
    BY <1>1 DEF OpenProvenance, Step
  <2>2. exp[dir].provenance \in Provenance
    BY <1>1, Fields DEF OpenProvenance, RunInv, Resumable
  <2>3. TypeOK' /\ RunInv'
    BY <1>1, <2>1, <2>2 DEF OpenProvenance, TypeOK, RunInv, Resumable, SameBuilds
  <2> QED
    BY <2>1, <2>3, ReadKeeps DEF Good, IInv
<1>2. CASE OpenProvenance /\ exp[dir].provenance = Absent
  <2>1. /\ exp' = [exp EXCEPT ![dir].provenance = Torn]
        /\ pc' = "fillProvenance" /\ UNCHANGED <<config, built, loaded, dir, cell>>
    BY <1>2 DEF OpenProvenance, Step
  <2>2. PICK d \in Directory :
           /\ Writes(d)
           /\ d.provenance = Torn
           /\ d.snapshot = exp[dir].snapshot
           /\ d.done = exp[dir].done /\ d.csv = exp[dir].csv /\ d.logs = exp[dir].logs
    BY <2>1, ProvenanceWrites
  <2>3. DirInv(d) /\ Keeps(exp[dir], d)
    BY <1>2, <2>2 DEF DirInv, MarkersHold, Unmeasured, Sealed, Keeps
  <2>4. /\ exp' \in Seq(Directory)
        /\ DOMAIN exp' = DOMAIN exp
        /\ exp'[dir] = d
        /\ \A v \in DOMAIN exp' : DirInv(exp'[v])
        /\ Sealing
    BY <2>2, <2>3, WriteKeeps
  <2>5. TypeOK' /\ RunInv'
    BY <2>1, <2>2, <2>4 DEF TypeOK, RunInv
  <2> QED
    BY <2>4, <2>5 DEF Good, IInv
<1>3. CASE FillProvenance
  <2> DEFINE p == [config |-> config, built |-> built]
  <2>1. /\ exp' = [exp EXCEPT ![dir].provenance = p]
        /\ pc' = "snapshot" /\ UNCHANGED <<config, built, loaded, dir, cell>>
    BY <1>3 DEF FillProvenance, Step
  <2>2. p \in Provenance /\ p.config = config /\ p.built = built
    BY DEF TypeOK, Provenance
  <2> HIDE DEF p
  <2>3. PICK d \in Directory :
           /\ Writes(d)
           /\ d.provenance = p
           /\ d.snapshot = exp[dir].snapshot
           /\ d.done = exp[dir].done /\ d.csv = exp[dir].csv /\ d.logs = exp[dir].logs
    BY <2>1, <2>2, ProvenanceWrites
  <2>4. exp[dir].provenance = Torn
    BY <1>3 DEF FillProvenance, RunInv
  <2>5. DirInv(d) /\ Keeps(exp[dir], d)
    BY <2>3, <2>4 DEF DirInv, MarkersHold, Unmeasured, Sealed, Keeps
  <2>6. /\ exp' \in Seq(Directory)
        /\ DOMAIN exp' = DOMAIN exp
        /\ exp'[dir] = d
        /\ \A v \in DOMAIN exp' : DirInv(exp'[v])
        /\ Sealing
    BY <2>3, <2>5, WriteKeeps
  <2>7. TypeOK' /\ RunInv'
    BY <2>1, <2>2, <2>3, <2>6 DEF TypeOK, RunInv, SameBuilds, SameSize
  <2> QED
    BY <2>6, <2>7 DEF Good, IInv
<1> QED
  BY <1>1, <1>2, <1>3

LEMMA SnapshotStep ==
    ASSUME IInv, OpenSnapshot \/ FillSnapshot
    PROVE  Good
<1> USE DEF files, bounds, PCs, AtCell
<1>1. /\ dir \in DOMAIN exp /\ pc # "idle" /\ DirInv(exp[dir]) /\ TypeOK /\ RunInv
      /\ exp[dir].provenance \in Provenance /\ SameBuilds(exp[dir])
      /\ exp[dir].provenance \notin {Absent, Torn}
  BY ExperimentAssumption DEF IInv, RunInv, OpenSnapshot, FillSnapshot
<1> USE <1>1
<1>2. CASE OpenSnapshot /\ exp[dir].snapshot # Absent
  <2>1. UNCHANGED exp /\ pc' = "matrix" /\ UNCHANGED <<config, built, loaded, dir, cell>>
    BY <1>2 DEF OpenSnapshot, Step
  <2>2. TypeOK' /\ RunInv'
    BY <1>2, <2>1 DEF OpenSnapshot, TypeOK, RunInv, SameBuilds, Sealed
  <2> QED
    BY <2>1, <2>2, ReadKeeps DEF Good, IInv
<1>3. CASE OpenSnapshot /\ exp[dir].snapshot = Absent
  <2>1. /\ exp' = [exp EXCEPT ![dir].snapshot = Torn]
        /\ pc' = "fillSnapshot" /\ UNCHANGED <<config, built, loaded, dir, cell>>
    BY <1>3 DEF OpenSnapshot, Step
  <2>2. PICK d \in Directory :
           /\ Writes(d)
           /\ d.snapshot = Torn
           /\ d.provenance = exp[dir].provenance
           /\ d.done = exp[dir].done /\ d.csv = exp[dir].csv /\ d.logs = exp[dir].logs
    BY <2>1, SnapshotWrites
  <2>3. DirInv(d) /\ Keeps(exp[dir], d)
    BY <1>3, <2>2 DEF DirInv, MarkersHold, Unmeasured, Sealed, Keeps
  <2>4. /\ exp' \in Seq(Directory)
        /\ DOMAIN exp' = DOMAIN exp
        /\ exp'[dir] = d
        /\ \A v \in DOMAIN exp' : DirInv(exp'[v])
        /\ Sealing
    BY <2>2, <2>3, WriteKeeps
  <2>5. TypeOK' /\ RunInv'
    BY <2>1, <2>2, <2>4 DEF TypeOK, RunInv, SameBuilds
  <2> QED
    BY <2>4, <2>5 DEF Good, IInv
<1>4. CASE FillSnapshot
  <2>1. /\ exp' = [exp EXCEPT ![dir].snapshot = config]
        /\ pc' = "matrix" /\ UNCHANGED <<config, built, loaded, dir, cell>>
    BY <1>4 DEF FillSnapshot, Step
  <2>2. config \in Config /\ config \notin {Absent, Torn}
    BY ExperimentAssumption DEF TypeOK
  <2>3. PICK d \in Directory :
           /\ Writes(d)
           /\ d.snapshot = config
           /\ d.provenance = exp[dir].provenance
           /\ d.done = exp[dir].done /\ d.csv = exp[dir].csv /\ d.logs = exp[dir].logs
    BY <2>1, <2>2, SnapshotWrites
  <2>4. exp[dir].snapshot = Torn
    BY <1>4 DEF FillSnapshot, RunInv
  <2>5. DirInv(d) /\ Keeps(exp[dir], d)
    BY <2>2, <2>3, <2>4 DEF DirInv, MarkersHold, Sealed, UnderSeal, Keeps
  <2>6. /\ exp' \in Seq(Directory)
        /\ DOMAIN exp' = DOMAIN exp
        /\ exp'[dir] = d
        /\ \A v \in DOMAIN exp' : DirInv(exp'[v])
        /\ Sealing
    BY <2>3, <2>5, WriteKeeps
  <2>7. TypeOK' /\ RunInv'
    BY <2>1, <2>2, <2>3, <2>6 DEF TypeOK, RunInv, SameBuilds, Sealed
  <2> QED
    BY <2>6, <2>7 DEF Good, IInv
<1> QED
  BY <1>2, <1>3, <1>4

(* A row that is measured now is under the seal. *)
LEMMA MeasuredUnderSeal ==
    ASSUME IInv, pc \in AtCell, Sealed(exp[dir]), NEW m \in Row,
           m.config = config, m.built = built[Matrix[cell].key]
    PROVE  UnderSeal(exp[dir], cell, m)
<1>1. cell \in Cell /\ config = exp[dir].provenance.config /\ SameBuilds(exp[dir])
  BY DEF IInv, RunInv
<1>2. Matrix[cell].key \in Key
  BY <1>1, MatrixKeys
<1> QED
  BY <1>1, <1>2 DEF UnderSeal, SameBuilds

LEMMA CellStep ==
    ASSUME IInv, RunRtapp \/ OpenCsv \/ FillCsv \/ MarkDone \/ CellFailed
    PROVE  Good
<1> USE DEF files, bounds, PCs, AtCell
<1>1. /\ dir \in DOMAIN exp /\ pc \in AtCell /\ pc # "idle"
      /\ DirInv(exp[dir]) /\ TypeOK /\ RunInv
      /\ exp[dir].provenance \in Provenance /\ exp[dir].provenance \notin {Absent, Torn}
      /\ exp[dir].snapshot # Absent
      /\ cell \in Cell /\ cell \notin exp[dir].done
      /\ exp[dir].done \subseteq Cell
      /\ exp[dir].csv \in [Cell -> (SUBSET Row) \cup {Absent, Torn}]
      /\ exp[dir].logs \in [Cell -> SUBSET Row]
  <2>1. dir \in DOMAIN exp /\ pc \in AtCell /\ TypeOK /\ RunInv
    BY DEF IInv, RunInv, RunRtapp, StopScheduler, OpenCsv, FillCsv, MarkDone, CellFailed, Step
  <2>2. DirInv(exp[dir])
    BY <2>1 DEF IInv
  <2>3. exp[dir].provenance \in Provenance /\ exp[dir].provenance \notin {Absent, Torn}
    BY <2>1, ExperimentAssumption DEF RunInv
  <2> QED
    BY <2>1, <2>2, <2>3, Fields DEF RunInv
<1> USE <1>1
<1> DEFINE Written(d) ==
             /\ Writes(d)
             /\ d.provenance = exp[dir].provenance /\ d.snapshot = exp[dir].snapshot
<1>2. ASSUME NEW d \in Directory, Written(d), DirInv(d), Keeps(exp[dir], d), TypeOK',
             exp' \in Seq(Directory), exp'[dir] = d, DOMAIN exp' = DOMAIN exp,
             UNCHANGED <<config, built, dir>>,
             pc' \in AtCell \cup {"matrix"},
             pc' \in AtCell => cell' = cell /\ cell \notin d.done,
             pc' = "mark" => IsWhole(d.csv[cell])
      PROVE  RunInv'
  BY <1>2 DEF RunInv, SameBuilds, Sealed
<1>3. CASE RunRtapp
  <2>1. PICK rows \in SUBSET {Measured} :
          exp' = [exp EXCEPT ![dir].logs[cell] = @ \cup rows]
    BY <1>3 DEF RunRtapp
  <2>2. /\ pc' \in {"stop", "stopFailed"} /\ UNCHANGED <<config, built, loaded, dir, cell>>
    BY <1>3 DEF RunRtapp
  <2>3. Measured \in Row /\ rows \in SUBSET Row
    BY <2>1, MeasuredRow
  <2>4. PICK d \in Directory :
           /\ Writes(d)
           /\ d.logs = [exp[dir].logs EXCEPT ![cell] = @ \cup rows]
           /\ d.provenance = exp[dir].provenance /\ d.snapshot = exp[dir].snapshot
           /\ d.done = exp[dir].done /\ d.csv = exp[dir].csv
    BY <2>1, <2>3, LogWrites
  <2>5. Sealed(exp[dir]) => \A m \in rows : UnderSeal(exp[dir], cell, m)
    BY <2>1, <2>3, MeasuredRow, MeasuredUnderSeal
  <2>6. DirInv(d) /\ Keeps(exp[dir], d)
    BY <2>4, <2>5 DEF DirInv, MarkersHold, Sealed, UnderSeal, Keeps
  <2>7. /\ exp' \in Seq(Directory)
        /\ DOMAIN exp' = DOMAIN exp
        /\ exp'[dir] = d
        /\ \A v \in DOMAIN exp' : DirInv(exp'[v])
        /\ Sealing
    BY <2>4, <2>6, WriteKeeps
  <2>8. TypeOK'
    BY <2>2, <2>7 DEF TypeOK
  <2>9. RunInv'
    BY <1>2, <2>2, <2>4, <2>6, <2>7, <2>8
  <2> QED
    BY <2>7, <2>8, <2>9 DEF Good, IInv
<1>4. ASSUME NEW file \in (SUBSET Row) \cup {Absent, Torn},
             exp' = [exp EXCEPT ![dir].csv[cell] = file],
             Sealed(exp[dir]) /\ IsWhole(file) => \A m \in file : UnderSeal(exp[dir], cell, m),
             UNCHANGED <<config, built, loaded, dir, cell>>,
             pc' \in {"fillCsv", "mark"}, pc' = "mark" => IsWhole(file)
      PROVE  Good
  <2>1. PICK d \in Directory :
           /\ Writes(d)
           /\ d.csv = [exp[dir].csv EXCEPT ![cell] = file]
           /\ d.provenance = exp[dir].provenance /\ d.snapshot = exp[dir].snapshot
           /\ d.done = exp[dir].done /\ d.logs = exp[dir].logs
    BY <1>4, CsvWrites
  <2>2. d.csv[cell] = file /\ \A c \in Cell : c # cell => d.csv[c] = exp[dir].csv[c]
    BY <2>1
  <2>3. DirInv(d)
    <3>1. MarkersHold(d)
      BY <2>1, <2>2 DEF DirInv, MarkersHold
    <3>2. Sealed(d) => \A c \in Cell :
             /\ \A m \in d.logs[c] : UnderSeal(d, c, m)
             /\ IsWhole(d.csv[c]) => \A m \in d.csv[c] : UnderSeal(d, c, m)
      BY <1>4, <2>1, <2>2 DEF DirInv, Sealed, UnderSeal
    <3> QED
      BY <2>1, <3>1, <3>2 DEF DirInv
  <2>4. Keeps(exp[dir], d)
    BY <2>1, <2>2 DEF Keeps
  <2>5. /\ exp' \in Seq(Directory)
        /\ DOMAIN exp' = DOMAIN exp
        /\ exp'[dir] = d
        /\ \A v \in DOMAIN exp' : DirInv(exp'[v])
        /\ Sealing
    BY <2>1, <2>3, <2>4, WriteKeeps
  <2>6. TypeOK'
    BY <1>4, <2>5 DEF TypeOK
  <2>7. RunInv'
    BY <1>2, <1>4, <2>1, <2>2, <2>3, <2>4, <2>5, <2>6
  <2> QED
    BY <2>5, <2>6, <2>7 DEF Good, IInv
<1>5. CASE OpenCsv
  <2>1. /\ exp' = [exp EXCEPT ![dir].csv[cell] = Torn]
        /\ pc' = "fillCsv" /\ UNCHANGED <<config, built, loaded, dir, cell>>
    BY <1>5 DEF OpenCsv, Step
  <2> QED
    BY <1>4, <2>1 DEF IsWhole
<1>6. CASE FillCsv
  <2> DEFINE elsewhere == [Measured EXCEPT !.loaded = {Here.key}]
  <2>1. PICK file \in IF Here.mode = "rtapp_pinned" THEN {exp[dir].logs[cell]}
                      ELSE {{}, {elsewhere}} :
           exp' = [exp EXCEPT ![dir].csv[cell] = file]
    BY <1>6 DEF FillCsv
  <2>2. pc' = "mark" /\ UNCHANGED <<config, built, loaded, dir, cell>>
    BY <1>6 DEF FillCsv, Step
  <2>3. /\ elsewhere \in Row
        /\ elsewhere.config = config /\ elsewhere.built = built[Matrix[cell].key]
    BY MeasuredRow
  <2> HIDE DEF elsewhere
  <2>4. file = exp[dir].logs[cell] \/ file = {} \/ file = {elsewhere}
    BY <2>1
  <2>5. file \in SUBSET Row
    BY <2>3, <2>4
  <2>6. IsWhole(file)
    BY <2>5, ExperimentAssumption DEF IsWhole
  <2>7. Sealed(exp[dir]) => \A m \in file : UnderSeal(exp[dir], cell, m)
    BY <2>3, <2>4, MeasuredUnderSeal DEF DirInv
  <2> QED
    BY <1>4, <2>1, <2>2, <2>5, <2>6, <2>7
<1>7. CASE MarkDone
  <2>1. /\ exp' = [exp EXCEPT ![dir].done = @ \cup {cell}]
        /\ pc = "mark" /\ pc' = "matrix" /\ cell' = cell + 1
        /\ UNCHANGED <<config, built, loaded, dir>>
    BY <1>7 DEF MarkDone, Advance
  <2>2. PICK d \in Directory :
           /\ Writes(d)
           /\ d.done = exp[dir].done \cup {cell}
           /\ d.provenance = exp[dir].provenance /\ d.snapshot = exp[dir].snapshot
           /\ d.csv = exp[dir].csv /\ d.logs = exp[dir].logs
    BY <2>1, MarkWrites
  <2>3. IsWhole(exp[dir].csv[cell])
    BY <2>1 DEF RunInv
  <2>4. DirInv(d) /\ Keeps(exp[dir], d)
    BY <2>2, <2>3 DEF DirInv, MarkersHold, Sealed, UnderSeal, Keeps
  <2>5. /\ exp' \in Seq(Directory)
        /\ DOMAIN exp' = DOMAIN exp
        /\ exp'[dir] = d
        /\ \A v \in DOMAIN exp' : DirInv(exp'[v])
        /\ Sealing
    BY <2>2, <2>4, WriteKeeps
  <2>6. TypeOK'
    BY <2>1, <2>5 DEF TypeOK
  <2>7. RunInv'
    BY <1>2, <2>1, <2>2, <2>4, <2>5, <2>6
  <2> QED
    BY <2>5, <2>6, <2>7 DEF Good, IInv
<1>8. CASE CellFailed
  <2>1. /\ exp' = [exp EXCEPT ![dir].done = @ \ {cell}, ![dir].csv[cell] = Absent]
        /\ pc' = "matrix" /\ cell' = cell + 1
        /\ UNCHANGED <<config, built, loaded, dir>>
    BY <1>8 DEF CellFailed, Advance
  <2>2. PICK d \in Directory :
           /\ Writes(d)
           /\ d.done = exp[dir].done \ {cell}
           /\ d.csv = [exp[dir].csv EXCEPT ![cell] = Absent]
           /\ d.provenance = exp[dir].provenance /\ d.snapshot = exp[dir].snapshot
           /\ d.logs = exp[dir].logs
    BY <2>1, FailureWrites
  <2>3. d.csv[cell] = Absent /\ \A c \in Cell : c # cell => d.csv[c] = exp[dir].csv[c]
    BY <2>2
  <2>4. DirInv(d) /\ Keeps(exp[dir], d)
    BY <2>2, <2>3 DEF DirInv, MarkersHold, Sealed, UnderSeal, Keeps, IsWhole
  <2>5. /\ exp' \in Seq(Directory)
        /\ DOMAIN exp' = DOMAIN exp
        /\ exp'[dir] = d
        /\ \A v \in DOMAIN exp' : DirInv(exp'[v])
        /\ Sealing
    BY <2>2, <2>4, WriteKeeps
  <2>6. TypeOK'
    BY <2>1, <2>5 DEF TypeOK
  <2>7. RunInv'
    BY <1>2, <2>1, <2>2, <2>4, <2>5, <2>6
  <2> QED
    BY <2>5, <2>6, <2>7 DEF Good, IInv
<1> QED
  BY <1>3, <1>5, <1>6, <1>7, <1>8

LEMMA Initially == Init => IInv
<1> SUFFICES ASSUME Init PROVE IInv
  OBVIOUS
<1>1. exp = <<>> /\ exp \in Seq(Directory) /\ DOMAIN exp = {} /\ pc = "idle"
  BY DEF Init
<1>2. TypeOK
  BY <1>1 DEF Init, TypeOK, PCs
<1>3. RunInv
  BY <1>1 DEF RunInv, AtCell
<1> QED
  BY <1>1, <1>2, <1>3 DEF IInv

LEMMA Preserved == IInv /\ [Next]_vars => Good
<1> SUFFICES ASSUME IInv, [Next]_vars PROVE Good
  OBVIOUS
<1>1. CASE Run
  BY <1>1, RunReads, ProvenanceStep, SnapshotStep, CellStep DEF Run
<1>2. CASE (\E v \in 1 .. Versions : Resume(v)) \/ NewVersion \/ Kill \/ Edit \/ GenConfig
  BY <1>2, BetweenRuns
<1>3. CASE UNCHANGED vars
  <2>1. UNCHANGED exp
    BY <1>3 DEF vars
  <2>2. TypeOK' /\ RunInv'
    BY <1>3 DEF IInv, TypeOK, RunInv, Resumable, SameBuilds, Sealed, vars, files
  <2> QED
    BY <2>1, <2>2, ReadKeeps DEF Good, IInv
<1> QED
  BY <1>1, <1>2, <1>3 DEF Next

(***************************************************************************)
(* run.rs keeps the inductive invariant: what is in a directory follows     *)
(* from what a run finds and checks when it opens it.                       *)
(***************************************************************************)
THEOREM DirectoriesSound == Spec => []IInv
<1>1. Init => IInv
  BY Initially
<1>2. IInv /\ [Next]_vars => IInv'
  BY Preserved DEF Good
<1> QED
  BY <1>1, <1>2, PTL DEF Spec

(***************************************************************************)
(* The .done marker of a cell is written after its CSV is whole, wherever   *)
(* repm is killed.                                                          *)
(***************************************************************************)
THEOREM MarkersVouch == Spec => []DoneHasCsv
<1>1. IInv => DoneHasCsv
  BY DEF IInv, DirInv, MarkersHold, DoneHasCsv
<1> QED
  BY <1>1, DirectoriesSound, PTL

(***************************************************************************)
(* No run, resumed or retried, touches a cell that has its marker.          *)
(***************************************************************************)
THEOREM MarkedIsFinal == Spec => DataSealed
<1>1. IInv /\ [Next]_vars =>
        [\A v \in DOMAIN exp : \A c \in exp[v].done :
            c \in exp'[v].done /\ exp'[v].csv[c] = exp[v].csv[c]]_vars
  BY Preserved DEF Good, Sealing, Keeps
<1> QED
  BY <1>1, DirectoriesSound, PTL DEF Spec, DataSealed

(***************************************************************************)
(* Binaries of different builds that differ in size, every row of a sealed  *)
(* experiment was measured with the config and the builds of its            *)
(* provenance: check_experiment_resumable compares sizes only.              *)
(***************************************************************************)
THEOREM SealKept ==
    ASSUME \A b, d \in Build : Size[b] = Size[d] => b = d
    PROVE  Spec => []SnapshotSeals
<1>1. ASSUME IInv
      PROVE  SnapshotSeals
  <2> SUFFICES ASSUME NEW v \in DOMAIN exp, Sealed(exp[v]),
                      NEW c \in exp[v].done, NEW m \in exp[v].csv[c]
               PROVE  /\ m.config = exp[v].provenance.config
                      /\ Matrix[c].key \notin Builtin =>
                           m.built = exp[v].provenance.built[Matrix[c].key]
    BY DEF SnapshotSeals, Sealed
  <2>1. TypeOK /\ DirInv(exp[v])
    BY <1>1 DEF IInv
  <2>2. c \in Cell /\ IsWhole(exp[v].csv[c]) /\ exp[v].csv[c] \in SUBSET Row
    BY <2>1, Fields DEF DirInv, MarkersHold, IsWhole
  <2>3. m \in Row /\ UnderSeal(exp[v], c, m)
    BY <2>1, <2>2 DEF DirInv
  <2>4. exp[v].provenance \in Provenance
    BY <2>1, Fields DEF Sealed
  <2>5. m.built \in Build /\ exp[v].provenance.built \in [Key -> Build]
    BY <2>3, <2>4 DEF Row, Provenance
  <2>6. Matrix[c].key \in Key
    BY <2>2, MatrixKeys
  <2> QED
    BY <2>3, <2>5, <2>6 DEF UnderSeal, SameSize
<1> QED
  BY <1>1, DirectoriesSound, PTL

=============================================================================
