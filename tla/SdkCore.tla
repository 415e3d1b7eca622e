------------------------------ MODULE SdkCore ------------------------------
(***************************************************************************)
(* The core of the SDK (sdk/src/core): the documents of a directory are    *)
(* read (fs.ts), parsed (parser.ts), validated (validator.ts), folded into *)
(* a snapshot (state.ts) and compared with the one pushed before (diff.ts),*)
(* while they are edited.  Whoever receives the deltas is external.        *)
(***************************************************************************)
EXTENDS Integers, Sequences, FiniteSets, Functions

CONSTANTS
  Docs,      \* Docs[n]: the documents file n may hold, see Doc
  Dir,       \* Dir[n]: 0 for the top directory, or the number of its sub-directory
  MaxFiles,  \* bound: how many files there are
  MaxEdits   \* bound: how often one is written or deleted

Ids == {"a", "b", "Bad"}

Phases == {"ideation", "development", "testing", "review", "done"}

Statuses == {"not_started", "in_progress", "completed"}

(* The front matter as it is in the file, and the lines of ## Tasks.  The  *)
(* YAML of a malformed one does not parse; a meta that is odd is no map.   *)
Doc ==
  [type : {"epic", "feature", "fix", "note", "malformed"}, id : Ids, epic : Ids,
   title : {"t", "u", ""}, phase : Phases \cup {"other"}, assignee : {"none", "x", "y"},
   assigneeType : {"human", "agent", "other"}, meta : {"none", "odd", "m", "n"},
   lines : Seq([kind : {"heading", "status", "text", "blank"}, number : Nat,
                status : Statuses \cup {"other"}])]

VARIABLES
  files,     \* what each file holds, or NoFile
  edits,     \* how often one was written or deleted
  step,      \* of a push: idle, or reading
  unlisted,  \* the sub-directories it has not listed yet
  unread,    \* the files it has listed and not read yet
  got,       \* the documents it has read, by file
  parsed,    \* what the last push parsed
  snapshot,  \* the state it pushed, or NoSnapshot
  replica    \* what a receiver that applies every delta holds

vars == <<files, edits, step, unlisted, unread, got, parsed, snapshot, replica>>

(* Files are numbered in the order of what readNoTicketsDir returns.       *)
Names == 1..MaxFiles

SubDirs == {Dir[n] : n \in Names} \ {0}

AllDocs == UNION {Docs[n] : n \in Names}

NoFile == [type |-> "none"]

NoMap == [i \in {} |-> "none"]

NoSnapshot == [epics |-> NoMap, known |-> FALSE]

-----------------------------------------------------------------------------
(* parser.ts                                                               *)

NormalizePhase(p) == IF p \in Phases THEN p ELSE "ideation"

NormalizeStatus(s) == IF s \in Statuses THEN s ELSE "not_started"

NormalizeAssigneeType(t) == IF t \in {"human", "agent"} THEN t ELSE "none"

ParseMeta(m) == IF m = "odd" THEN "none" ELSE m

FirstNonBlank(lines, i) ==
  {j \in (i + 1)..Len(lines) :
     lines[j].kind # "blank" /\ \A k \in (i + 1)..(j - 1) : lines[k].kind = "blank"}

(* Slip: the next status line counts, whatever comes before it.            *)
StatusAfter_AnyLine(lines, i) ==
  LET later == {j \in (i + 1)..Len(lines) : lines[j].kind = "status"}
  IN  IF later = {} THEN "not_started"
      ELSE NormalizeStatus(lines[CHOOSE j \in later : \A k \in later : j <= k].status)

(* The first line below the heading that is not blank, if it is a status.  *)
StatusAfter(lines, i) ==
  IF \E j \in FirstNonBlank(lines, i) : lines[j].kind = "status"
    THEN NormalizeStatus(lines[CHOOSE j \in FirstNonBlank(lines, i) : TRUE].status)
    ELSE "not_started"

HeadingAt(lines) == {i \in DOMAIN lines : lines[i].kind = "heading"}

(* A task at each heading, by its place among the lines.                   *)
ParseTasks(lines) ==
  [i \in HeadingAt(lines) |-> [number |-> lines[i].number, status |-> StatusAfter(lines, i)]]

AssembleFeature(doc) ==
  [id |-> doc.id, epic |-> doc.epic, title |-> doc.title, type |-> doc.type,
   phase |-> NormalizePhase(doc.phase), assignee |-> doc.assignee,
   assigneeType |-> NormalizeAssigneeType(doc.assigneeType), meta |-> ParseMeta(doc.meta),
   tasks |-> ParseTasks(doc.lines)]

(* parseFiles: the epics and the features, by file; a document of another  *)
(* type is passed over.                                                    *)
ParseFiles(docs) ==
  LET ofType(types) == {n \in DOMAIN docs : docs[n].type \in types}
  IN  [epics |-> [n \in ofType({"epic"}) |-> docs[n]],
       features |-> [n \in ofType({"feature", "fix"}) |-> AssembleFeature(docs[n])]]

-----------------------------------------------------------------------------
(* validator.ts, with the schemas of schemas.ts                            *)

IdsOf(map) == {map[n].id : n \in DOMAIN map}

WellFormed(doc) == doc.id # "Bad" /\ doc.title # ""

(* taskSchema; no number twice, and no gap from 1 on.                      *)
ValidateTasks(tasks) == {tasks[i].number : i \in DOMAIN tasks} = 1..Cardinality(DOMAIN tasks)

(* Slip: the epic a feature refers to is not looked up.                    *)
ValidateFeature_AnyEpic(f, epicIds) == WellFormed(f) /\ ValidateTasks(f.tasks)

ValidateFeature(f, epicIds) == WellFormed(f) /\ f.epic \in epicIds /\ ValidateTasks(f.tasks)

ValidateUniqueIds(all) ==
  IsInjective([n \in DOMAIN all.epics \cup DOMAIN all.features |->
                 IF n \in DOMAIN all.epics THEN all.epics[n].id ELSE all.features[n].id])

Validate(all) ==
  /\ \A n \in DOMAIN all.epics : WellFormed(all.epics[n])
  /\ \A n \in DOMAIN all.features : ValidateFeature(all.features[n], IdsOf(all.epics))
  /\ ValidateUniqueIds(all)

-----------------------------------------------------------------------------
(* state.ts                                                                *)

Completed(tasks) == Cardinality({i \in DOMAIN tasks : tasks[i].status = "completed"})

FeatureState(f) ==
  [id |-> f.id, epicId |-> f.epic, title |-> f.title, type |-> f.type, phase |-> f.phase,
   assignee |-> f.assignee, assigneeType |-> f.assigneeType,
   tasks |-> [total |-> Cardinality(DOMAIN f.tasks), completed |-> Completed(f.tasks)],
   tests |-> [total |-> 0, passing |-> 0], meta |-> f.meta]

(* computeState: each epic with the features that name it; the others are  *)
(* left out.                                                               *)
ComputeState(all) ==
  [known |-> TRUE,
   epics |-> [e \in DOMAIN all.epics |->
     [n \in {n \in DOMAIN all.features : all.features[n].epic = all.epics[e].id} |->
        FeatureState(all.features[n])]]]

(* The features of all epics, each at its place: its epic's file, its own. *)
Features(state) ==
  [p \in UNION {{e} \X DOMAIN state.epics[e] : e \in DOMAIN state.epics} |->
     state.epics[p[1]][p[2]]]

(* The order of the loops over epics and over the features of each.        *)
Before(p, q) == p[1] < q[1] \/ (p[1] = q[1] /\ p[2] < q[2])

Round(n, d) == (2 * n + d) \div (2 * d)

AtMost100(n) == IF n > 100 THEN 100 ELSE n

PhasePercent ==
  [ideation |-> 0, development |-> 25, testing |-> 50, review |-> 75, done |-> 100]

(* No tasks, or no tests, count for nothing.                               *)
AtLeast1(n) == IF n = 0 THEN 1 ELSE n

(* Slip: the open tasks count, not the completed ones.                     *)
FeatureProgress_Open(f) ==
  LET d == AtLeast1(f.tasks.total)
  IN  AtMost100(Round(40 * PhasePercent[f.phase] * d
                        + 6000 * (f.tasks.total - f.tasks.completed), 100 * d))

(* computeFeatureProgress: the phase, the share of completed tasks and,    *)
(* when there are tests, that of passing ones, weighted.                   *)
FeatureProgress(f) ==
  LET d == AtLeast1(f.tasks.total)  e == AtLeast1(f.tests.total)
      percent == PhasePercent[f.phase]
  IN  AtMost100(
        IF f.tests.total = 0 THEN Round(40 * percent * d + 6000 * f.tasks.completed, 100 * d)
        ELSE Round(30 * percent * d * e + 3500 * f.tasks.completed * e
                     + 3500 * f.tests.passing * d, 100 * d * e))

(* A count of tasks summed over the features: as many as there are pairs   *)
(* of a feature and a number up to its count.                              *)
Total(state, count) ==
  LET fs == Features(state)
  IN  Cardinality(UNION {{p} \X (1..fs[p].tasks[count]) : p \in DOMAIN fs})

(* computeOverallProgress.                                                 *)
OverallProgress(state) ==
  IF Total(state, "total") = 0 THEN 0
  ELSE AtMost100(Round(Total(state, "completed") * 100, Total(state, "total")))

-----------------------------------------------------------------------------
(* diff.ts                                                                 *)

(* The features that no later one with the same id replaces in a map.      *)
Lasting(fs) ==
  {p \in DOMAIN fs : \A q \in DOMAIN fs : fs[q].id = fs[p].id => ~Before(p, q)}

Index(fs) ==
  [id \in {fs[p].id : p \in Lasting(fs)} |-> fs[CHOOSE p \in Lasting(fs) : fs[p].id = id]]

IndexFeatures(state) == Index(Features(state))

(* All of a FeatureState but its id and its epic.                          *)
Compared == {"title", "type", "phase", "assignee", "assigneeType", "tasks", "tests", "meta"}

Differing(prev, curr) == {k \in Compared : prev[k] # curr[k]}

(* diffFeature: the fields that changed, with their old and new values.    *)
DiffFeature(prev, curr) == [k \in Differing(prev, curr) |-> [from |-> prev[k], to |-> curr[k]]]

(* Of the features of `state`, those that are not in the map `prev`.       *)
Added(prev, state) ==
  LET fs == Features(state)
  IN  Restrict(fs, {p \in Lasting(fs) : fs[p].id \notin DOMAIN prev})

Updated(prev, curr) ==
  {[id |-> i, changes |-> DiffFeature(prev[i], curr[i])] :
     i \in {i \in DOMAIN prev \cap DOMAIN curr : Differing(prev[i], curr[i]) # {}}}

(* Slip: what is gone is looked for among what is there.                   *)
ComputeDiff_NoneRemoved(previous, current) ==
  LET p == IndexFeatures(previous)  c == IndexFeatures(current)
  IN  [added |-> Added(p, current), updated |-> Updated(p, c), removed |-> DOMAIN c \ DOMAIN c]

(* computeDiff; the first push adds everything, features with one id and   *)
(* all.                                                                    *)
ComputeDiff(previous, current) ==
  LET p == IndexFeatures(previous)  c == IndexFeatures(current)
  IN  [added |-> IF previous.known THEN Added(p, current) ELSE Features(current),
       updated |-> Updated(p, c), removed |-> DOMAIN p \ DOMAIN c]

-----------------------------------------------------------------------------
(* What the directory may hold.                                            *)
Disks ==
  {f \in [Names -> AllDocs \cup {NoFile}] : \A n \in Names : f[n] \in Docs[n] \cup {NoFile}}

Init ==
  /\ files \in Disks /\ edits = 0
  /\ step = "idle" /\ unlisted = {} /\ unread = {} /\ got = NoMap
  /\ parsed = ParseFiles(NoMap) /\ snapshot = NoSnapshot /\ replica = NoMap

(* The user writes or deletes a file (external).                           *)
Edit(n, d) ==
  /\ edits < MaxEdits /\ edits' = edits + 1
  /\ files[n] # d
  /\ files' = [files EXCEPT ![n] = d]
  /\ UNCHANGED <<step, unlisted, unread, got, parsed, snapshot, replica>>

FilesIn(dir) == {n \in Names : Dir[n] = dir /\ files[n] # NoFile}

(* readdir and the stats of readNoTicketsDir.  A directory that cannot be  *)
(* read counts as empty.                                                   *)
List ==
  /\ step = "idle" /\ step' = "reading"
  /\ \/ unread' = FilesIn(0) /\ unlisted' = SubDirs
     \/ unread' = {} /\ unlisted' = {}
  /\ got' = NoMap
  /\ UNCHANGED <<files, edits, parsed, snapshot, replica>>

(* readdir of readSubDir, while files of other directories are read.       *)
ListSub(dir) ==
  /\ dir \in unlisted /\ unlisted' = unlisted \ {dir}
  /\ unread' \in {unread \cup FilesIn(dir), unread}
  /\ UNCHANGED <<files, edits, step, got, parsed, snapshot, replica>>

(* readFile of one of them: what has gone since is passed over.            *)
ReadFile(n) ==
  /\ n \in unread /\ unread' = unread \ {n}
  /\ got' = IF files[n] = NoFile THEN got
            ELSE [m \in DOMAIN got \cup {n} |-> IF m = n THEN files[n] ELSE got[m]]
  /\ UNCHANGED <<files, edits, step, unlisted, parsed, snapshot, replica>>

(* So is what cannot be read.                                              *)
ReadFileFails(n) ==
  /\ n \in unread /\ unread' = unread \ {n}
  /\ UNCHANGED <<files, edits, step, unlisted, got, parsed, snapshot, replica>>

(* What a receiver of the delta holds afterwards (external): of the added  *)
(* features with one id, the last; and a field changes only from the value *)
(* it is said to change from.                                              *)
Applied(delta) ==
  LET added == Index(delta.added)
      patched(f, u) ==
        [k \in DOMAIN f |-> IF k \in DOMAIN u.changes /\ u.changes[k].from = f[k]
                              THEN u.changes[k].to ELSE f[k]]
  IN  [i \in (DOMAIN replica \ delta.removed) \cup DOMAIN added |->
         IF i \in DOMAIN added THEN added[i]
         ELSE IF \E u \in delta.updated : u.id = i
           THEN patched(replica[i], CHOOSE u \in delta.updated : u.id = i)
         ELSE replica[i]]

(* All that was listed has been read, or found gone.                       *)
HasRead == step = "reading" /\ unlisted = {} /\ unread = {}

(* The YAML parser throws, and nothing is pushed.                          *)
PushFails ==
  /\ HasRead /\ \E n \in DOMAIN got : got[n].type = "malformed"
  /\ step' = "idle" /\ got' = NoMap
  /\ UNCHANGED <<files, edits, unlisted, unread, parsed, snapshot, replica>>

(* What was read is parsed and folded, and the delta is pushed.  Malformed *)
(* documents may be among it: gray-matter (external) throws the first time *)
(* it meets a text only, and later answers from its cache, with no data.   *)
Push ==
  /\ HasRead /\ step' = "idle"
  /\ parsed' = ParseFiles(got)
  /\ snapshot' = ComputeState(parsed')
  /\ replica' = Applied(ComputeDiff(snapshot, snapshot'))
  /\ got' = NoMap
  /\ UNCHANGED <<files, edits, unlisted, unread>>

Next ==
  \/ \E n \in Names : \E d \in Docs[n] \cup {NoFile} : Edit(n, d)
  \/ List \/ \E dir \in SubDirs : ListSub(dir)
  \/ \E n \in Names : ReadFile(n) \/ ReadFileFails(n)
  \/ Push \/ PushFails

Spec == Init /\ [][Next]_vars

-----------------------------------------------------------------------------
(* The documents that some of the files may hold.                          *)
Held(names) == UNION {[read -> AllDocs] : read \in SUBSET names}

(* The files that a push has nothing left to do with.                      *)
Settled == {n \in Names : n \notin unread /\ Dir[n] \notin unlisted}

TypeOK ==
  /\ files \in Disks /\ edits \in 0..MaxEdits
  /\ step \in {"idle", "reading"} /\ unlisted \subseteq SubDirs
  /\ unread \subseteq {n \in Names : Dir[n] \notin unlisted}
  /\ got \in Held(Settled)
  /\ DOMAIN replica \subseteq Ids /\ \A i \in DOMAIN replica : Compared \subseteq DOMAIN replica[i]

(* What the validator accepts, the snapshot holds completely: each feature *)
(* under the epic it names, once, and with its tasks.                      *)
ValidIsComplete ==
  snapshot.known /\ Validate(parsed) =>
    \A n \in DOMAIN parsed.features :
      LET f == parsed.features[n]
      IN  /\ \E e \in DOMAIN parsed.epics :
               /\ parsed.epics[e].id = f.epic
               /\ {p \in DOMAIN Features(snapshot) : p[2] = n} = {<<e, n>>}
          /\ f.id \in DOMAIN IndexFeatures(snapshot)
          /\ IndexFeatures(snapshot)[f.id] = FeatureState(f)

(* The deltas add up: whoever applies them, and takes a change from the    *)
(* value it holds only, holds every field of every feature of the last     *)
(* snapshot, valid or not - all but the epic, which no delta tells of.     *)
DeltasAddUp ==
  snapshot.known =>
    LET index == IndexFeatures(snapshot)
    IN  /\ DOMAIN replica = DOMAIN index
        /\ \A i \in DOMAIN index, k \in Compared : replica[i][k] = index[i][k]

(* A task counts as completed only if its own section says so: there is a  *)
(* status line that does between its heading and the next one.             *)
TasksAreOwn ==
  \A n \in DOMAIN got :
    LET lines == got[n].lines
        says(i) == \E j \in (i + 1)..Len(lines) :
                     /\ lines[j].kind = "status" /\ lines[j].status = "completed"
                     /\ \A k \in (i + 1)..(j - 1) : lines[k].kind # "heading"
    IN  \A i \in HeadingAt(lines) : ParseTasks(lines)[i].status = "completed" => says(i)

(* How many tests there are, and how many of them pass.                    *)
TestCounts == [total : 0..2, passing : 0..2]

(* Progress stays within 0 and 100, and does not fall back when a task is  *)
(* completed, when a test more passes, or when a feature enters the next   *)
(* phase, whatever tests it has.                                           *)
ProgressAdvances ==
  /\ OverallProgress(snapshot) \in 0..100
  /\ \A p \in DOMAIN Features(snapshot), tests \in TestCounts :
       LET f == [Features(snapshot)[p] EXCEPT !.tests = tests]
           next == [ideation |-> "development", development |-> "testing", testing |-> "review",
                    review |-> "done", done |-> "done"]
           further == {[f EXCEPT !.phase = next[f.phase]], [f EXCEPT !.tests.passing = @ + 1],
                       [f EXCEPT !.tasks.completed = @ + 1]}
       IN  /\ FeatureProgress(f) \in 0..100
           /\ \A g \in further : FeatureProgress(f) <= FeatureProgress(g)

-----------------------------------------------------------------------------
(* The inductive invariant behind the safety properties                    *)

(* What was pushed is what was parsed, and that is of some documents; a    *)
(* receiver holds nothing before the first push.                           *)
ParsedInv == \E docs \in Held(Names) : parsed = ParseFiles(docs)

SnapshotInv ==
  IF snapshot.known THEN snapshot = ComputeState(parsed)
  ELSE snapshot = NoSnapshot /\ replica = NoMap

IInv == TypeOK /\ ParsedInv /\ SnapshotInv /\ DeltasAddUp
=============================================================================
