------------------------------ MODULE MapReduce -----------------------------
(***************************************************************************)
(* A2/P2-MapReduce: a client starts one map task per input file, waits for *)
(* all of them, and then starts the reducers.  A map task writes each word *)
(* of its file to one of numReducers intermediate files; a reducer reads   *)
(* its file of task 0, 1, ... and stops at the first that is not there.    *)
(*                                                                         *)
(* The master only starts the worker of a task and passes the task on, so  *)
(* it has no state.  The intermediate and output files outlive a job.      *)
(*                                                                         *)
(* A directory is a function from the names of the files in it.  An        *)
(* intermediate file is the set of its lines: no reducer depends on their  *)
(* order, and the place in the input that a line is for tells those of one *)
(* word apart.                                                             *)
(***************************************************************************)
EXTENDS Integers, Sequences, FiniteSets

CONSTANTS
    Texts,        \* Texts[i]: the words of the i-th input file, a sequence
    Hash,         \* Hash[w]: hash(w); it overflows, so it may be negative
    Modes,
    MaxReducers,  \* bound on <numReducers>
    MaxJobs,      \* bound on launches of the client
    MaxFailures   \* bound on tasks that fail in one job

Words    == UNION {{Texts[i][j] : j \in DOMAIN Texts[i]} : i \in DOMAIN Texts}
MapTasks == 0 .. Len(Texts) - 1
Lines    == [word : Words, mode : Modes, file : MapTasks, at : Nat]

ASSUME MapReduceAssumption ==
    /\ Texts \in Seq(Seq(Words))
    /\ Hash \in [Words -> Int]
    /\ Modes \subseteq {"word_count", "inverted_index", "other"}
    /\ MaxReducers \in Nat /\ MaxJobs \in Nat /\ MaxFailures \in Nat

ReduceTasks == 0 .. MaxReducers - 1

VARIABLES
    phase,          \* of the client: idle, map, reduce
    mode, numMappers, numReducers,
    mapTask,        \* of each map task: none, running, completed, failed
    reduceTask,
    intermediate,   \* the directory of that name: of <<m, r>>, the lines of mr-m-r.txt
    output,         \* likewise: of r, out-r.txt
    jobs,
    leftOver        \* history: a job before this one left intermediate files

vars == <<phase, mode, numMappers, numReducers, mapTask, reduceTask, intermediate, output,
          jobs, leftOver>>
job  == <<mode, numMappers, numReducers, jobs, leftOver>>

Init ==
    /\ phase = "idle"
    /\ mode \in Modes
    /\ numMappers = 0 /\ numReducers = 0
    /\ mapTask = [m \in MapTasks |-> "none"]
    /\ reduceTask = [r \in ReduceTasks |-> "none"]
    /\ intermediate = [f \in {} |-> {}]
    /\ output = [r \in {} |-> {}]
    /\ jobs = 0
    /\ leftOver = FALSE

Failed(task) == {i \in DOMAIN task : task[i] = "failed"}
MayFail == Cardinality(Failed(mapTask)) + Cardinality(Failed(reduceTask)) < MaxFailures

-----------------------------------------------------------------------------
(* The client *)

(* A launch finds the first n input files in the dataset directory; every    *)
(* map task is started whatever becomes of the others.                       *)
Launch(n, k, kind) ==
    /\ phase = "idle" /\ jobs < MaxJobs
    /\ phase' = "map"
    /\ mode' = kind /\ numMappers' = n /\ numReducers' = k
    /\ mapTask' = [m \in MapTasks |-> IF m < n THEN "running" ELSE "none"]
    /\ reduceTask' = [r \in ReduceTasks |-> "none"]
    /\ jobs' = jobs + 1
    /\ leftOver' = (DOMAIN intermediate # {})
    /\ UNCHANGED <<intermediate, output>>

\* Mutant of MapsReturned: the reducers do not wait for the last map task.
SomeMapReturned == \E m \in MapTasks : mapTask[m] \in {"completed", "failed"}

\* Mutant of MapsReturned: a task that fails is not taken off the wait group.
MapsCompleted == \A m \in MapTasks : mapTask[m] \in {"none", "completed"}

(* wg.Wait: every task has returned, with a result or with an error.         *)
MapsReturned == \A m \in MapTasks : mapTask[m] # "running"

StartReducers ==
    /\ phase = "map" /\ MapsReturned
    /\ phase' = "reduce"
    /\ reduceTask' = [r \in ReduceTasks |-> IF r < numReducers THEN "running" ELSE "none"]
    /\ UNCHANGED <<mapTask, intermediate, output, job>>

EndJob ==
    /\ phase = "reduce"
    /\ \A r \in ReduceTasks : reduceTask[r] # "running"
    /\ phase' = "idle"
    /\ UNCHANGED <<mapTask, reduceTask, intermediate, output, job>>

-----------------------------------------------------------------------------
(* Map *)

(* The remainder takes the sign of the hash.                                 *)
Bucket(w, k) == IF Hash[w] >= 0 THEN Hash[w] % k ELSE -((-Hash[w]) % k)

(* The line for the i-th word of an input.                                   *)
Line(m, i) == [word |-> Texts[m + 1][i], mode |-> mode, file |-> m, at |-> i]

\* Mutant of Created: the file of an earlier job is appended to.
Kept(m, r) == IF <<m, r>> \in DOMAIN intermediate THEN intermediate[<<m, r>>] ELSE {}

Created(m, r) == {}

(* What task m has written for reducer r when it has seen the first n words  *)
(* of its file.  The file of a negative bucket was never created: it cannot  *)
(* be opened, and the word is dropped.  In a mode it does not know the task  *)
(* writes nothing.                                                           *)
Written(m, r, n) ==
    Created(m, r) \cup
        {Line(m, i) : i \in {j \in 1 .. n : /\ mode # "other"
                                            /\ Bucket(Texts[m + 1][j], numReducers) = r}}

(* The first k files of the task are created anew, then n words go to them.  *)
Write(m, k, n) ==
    LET new == {m} \X (0 .. k - 1)
    IN  intermediate' = [f \in DOMAIN intermediate \cup new |->
                            IF f \in new THEN Written(m, f[2], n) ELSE intermediate[f]]

Map(m) ==
    /\ mapTask[m] = "running"
    /\ Write(m, numReducers, Len(Texts[m + 1]))
    /\ mapTask' = [mapTask EXCEPT ![m] = "completed"]
    /\ UNCHANGED <<phase, reduceTask, output, job>>

(* The worker is not up yet and nothing happens, or it dies when it has      *)
(* created some of the files, or later after some words; the error is        *)
(* printed.                                                                  *)
MapFails(m) ==
    /\ mapTask[m] = "running" /\ MayFail
    /\ \/ \E k \in 0 .. numReducers : Write(m, k, 0)
       \/ \E n \in 1 .. Len(Texts[m + 1]) : Write(m, numReducers, n)
    /\ mapTask' = [mapTask EXCEPT ![m] = "failed"]
    /\ UNCHANGED <<phase, reduceTask, output, job>>

-----------------------------------------------------------------------------
(* Reduce *)

(* The loop over the map tasks ends at the first file that is missing.       *)
Opened(r) == {m \in MapTasks : \A l \in 0 .. m : <<l, r>> \in DOMAIN intermediate}
Read(r)   == UNION {intermediate[<<m, r>>] : m \in Opened(r)}

Occurrences(lines, w) == {line \in lines : line.word = w}

(* A line of the other mode is parsed as far as it goes: a file name counts  *)
(* as 0, and a 1 is taken for the name of a file (here -1).                  *)
Count(lines)   == Cardinality({line \in lines : line.mode = "word_count"})
FilesOf(lines) == {IF line.mode = "word_count" THEN -1 ELSE line.file : line \in lines}

Table(lines, kind) ==
    [w \in {line.word : line \in lines} |->
        IF kind = "word_count" THEN Count(Occurrences(lines, w)) ELSE FilesOf(Occurrences(lines, w))]

(* The words of ws go to a new output file.                                  *)
WriteOutput(r, ws) ==
    output' = [f \in DOMAIN output \cup {r} |->
                  IF f = r THEN [mode |-> mode, table |-> [w \in ws |-> Table(Read(r), mode)[w]]]
                  ELSE output[f]]

(* In a mode it does not know a reducer answers without an output.           *)
Reduce(r) ==
    /\ reduceTask[r] = "running"
    /\ IF mode = "other" THEN UNCHANGED output ELSE WriteOutput(r, DOMAIN Table(Read(r), mode))
    /\ reduceTask' = [reduceTask EXCEPT ![r] = "completed"]
    /\ UNCHANGED <<phase, mapTask, intermediate, job>>

(* The worker is not up, or dies when it has created an output and written   *)
(* some of its words.                                                        *)
ReduceFails(r) ==
    /\ reduceTask[r] = "running" /\ MayFail
    /\ \/ UNCHANGED output
       \/ mode # "other" /\ \E ws \in SUBSET DOMAIN Table(Read(r), mode) : WriteOutput(r, ws)
    /\ reduceTask' = [reduceTask EXCEPT ![r] = "failed"]
    /\ UNCHANGED <<phase, mapTask, intermediate, job>>

Next ==
    \/ \E n \in 1 .. Len(Texts), k \in 1 .. MaxReducers, kind \in Modes : Launch(n, k, kind)
    \/ StartReducers \/ EndJob
    \/ \E m \in MapTasks : Map(m) \/ MapFails(m)
    \/ \E r \in ReduceTasks : Reduce(r) \/ ReduceFails(r)

(* A task returns; a call without an answer would be an error of its         *)
(* connection.                                                               *)
Fairness ==
    /\ WF_vars(StartReducers) /\ WF_vars(EndJob)
    /\ \A m \in MapTasks : WF_vars(Map(m) \/ MapFails(m))
    /\ \A r \in ReduceTasks : WF_vars(Reduce(r) \/ ReduceFails(r))

Spec == Init /\ [][Next]_vars /\ Fairness

-----------------------------------------------------------------------------
(* Properties *)

(* Every variable keeps to its type, and tasks beyond those of the job do    *)
(* nothing.                                                                  *)
TypeOK ==
    /\ phase \in {"idle", "map", "reduce"} /\ mode \in Modes
    /\ numMappers \in 0 .. Len(Texts) /\ numReducers \in 0 .. MaxReducers
    /\ mapTask \in [MapTasks -> {"none", "running", "completed", "failed"}]
    /\ \A m \in MapTasks : m >= numMappers => mapTask[m] = "none"
    /\ reduceTask \in [ReduceTasks -> {"none", "running", "completed", "failed"}]
    /\ \A r \in ReduceTasks : r >= numReducers => reduceTask[r] = "none"
    /\ DOMAIN intermediate \subseteq MapTasks \X ReduceTasks
    /\ \A f \in DOMAIN intermediate : intermediate[f] \subseteq Lines
    /\ DOMAIN output \subseteq ReduceTasks
    /\ jobs \in 0 .. MaxJobs /\ leftOver \in BOOLEAN

(* The sequential result: where a word occurs in the texts of some tasks.    *)
Places(w, tasks) ==
    UNION {{m} \X {i \in 1 .. Len(Texts[m + 1]) : Texts[m + 1][i] = w} : m \in tasks}

Sequential(w, tasks) == IF mode = "word_count" THEN Cardinality(Places(w, tasks))
                        ELSE {p[1] : p \in Places(w, tasks)}

Result(r, w) == IF w \in DOMAIN output[r].table THEN output[r].table[w]
                ELSE IF mode = "word_count" THEN 0 ELSE {}

Ended   == phase = "idle" /\ jobs > 0 /\ mode # "other"
Inputs  == 0 .. numMappers - 1
(* The file after the last of this job, which ends the loop of reducer r.    *)
LoopEnds(r) == <<numMappers, r>> \notin DOMAIN intermediate

(* A job none of whose tasks failed yields in the output of each reducer,    *)
(* for every word of its bucket, the result of a sequential program, and     *)
(* nothing for any other word - also after jobs with other numbers of        *)
(* reducers, other inputs or another mode, unless one of them left a file    *)
(* after the last of this job.  A word whose hash is not negative is in one  *)
(* output (Map, reduceWordCount, reduceInvertedIndex).                       *)
JobIsSequential ==
    Ended /\ Failed(mapTask) = {} /\ Failed(reduceTask) = {} =>
        \A r \in 0 .. numReducers - 1 : LoopEnds(r) =>
            \A w \in Words :
                /\ Result(r, w) = Sequential(w, IF Bucket(w, numReducers) = r THEN Inputs ELSE {})
                /\ Hash[w] >= 0 => Bucket(w, numReducers) \in 0 .. numReducers - 1

AtLeast(a, b) == IF mode = "word_count" THEN a >= b ELSE b \subseteq a

(* On a fresh installation failures only lose words, and never those of the  *)
(* map tasks before the first that failed: a completed reducer reports at    *)
(* least what these contain and at most what all inputs contain.  (It does   *)
(* lose the words of completed tasks after a failed one.)                    *)
FailuresOnlyLose ==
    Ended /\ ~leftOver =>
        LET before == {m \in Inputs : \A l \in 0 .. m : mapTask[l] = "completed"}
        IN  \A r \in 0 .. numReducers - 1, w \in Words :
                reduceTask[r] = "completed" =>
                    LET mine(tasks) == Sequential(w, IF Bucket(w, numReducers) = r
                                                     THEN tasks ELSE {})
                    IN  /\ AtLeast(Result(r, w), mine(before))
                        /\ AtLeast(mine(Inputs), Result(r, w))

(* Every job ends, whichever of its tasks fail: a failed task is counted as  *)
(* returned by the wait group (main).                                        *)
JobEnds == phase # "idle" ~> phase = "idle"
=============================================================================
