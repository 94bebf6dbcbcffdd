------------------------- MODULE MapReduce_proofs -------------------------
(***************************************************************************)
(* Proofs about MapReduce: a job without failures computes what a          *)
(* sequential program computes, and failures only lose words, for every    *)
(* input, hash function, number of tasks and order in which they run.      *)
(***************************************************************************)
EXTENDS MapReduce, FiniteSetTheorems, TLAPS

USE MapReduceAssumption

-----------------------------------------------------------------------------
(* The inductive invariant *)

(* The phases of the client: map tasks run in the first, reducers in the     *)
(* second, and every task of the job has been started.                       *)
PhaseInv ==
    /\ \A m \in MapTasks : /\ mapTask[m] = "running" => phase = "map"
                           /\ m < numMappers => mapTask[m] # "none"
    /\ \A r \in ReduceTasks :
          /\ reduceTask[r] = "running" => phase = "reduce"
          /\ phase = "map" => reduceTask[r] = "none"
          /\ phase # "map" /\ r < numReducers => reduceTask[r] # "none"

AllWritten(m, r) == Written(m, r, Len(Texts[m + 1]))

(* A completed map task has written all of its file, for every reducer.      *)
WrittenInv ==
    \A m \in MapTasks : mapTask[m] = "completed" =>
        \A r \in 0 .. numReducers - 1 :
            <<m, r>> \in DOMAIN intermediate /\ intermediate[<<m, r>>] = AllWritten(m, r)

(* On a fresh installation every intermediate file is one of this job, and   *)
(* what is in it the task has written.                                       *)
FreshInv ==
    ~leftOver =>
        \A f \in DOMAIN intermediate :
            /\ f[1] < numMappers /\ f[2] < numReducers
            /\ intermediate[f] \subseteq AllWritten(f[1], f[2])

(* The output of a completed reducer is the table of what it has read: the   *)
(* files do not change once the reducers run.                                *)
OutputInv ==
    \A r \in ReduceTasks : reduceTask[r] = "completed" /\ mode # "other" =>
        r \in DOMAIN output /\ output[r].table = Table(Read(r), mode)

JobInv == TypeOK /\ PhaseInv /\ WrittenInv /\ FreshInv /\ OutputInv

-----------------------------------------------------------------------------
(* Lemmas *)

LEMMA TextTypes ==
    /\ Len(Texts) \in Nat
    /\ \A m \in MapTasks :
          /\ m \in Nat
          /\ Len(Texts[m + 1]) \in Nat
          /\ \A i \in 1 .. Len(Texts[m + 1]) : Texts[m + 1][i] \in Words
<1>1. Len(Texts) \in Nat
  OBVIOUS
<1>2. ASSUME NEW m \in MapTasks
      PROVE  m \in Nat /\ Texts[m + 1] \in Seq(Words)
  <2>1. m \in Nat /\ m + 1 \in 1 .. Len(Texts)
    BY <1>1 DEF MapTasks
  <2> QED BY <2>1
<1>3. ASSUME NEW m \in MapTasks, NEW i \in 1 .. Len(Texts[m + 1])
      PROVE  Texts[m + 1][i] \in Words
  BY <1>2
<1> QED BY <1>1, <1>2, <1>3

LEMMA WrittenIn ==
    ASSUME NEW m \in MapTasks, NEW r, NEW n \in 0 .. Len(Texts[m + 1]), TypeOK
    PROVE  Written(m, r, n) \subseteq AllWritten(m, r) /\ AllWritten(m, r) \subseteq Lines
<1>1. ASSUME NEW j \in 1 .. n  PROVE j \in 1 .. Len(Texts[m + 1])
  BY TextTypes
<1>2. ASSUME NEW i \in 1 .. Len(Texts[m + 1])  PROVE Line(m, i) \in Lines
  <2>1. i \in Nat /\ Texts[m + 1][i] \in Words
    BY TextTypes
  <2> QED BY <2>1 DEF Line, Lines, TypeOK
<1> QED BY <1>1, <1>2 DEF Written, AllWritten, Created

LEMMA SameJob ==
    ASSUME NEW m, NEW r, UNCHANGED job
    PROVE  AllWritten(m, r)' = AllWritten(m, r)
BY DEF job, AllWritten, Written, Created, Line

(* What a map task does to the files: those of the others stay as they are.  *)
LEMMA WriteEffect ==
    ASSUME NEW m \in MapTasks, NEW k \in 0 .. numReducers, NEW n \in 0 .. Len(Texts[m + 1]),
           TypeOK, Write(m, k, n)
    PROVE  /\ DOMAIN intermediate' = DOMAIN intermediate \cup ({m} \X (0 .. k - 1))
           /\ \A r \in 0 .. k - 1 : intermediate'[<<m, r>>] = Written(m, r, n)
           /\ \A f \in DOMAIN intermediate :
                 f \notin {m} \X (0 .. k - 1) => intermediate'[f] = intermediate[f]
BY DEF Write

LEMMA WriteTypes ==
    ASSUME NEW m \in MapTasks, NEW k \in 0 .. numReducers, NEW n \in 0 .. Len(Texts[m + 1]),
           TypeOK, Write(m, k, n)
    PROVE  /\ DOMAIN intermediate' \subseteq MapTasks \X ReduceTasks
           /\ \A f \in DOMAIN intermediate' : intermediate'[f] \subseteq Lines
<1> DEFINE new == {m} \X (0 .. k - 1)
<1>1. new \subseteq MapTasks \X ReduceTasks
  BY DEF ReduceTasks, TypeOK
<1>2. ASSUME NEW f \in new  PROVE intermediate'[f] \subseteq Lines
  <2>1. PICK r \in 0 .. k - 1 : f = <<m, r>>
    OBVIOUS
  <2>2. intermediate'[<<m, r>>] = Written(m, r, n)
    BY WriteEffect
  <2> QED BY <2>1, <2>2, WrittenIn
<1>3. DOMAIN intermediate \subseteq MapTasks \X ReduceTasks
      /\ \A f \in DOMAIN intermediate : intermediate[f] \subseteq Lines
  BY DEF TypeOK
<1>4. DOMAIN intermediate' = DOMAIN intermediate \cup new
      /\ \A f \in DOMAIN intermediate : f \notin new => intermediate'[f] = intermediate[f]
  BY WriteEffect
<1> HIDE DEF new
<1> QED BY <1>1, <1>2, <1>3, <1>4

(* A task of this job keeps the directory as FreshInv wants it, and what the *)
(* others have written.                                                      *)
LEMMA WriteKeepsFresh ==
    ASSUME NEW m \in MapTasks, NEW k \in 0 .. numReducers, NEW n \in 0 .. Len(Texts[m + 1]),
           TypeOK, m < numMappers, FreshInv, Write(m, k, n), UNCHANGED job
    PROVE  FreshInv'
<1> DEFINE new == {m} \X (0 .. k - 1)
<1> SUFFICES ASSUME ~leftOver, NEW f \in DOMAIN intermediate'
             PROVE  /\ f[1] < numMappers /\ f[2] < numReducers
                    /\ intermediate'[f] \subseteq AllWritten(f[1], f[2])
  BY SameJob DEF FreshInv, job
<1>1. CASE f \in new
  <2>1. PICK r \in 0 .. k - 1 : f = <<m, r>>
    BY <1>1
  <2>2. r < numReducers
    BY DEF TypeOK
  <2>3. intermediate'[<<m, r>>] = Written(m, r, n)
    BY WriteEffect
  <2>4. intermediate'[f] \subseteq AllWritten(m, r)
    BY <2>1, <2>3, WrittenIn
  <2> QED BY <2>1, <2>2, <2>4
<1>2. CASE f \notin new
  <2>1. f \in DOMAIN intermediate /\ intermediate'[f] = intermediate[f]
    BY <1>2, WriteEffect
  <2> QED BY <2>1 DEF FreshInv
<1> QED BY <1>1, <1>2

LEMMA WriteKeepsOthers ==
    ASSUME NEW m \in MapTasks, NEW k \in 0 .. numReducers, NEW n \in 0 .. Len(Texts[m + 1]),
           TypeOK, Write(m, k, n), UNCHANGED job,
           NEW l \in MapTasks, l # m, NEW r \in 0 .. numReducers - 1,
           <<l, r>> \in DOMAIN intermediate /\ intermediate[<<l, r>>] = AllWritten(l, r)
    PROVE  <<l, r>> \in DOMAIN intermediate' /\ intermediate'[<<l, r>>] = AllWritten(l, r)'
<1>1. <<l, r>> \notin {m} \X (0 .. k - 1)
  OBVIOUS
<1> QED BY <1>1, SameJob, WriteEffect

-----------------------------------------------------------------------------
(* The invariant *)

LEMMA JobInit == Init => JobInv
<1> SUFFICES ASSUME Init PROVE JobInv
  OBVIOUS
<1>1. TypeOK
  <2>1. Len(Texts) \in Nat /\ MaxReducers \in Nat /\ MaxJobs \in Nat
    BY TextTypes
  <2>2. /\ mapTask \in [MapTasks -> {"none", "running", "completed", "failed"}]
        /\ reduceTask \in [ReduceTasks -> {"none", "running", "completed", "failed"}]
        /\ \A m \in MapTasks : m >= numMappers => mapTask[m] = "none"
        /\ \A r \in ReduceTasks : r >= numReducers => reduceTask[r] = "none"
    BY DEF Init
  <2>3. DOMAIN intermediate = {} /\ DOMAIN output = {}
    BY DEF Init
  <2>4. /\ phase \in {"idle", "map", "reduce"} /\ mode \in Modes /\ jobs \in 0 .. MaxJobs
        /\ numMappers \in 0 .. Len(Texts) /\ numReducers \in 0 .. MaxReducers
    BY <2>1 DEF Init
  <2>5. /\ DOMAIN intermediate \subseteq MapTasks \X ReduceTasks
        /\ \A f \in DOMAIN intermediate : intermediate[f] \subseteq Lines
        /\ DOMAIN output \subseteq ReduceTasks
    BY <2>3
  <2>6. leftOver \in BOOLEAN
    BY DEF Init
  <2> QED BY <2>2, <2>4, <2>5, <2>6 DEF TypeOK
<1>2. PhaseInv
  BY TextTypes DEF Init, PhaseInv, ReduceTasks
<1>3. WrittenInv /\ FreshInv /\ OutputInv
  BY DEF Init, WrittenInv, FreshInv, OutputInv
<1> QED BY <1>1, <1>2, <1>3 DEF JobInv

LEMMA LaunchKeeps ==
    ASSUME JobInv, NEW n \in 1 .. Len(Texts), NEW k \in 1 .. MaxReducers, NEW kind \in Modes,
           Launch(n, k, kind)
    PROVE  JobInv'
<1> USE DEF JobInv, Launch
<1>1. TypeOK'
  BY TextTypes DEF TypeOK, ReduceTasks, MapTasks
<1>2. PhaseInv'
  BY TextTypes DEF PhaseInv, ReduceTasks
<1>3. WrittenInv'
  BY DEF WrittenInv
<1>4. FreshInv'
  BY DEF FreshInv
<1>5. OutputInv'
  BY DEF OutputInv
<1> QED BY <1>1, <1>2, <1>3, <1>4, <1>5

LEMMA ClientKeeps ==
    ASSUME JobInv, StartReducers \/ EndJob
    PROVE  JobInv'
<1> USE DEF JobInv, job
<1>1. TypeOK'
  BY DEF TypeOK, StartReducers, EndJob, ReduceTasks
<1>2. PhaseInv'
  BY DEF TypeOK, PhaseInv, StartReducers, EndJob, MapsReturned
<1>3. WrittenInv' /\ FreshInv'
  BY SameJob DEF WrittenInv, FreshInv, StartReducers, EndJob
<1>4. OutputInv'
  <2>1. CASE StartReducers
    BY <2>1 DEF OutputInv, StartReducers
  <2>2. CASE EndJob
    BY <2>2 DEF OutputInv, EndJob, Read, Opened
  <2> QED BY <2>1, <2>2
<1> QED BY <1>1, <1>2, <1>3, <1>4

LEMMA MapKeeps ==
    ASSUME JobInv, NEW m \in MapTasks, Map(m) \/ MapFails(m)
    PROVE  JobInv'
<1> USE DEF JobInv
<1>1. PICK k \in 0 .. numReducers, n \in 0 .. Len(Texts[m + 1]) :
          Write(m, k, n) /\ (Map(m) => k = numReducers /\ n = Len(Texts[m + 1]))
  <2>1. Len(Texts[m + 1]) \in Nat /\ numReducers \in Nat
    BY TextTypes DEF TypeOK
  <2>2. CASE Map(m)
    BY <2>1, <2>2 DEF Map
  <2>3. CASE MapFails(m) /\ ~Map(m)
    BY <2>1, <2>3 DEF MapFails
  <2> QED BY <2>2, <2>3
<1>2. /\ mapTask[m] = "running" /\ phase = "map"
      /\ \E to \in {"completed", "failed"} : mapTask' = [mapTask EXCEPT ![m] = to]
      /\ UNCHANGED <<phase, reduceTask, output, job>>
  BY DEF Map, MapFails, PhaseInv
<1>3. m < numMappers
  BY <1>2, TextTypes DEF TypeOK
<1>4. TypeOK'
  <2>1. DOMAIN intermediate' \subseteq MapTasks \X ReduceTasks
        /\ \A f \in DOMAIN intermediate' : intermediate'[f] \subseteq Lines
    BY <1>1, WriteTypes
  <2>2. mapTask' \in [MapTasks -> {"none", "running", "completed", "failed"}]
        /\ \A l \in MapTasks : l >= numMappers => mapTask'[l] = "none"
    BY <1>2, <1>3 DEF TypeOK
  <2> QED BY <1>2, <2>1, <2>2 DEF TypeOK, job
<1>5. PhaseInv'
  BY <1>2 DEF PhaseInv, TypeOK, job
<1>6. WrittenInv'
  <2> SUFFICES ASSUME NEW l \in MapTasks, mapTask'[l] = "completed",
                      NEW r \in 0 .. numReducers - 1
               PROVE  /\ <<l, r>> \in DOMAIN intermediate'
                      /\ intermediate'[<<l, r>>] = AllWritten(l, r)'
    BY <1>2 DEF WrittenInv, job
  <2>1. CASE l = m
    <3>1. Map(m)
      BY <2>1 DEF Map, MapFails, TypeOK
    <3>2. AllWritten(m, r)' = AllWritten(m, r)
      BY <1>2, SameJob
    <3>3. Write(m, numReducers, Len(Texts[m + 1]))
      BY <1>1, <3>1
    <3>4. numReducers \in 0 .. numReducers /\ Len(Texts[m + 1]) \in 0 .. Len(Texts[m + 1])
      BY TextTypes DEF TypeOK
    <3>5. /\ DOMAIN intermediate' = DOMAIN intermediate \cup ({m} \X (0 .. numReducers - 1))
          /\ \A q \in 0 .. numReducers - 1 :
                intermediate'[<<m, q>>] = Written(m, q, Len(Texts[m + 1]))
      BY <3>3, <3>4, WriteEffect
    <3> QED BY <2>1, <3>2, <3>5 DEF AllWritten
  <2>2. CASE l # m
    <3>1. mapTask[l] = "completed"
      BY <1>2, <2>2 DEF TypeOK
    <3>2. <<l, r>> \in DOMAIN intermediate /\ intermediate[<<l, r>>] = AllWritten(l, r)
      BY <3>1 DEF WrittenInv
    <3> QED BY <1>1, <1>2, <2>2, <3>2, WriteKeepsOthers
  <2> QED BY <2>1, <2>2
<1>7. FreshInv'
  BY <1>1, <1>2, <1>3, WriteKeepsFresh
<1>8. OutputInv'
  BY <1>2 DEF OutputInv, PhaseInv
<1> QED BY <1>4, <1>5, <1>6, <1>7, <1>8

(* Every word the reducer has goes to the output: it is the whole table.     *)
LEMMA WholeOutput ==
    ASSUME NEW r, WriteOutput(r, DOMAIN Table(Read(r), mode))
    PROVE  /\ DOMAIN output' = DOMAIN output \cup {r}
           /\ output'[r].table = Table(Read(r), mode)
           /\ \A q \in DOMAIN output : q # r => output'[q] = output[q]
<1> DEFINE t == Table(Read(r), mode)
<1>1. t = [w \in DOMAIN t |-> t[w]]
  BY DEF Table
<1> HIDE DEF t
<1>2. output'[r] = [mode |-> mode, table |-> [w \in DOMAIN t |-> t[w]]]
  BY DEF WriteOutput, t
<1>3. output'[r].table = t
  BY <1>1, <1>2
<1> QED BY <1>3 DEF WriteOutput, t

LEMMA ReduceKeeps ==
    ASSUME JobInv, NEW r \in ReduceTasks, Reduce(r) \/ ReduceFails(r)
    PROVE  JobInv'
<1> USE DEF JobInv
<1>1. /\ reduceTask[r] = "running" /\ phase = "reduce"
      /\ \E to \in {"completed", "failed"} : reduceTask' = [reduceTask EXCEPT ![r] = to]
      /\ UNCHANGED <<phase, mapTask, intermediate, job>>
  BY DEF Reduce, ReduceFails, PhaseInv
<1>2. r < numReducers
  BY <1>1 DEF TypeOK, ReduceTasks
<1>3. DOMAIN output' \subseteq DOMAIN output \cup {r} /\ DOMAIN output \subseteq DOMAIN output'
      /\ \A q \in DOMAIN output : q # r => output'[q] = output[q]
  BY DEF Reduce, ReduceFails, WriteOutput
<1>4. TypeOK'
  <2>1. reduceTask' \in [ReduceTasks -> {"none", "running", "completed", "failed"}]
        /\ \A q \in ReduceTasks : q >= numReducers => reduceTask'[q] = "none"
    BY <1>1, <1>2 DEF TypeOK
  <2>2. DOMAIN output' \subseteq ReduceTasks
    BY <1>3 DEF TypeOK
  <2> QED BY <1>1, <2>1, <2>2 DEF TypeOK, job
<1>5. PhaseInv'
  BY <1>1 DEF PhaseInv, TypeOK, job
<1>6. WrittenInv' /\ FreshInv'
  BY <1>1, SameJob DEF WrittenInv, FreshInv, job
<1>7. OutputInv'
  <2> SUFFICES ASSUME NEW q \in ReduceTasks, reduceTask'[q] = "completed", mode # "other"
               PROVE  q \in DOMAIN output' /\ output'[q].table = Table(Read(q), mode)
    <3>1. mode' = mode /\ \A q : Read(q)' = Read(q)
      BY <1>1 DEF job, Read, Opened
    <3> QED BY <3>1 DEF OutputInv
  <2>1. CASE q = r
    <3>1. Reduce(r)
      BY <2>1 DEF Reduce, ReduceFails, TypeOK
    <3>2. WriteOutput(r, DOMAIN Table(Read(r), mode))
      BY <3>1 DEF Reduce
    <3> QED BY <2>1, <3>2, WholeOutput
  <2>2. CASE q # r
    <3>1. reduceTask[q] = "completed"
      BY <1>1, <2>2 DEF TypeOK
    <3> QED BY <1>3, <2>2, <3>1 DEF OutputInv
  <2> QED BY <2>1, <2>2
<1> QED BY <1>4, <1>5, <1>6, <1>7

LEMMA JobStep == JobInv /\ [Next]_vars => JobInv'
<1> SUFFICES ASSUME JobInv, [Next]_vars PROVE JobInv'
  OBVIOUS
<1>1. CASE \E n \in 1 .. Len(Texts), k \in 1 .. MaxReducers, kind \in Modes : Launch(n, k, kind)
  BY <1>1, LaunchKeeps
<1>2. CASE StartReducers \/ EndJob
  BY <1>2, ClientKeeps
<1>3. CASE \E m \in MapTasks : Map(m) \/ MapFails(m)
  BY <1>3, MapKeeps
<1>4. CASE \E r \in ReduceTasks : Reduce(r) \/ ReduceFails(r)
  BY <1>4, ReduceKeeps
<1>5. CASE UNCHANGED vars
  <2>1. TypeOK' /\ PhaseInv'
    BY <1>5 DEF vars, JobInv, TypeOK, PhaseInv
  <2>2. WrittenInv' /\ FreshInv'
    BY <1>5, SameJob DEF vars, job, JobInv, WrittenInv, FreshInv
  <2>3. OutputInv'
    <3>1. mode' = mode /\ \A q : Read(q)' = Read(q)
      BY <1>5 DEF vars, Read, Opened
    <3> QED BY <1>5, <3>1 DEF vars, JobInv, OutputInv
  <2> QED BY <2>1, <2>2, <2>3 DEF JobInv
<1> QED BY <1>1, <1>2, <1>3, <1>4, <1>5 DEF Next

(* A completed task has written all it has to: a map task all lines of its   *)
(* file, a reducer what the files for it held when it opened them (main,     *)
(* Map, reduceWordCount).                                                    *)
THEOREM JobInvariant == Spec => []JobInv
<1> QED BY JobInit, JobStep, PTL DEF Spec

-----------------------------------------------------------------------------
(* Lines and the places they are for *)

LinesAt(places) == {Line(p[1], p[2]) : p \in places}

(* What a reducer makes of the lines of one word in this mode.               *)
Value(lines) == IF mode = "word_count" THEN Cardinality(lines)
                ELSE {line.file : line \in lines}

LEMMA PlacesAre ==
    ASSUME NEW w, NEW tasks \in SUBSET MapTasks, NEW p
    PROVE  p \in Places(w, tasks) <=>
               \E m \in tasks : \E i \in 1 .. Len(Texts[m + 1]) :
                   p = <<m, i>> /\ Texts[m + 1][i] = w
BY DEF Places

LEMMA PlacesFinite ==
    ASSUME NEW w, NEW tasks \in SUBSET MapTasks
    PROVE  IsFiniteSet(Places(w, tasks))
<1> DEFINE At(m) == {m} \X {i \in 1 .. Len(Texts[m + 1]) : Texts[m + 1][i] = w}
<1>1. IsFiniteSet(tasks)
  <2>1. IsFiniteSet(MapTasks)
    BY TextTypes, FS_Interval DEF MapTasks
  <2> QED BY <2>1, FS_Subset
<1>2. ASSUME NEW m \in tasks  PROVE IsFiniteSet(At(m))
  <2>1. IsFiniteSet(1 .. Len(Texts[m + 1]))
    <3>1. m \in MapTasks /\ 1 \in Int
      OBVIOUS
    <3>2. Len(Texts[m + 1]) \in Int
      BY <3>1, TextTypes
    <3> QED BY <3>1, <3>2, FS_Interval
  <2>2. IsFiniteSet({i \in 1 .. Len(Texts[m + 1]) : Texts[m + 1][i] = w})
    BY <2>1, FS_Subset
  <2> QED BY <2>2, FS_Singleton, FS_Product
<1>3. IsFiniteSet({At(m) : m \in tasks})
  <2> DEFINE S == {At(m) : m \in tasks}
             f == [m \in tasks |-> At(m)]
  <2>1. f \in Surjection(tasks, S)
    BY DEF Surjection
  <2> QED BY <1>1, <2>1, FS_Surjection
<1>4. \A s \in {At(m) : m \in tasks} : IsFiniteSet(s)
  BY <1>2
<1> QED BY <1>3, <1>4, FS_UNION DEF Places

(* A line tells the place it is for.                                         *)
LEMMA LinesCounted ==
    ASSUME NEW w, NEW tasks \in SUBSET MapTasks
    PROVE  /\ IsFiniteSet(LinesAt(Places(w, tasks)))
           /\ Cardinality(LinesAt(Places(w, tasks))) = Cardinality(Places(w, tasks))
<1> DEFINE P == Places(w, tasks)
           S == LinesAt(P)
           f == [p \in P |-> Line(p[1], p[2])]
<1>1. \A p \in P : p = <<p[1], p[2]>>
  BY PlacesAre
<1>2. \A p \in P : f[p].file = p[1] /\ f[p].at = p[2]
  BY DEF Line
<1>3. f \in [P -> S]
  BY DEF LinesAt
<1> HIDE DEF P
<1>4. f \in Injection(P, S)
  <2>1. \A p, q \in P : f[p] = f[q] => p = q
    BY <1>1, <1>2
  <2> QED BY <1>3, <2>1 DEF Injection, IsInjective
<1>5. f \in Surjection(P, S)
  BY <1>3 DEF Surjection, LinesAt
<1>6. f \in Bijection(P, S)
  BY <1>4, <1>5 DEF Bijection
<1>7. IsFiniteSet(P)
  BY PlacesFinite DEF P
<1>8. ExistsBijection(P, S)
  BY <1>6 DEF ExistsBijection
<1> HIDE DEF S, f
<1>9. IsFiniteSet(S) /\ Cardinality(S) = Cardinality(P)
  BY <1>7, <1>8, FS_Bijection
<1> QED BY <1>9 DEF P, S

LEMMA SequentialIsValue ==
    ASSUME NEW w, NEW tasks \in SUBSET MapTasks
    PROVE  Sequential(w, tasks) = Value(LinesAt(Places(w, tasks)))
<1> DEFINE P == Places(w, tasks)
<1>1. {line.file : line \in LinesAt(P)} = {p[1] : p \in P}
  <2> HIDE DEF P
  <2>1. \A p : Line(p[1], p[2]).file = p[1]
    BY DEF Line
  <2>2. ASSUME NEW p \in P  PROVE p[1] \in {line.file : line \in LinesAt(P)}
    BY <2>1 DEF LinesAt
  <2>3. ASSUME NEW line \in LinesAt(P)  PROVE line.file \in {p[1] : p \in P}
    <3>1. PICK p \in P : line = Line(p[1], p[2])
      BY DEF LinesAt
    <3> QED BY <2>1, <3>1
  <2> QED BY <2>2, <2>3
<1> QED BY <1>1, LinesCounted DEF Sequential, Value

(* The output of a reducer, and nothing for a word it does not have.         *)
LEMMA ResultIsValue ==
    ASSUME NEW r, NEW w, mode # "other", output[r].table = Table(Read(r), mode),
           \A line \in Occurrences(Read(r), w) : line.mode = mode
    PROVE  Result(r, w) = Value(Occurrences(Read(r), w))
<1> DEFINE own == Occurrences(Read(r), w)
<1>1. w \in DOMAIN output[r].table <=> own # {}
  BY DEF Table, Occurrences
<1>2. CASE own = {}
  BY <1>1, <1>2, FS_EmptySet DEF Result, Value
<1>3. CASE own # {}
  <2>1. Result(r, w) = IF mode = "word_count" THEN Count(own) ELSE FilesOf(own)
    BY <1>1, <1>3 DEF Result, Table
  <2>2. CASE mode = "word_count"
    <3>1. {line \in own : line.mode = "word_count"} = own
      BY <2>2
    <3> QED BY <2>1, <2>2, <3>1 DEF Count, Value
  <2>3. CASE mode # "word_count"
    <3>1. FilesOf(own) = {line.file : line \in own}
      BY <2>3 DEF FilesOf
    <3> QED BY <2>1, <2>3, <3>1 DEF Value
  <2> QED BY <2>2, <2>3
<1> QED BY <1>2, <1>3

LEMMA ValueGrows ==
    ASSUME NEW S, NEW T, S \subseteq T, IsFiniteSet(T)
    PROVE  AtLeast(Value(T), Value(S))
<1>1. Cardinality(S) \in Nat /\ Cardinality(T) \in Nat /\ Cardinality(S) <= Cardinality(T)
  BY FS_Subset, FS_CardinalityType
<1> QED BY <1>1 DEF AtLeast, Value

-----------------------------------------------------------------------------
(* What a reducer reads *)

(* The tasks whose occurrences of a word go to reducer r.                    *)
Mine(r, w, tasks) == IF Bucket(w, numReducers) = r THEN tasks ELSE {}

LEMMA AllWrittenHas ==
    ASSUME mode # "other", NEW m \in MapTasks, NEW r, NEW line
    PROVE  line \in AllWritten(m, r) <=>
               \E i \in 1 .. Len(Texts[m + 1]) :
                   Bucket(Texts[m + 1][i], numReducers) = r /\ line = Line(m, i)
BY DEF AllWritten, Written, Created

LEMMA ReadAtLeast ==
    ASSUME mode # "other", NEW r, NEW w, NEW tasks \in SUBSET Opened(r),
           \A m \in tasks : AllWritten(m, r) \subseteq intermediate[<<m, r>>]
    PROVE  LinesAt(Places(w, Mine(r, w, tasks))) \subseteq Occurrences(Read(r), w)
<1> SUFFICES ASSUME NEW line \in LinesAt(Places(w, Mine(r, w, tasks)))
             PROVE  line \in Occurrences(Read(r), w)
  OBVIOUS
<1>1. tasks \subseteq MapTasks /\ Mine(r, w, tasks) \subseteq MapTasks
  BY DEF Opened, Mine
<1>2. PICK p \in Places(w, Mine(r, w, tasks)) : line = Line(p[1], p[2])
  BY DEF LinesAt
<1>3. PICK m \in Mine(r, w, tasks) :
          \E i \in 1 .. Len(Texts[m + 1]) : p = <<m, i>> /\ Texts[m + 1][i] = w
  <2> QED BY <1>2 DEF Places
<1>4. m \in tasks /\ Bucket(w, numReducers) = r
  BY DEF Mine
<1>5. PICK i \in 1 .. Len(Texts[m + 1]) : p = <<m, i>> /\ Texts[m + 1][i] = w
  BY <1>3
<1>6. line = Line(m, i) /\ line.word = w /\ line \in AllWritten(m, r)
  <2>1. line = Line(m, i) /\ line.word = w
    BY <1>2, <1>5 DEF Line
  <2> QED BY <1>1, <1>4, <1>5, <2>1, AllWrittenHas
<1>7. line \in Read(r)
  BY <1>4, <1>6 DEF Read
<1> QED BY <1>6, <1>7 DEF Occurrences

LEMMA ReadAtMost ==
    ASSUME mode # "other", NEW r, NEW w, NEW tasks \in SUBSET MapTasks, Opened(r) \subseteq tasks,
           \A m \in Opened(r) : intermediate[<<m, r>>] \subseteq AllWritten(m, r)
    PROVE  Occurrences(Read(r), w) \subseteq LinesAt(Places(w, Mine(r, w, tasks)))
<1> SUFFICES ASSUME NEW line \in Occurrences(Read(r), w)
             PROVE  line \in LinesAt(Places(w, Mine(r, w, tasks)))
  OBVIOUS
<1>1. PICK m \in Opened(r) : line \in intermediate[<<m, r>>]
  BY DEF Occurrences, Read
<1>2. m \in tasks /\ m \in MapTasks /\ line \in AllWritten(m, r) /\ line.word = w
  BY <1>1 DEF Occurrences
<1>3. PICK i \in 1 .. Len(Texts[m + 1]) :
          Bucket(Texts[m + 1][i], numReducers) = r /\ line = Line(m, i)
  BY <1>2, AllWrittenHas
<1>4. Texts[m + 1][i] = w
  BY <1>2, <1>3 DEF Line
<1>5. m \in Mine(r, w, tasks) /\ Mine(r, w, tasks) \in SUBSET MapTasks
  BY <1>2, <1>3, <1>4 DEF Mine
<1>6. <<m, i>> \in Places(w, Mine(r, w, tasks))
  BY <1>4, <1>5, PlacesAre
<1> QED BY <1>3, <1>6 DEF LinesAt

(* What the tasks of a set have written bounds what the reducer reports.     *)
LEMMA LinesInMode ==
    ASSUME NEW w, NEW tasks, NEW lines \in SUBSET LinesAt(Places(w, tasks))
    PROVE  \A line \in lines : line.mode = mode
BY DEF LinesAt, Line

LEMMA BucketInRange ==
    ASSUME NEW w \in Words, NEW k \in Nat \ {0}, Hash[w] >= 0
    PROVE  Bucket(w, k) \in 0 .. k - 1
<1>1. Hash[w] \in Int
  OBVIOUS
<1> QED BY <1>1 DEF Bucket

-----------------------------------------------------------------------------
(* The theorems *)

LEMMA SequentialJob == JobInv => JobIsSequential
<1> SUFFICES ASSUME JobInv, Ended, Failed(mapTask) = {}, Failed(reduceTask) = {},
                    NEW r \in 0 .. numReducers - 1, LoopEnds(r), NEW w \in Words
             PROVE  /\ Result(r, w) = Sequential(w, IF Bucket(w, numReducers) = r
                                                    THEN Inputs ELSE {})
                    /\ Hash[w] >= 0 => Bucket(w, numReducers) \in 0 .. numReducers - 1
  BY DEF JobIsSequential
<1> USE DEF JobInv
<1>1. mode # "other" /\ phase = "idle"
  BY DEF Ended
<1>2. /\ numMappers \in Nat /\ numReducers \in Nat \ {0} /\ Inputs \subseteq MapTasks
      /\ r \in ReduceTasks /\ r < numReducers
  BY TextTypes DEF TypeOK, Inputs, MapTasks, ReduceTasks
<1>3. \A m \in Inputs : mapTask[m] = "completed"
  BY <1>1, <1>2 DEF TypeOK, PhaseInv, Failed, Inputs
<1>4. \A m \in Inputs : /\ <<m, r>> \in DOMAIN intermediate
                        /\ intermediate[<<m, r>>] = AllWritten(m, r)
  BY <1>2, <1>3 DEF WrittenInv
<1>5. Opened(r) = Inputs
  <2>1. ASSUME NEW m \in Opened(r)  PROVE m \in Inputs
    <3>1. m \in Nat /\ \A l \in 0 .. m : <<l, r>> \in DOMAIN intermediate
      BY TextTypes DEF Opened
    <3>2. numMappers \notin 0 .. m
      BY <3>1 DEF LoopEnds
    <3> QED BY <1>2, <3>1, <3>2 DEF Inputs
  <2>2. ASSUME NEW m \in Inputs  PROVE m \in Opened(r)
    <3>1. \A l \in 0 .. m : l \in Inputs
      BY <1>2 DEF Inputs
    <3> QED BY <1>2, <1>4, <3>1 DEF Opened
  <2> QED BY <2>1, <2>2
<1> DEFINE own == Occurrences(Read(r), w)
           mine == Mine(r, w, Inputs)
<1>6. own = LinesAt(Places(w, mine))
  <2>1. LinesAt(Places(w, mine)) \subseteq own
    BY <1>1, <1>4, <1>5, ReadAtLeast
  <2>2. own \subseteq LinesAt(Places(w, mine))
    BY <1>1, <1>2, <1>4, <1>5, ReadAtMost
  <2> QED BY <2>1, <2>2
<1>7. output[r].table = Table(Read(r), mode)
  <2>1. reduceTask[r] = "completed"
    BY <1>1, <1>2 DEF TypeOK, PhaseInv, Failed
  <2> QED BY <1>1, <1>2, <2>1 DEF OutputInv
<1>8. Result(r, w) = Sequential(w, mine)
  <2>1. mine \in SUBSET MapTasks
    BY <1>2 DEF Mine
  <2>2. \A line \in own : line.mode = mode
    BY <1>6, LinesInMode
  <2> QED BY <1>1, <1>6, <1>7, <2>1, <2>2, ResultIsValue, SequentialIsValue
<1> QED BY <1>2, <1>8, BucketInRange DEF Mine

LEMMA LossyJob == JobInv => FailuresOnlyLose
<1> DEFINE before == {m \in Inputs : \A l \in 0 .. m : mapTask[l] = "completed"}
<1> SUFFICES ASSUME JobInv, Ended, ~leftOver, NEW r \in 0 .. numReducers - 1, NEW w \in Words,
                    reduceTask[r] = "completed"
             PROVE  /\ AtLeast(Result(r, w), Sequential(w, Mine(r, w, before)))
                    /\ AtLeast(Sequential(w, Mine(r, w, Inputs)), Result(r, w))
  BY DEF FailuresOnlyLose, Mine
<1> USE DEF JobInv
<1>1. mode # "other"
  BY DEF Ended
<1>2. /\ numMappers \in Nat /\ numReducers \in Nat /\ Inputs \subseteq MapTasks
      /\ r \in ReduceTasks /\ before \subseteq Inputs
  BY TextTypes DEF TypeOK, Inputs, MapTasks, ReduceTasks
<1>3. before \subseteq Opened(r)
  <2> SUFFICES ASSUME NEW m \in before  PROVE m \in Opened(r)
    OBVIOUS
  <2>1. ASSUME NEW l \in 0 .. m  PROVE <<l, r>> \in DOMAIN intermediate
    <3>1. l \in MapTasks /\ mapTask[l] = "completed"
      BY <1>2 DEF Inputs, MapTasks
    <3> QED BY <3>1 DEF WrittenInv
  <2> QED BY <1>2, <2>1 DEF Opened
<1>4. \A m \in before : AllWritten(m, r) \subseteq intermediate[<<m, r>>]
  <2> SUFFICES ASSUME NEW m \in before  PROVE intermediate[<<m, r>>] = AllWritten(m, r)
    OBVIOUS
  <2>1. m \in MapTasks /\ mapTask[m] = "completed"
    BY <1>2 DEF Inputs
  <2> QED BY <2>1 DEF WrittenInv
<1>5. Opened(r) \subseteq Inputs
      /\ \A m \in Opened(r) : intermediate[<<m, r>>] \subseteq AllWritten(m, r)
  <2> SUFFICES ASSUME NEW m \in Opened(r)
               PROVE  m \in Inputs /\ intermediate[<<m, r>>] \subseteq AllWritten(m, r)
    OBVIOUS
  <2>1. m \in Nat /\ <<m, r>> \in DOMAIN intermediate
    BY TextTypes DEF Opened
  <2>2. m < numMappers /\ intermediate[<<m, r>>] \subseteq AllWritten(m, r)
    BY <2>1 DEF FreshInv
  <2> QED BY <1>2, <2>1, <2>2 DEF Inputs
<1> DEFINE own == Occurrences(Read(r), w)
           least == LinesAt(Places(w, Mine(r, w, before)))
           most == LinesAt(Places(w, Mine(r, w, Inputs)))
<1>6. least \subseteq own /\ own \subseteq most
  <2>1. least \subseteq own
    BY <1>1, <1>3, <1>4, ReadAtLeast
  <2>2. own \subseteq most
    BY <1>1, <1>2, <1>5, ReadAtMost
  <2> QED BY <2>1, <2>2
<1>7. Mine(r, w, before) \in SUBSET MapTasks /\ Mine(r, w, Inputs) \in SUBSET MapTasks
  BY <1>2 DEF Mine
<1>8. IsFiniteSet(most) /\ IsFiniteSet(own)
  BY <1>6, <1>7, LinesCounted, FS_Subset
<1>9. Result(r, w) = Value(own)
  <2>1. output[r].table = Table(Read(r), mode)
    BY <1>1, <1>2 DEF OutputInv
  <2>2. \A line \in own : line.mode = mode
    BY <1>6, LinesInMode
  <2> QED BY <1>1, <2>1, <2>2, ResultIsValue
<1>10. AtLeast(Value(own), Value(least)) /\ AtLeast(Value(most), Value(own))
  BY <1>6, <1>8, ValueGrows
<1> QED BY <1>7, <1>9, <1>10, SequentialIsValue

(* The tasks, files and counters keep to their types (main).                 *)
THEOREM JobTypes == Spec => []TypeOK
<1>1. JobInv => TypeOK
  BY DEF JobInv
<1> QED BY <1>1, JobInvariant, PTL

(* A job none of whose tasks failed computes what a sequential program       *)
(* would, for every input, hash and number of reducers, and order of tasks   *)
(* (main, Map, reduceWordCount, reduceInvertedIndex).                        *)
THEOREM JobsAreSequential == Spec => []JobIsSequential
<1> QED BY JobInvariant, SequentialJob, PTL

(* On a fresh installation, whichever tasks fail, a completed reducer        *)
(* reports nothing the inputs do not have, and everything the map tasks      *)
(* before the first that failed have (reduceWordCount, reduceInvertedIndex). *)
THEOREM FailuresLose == Spec => []FailuresOnlyLose
<1> QED BY JobInvariant, LossyJob, PTL
=============================================================================
