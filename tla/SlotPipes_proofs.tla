--------------------------- MODULE SlotPipes_proofs ---------------------------
(***************************************************************************)
(* The pipes of the jobs, for every number of jobs and slots, every        *)
(* capacity of a pipe and every size of output: the host holds exactly the *)
(* ends its slots and readers work with, and a reader that has come to the *)
(* end has all of its job's output and nothing else.                       *)
(***************************************************************************)
EXTENDS SlotPipes, Lemmas

-----------------------------------------------------------------------------
(* The inductive invariant, by parts.                                       *)

Typed ==
    /\ size \in [Jobs -> [Streams -> 0 .. MaxSize]]
    /\ pc \in [Jobs -> InSlot \cup {"todo", "readOut", "readErr", "drop", "done"}]
    /\ table \in [Processes -> SUBSET Ends]
    /\ std \in [Jobs -> [Streams -> Ends \cup {None}]]
    /\ shell \in [Jobs -> {"none", "running", "exited", "failed"}]
    /\ left \in [Jobs -> [Streams -> 0 .. MaxSize]]
    /\ pipe \in [Jobs -> [Streams -> Seq(Jobs \X Streams)]]
    /\ got \in [Jobs -> [Streams -> Seq(Jobs \X Streams)]]

Reading == {"readOut", "readErr", "drop"}

AfterFork == {"closeOut", "closeErr", "wait"} \cup Reading

(* Which ends of its pipes the host holds, at each point of a job.          *)
HostInv ==
    \A j \in Jobs :
        /\ End(j, "out", "read") \in table[Host] <=> pc[j] \in AfterFork \cup {"pipeErr", "fork"}
        /\ End(j, "err", "read") \in table[Host] <=> pc[j] \in AfterFork \cup {"fork"}
        /\ End(j, "out", "write") \in table[Host] <=> pc[j] \in {"pipeErr", "fork", "closeOut"}
        /\ End(j, "err", "write") \in table[Host] <=> pc[j] \in {"fork", "closeOut", "closeErr"}

(* A shell runs while its slot closes the write ends and waits; one that    *)
(* has exited has printed everything.                                       *)
ShellInv ==
    \A j \in Jobs :
        /\ shell[j] = "none" <=> pc[j] \in {"todo", "pipeOut", "pipeErr", "fork"}
        /\ shell[j] = "running" => /\ pc[j] \in {"closeOut", "closeErr", "wait"}
                                   /\ \A s \in Streams : std[j][s] = End(j, s, "write")
        /\ pc[j] \in Reading => shell[j] = "exited"
        /\ shell[j] = "exited" => \A s \in Streams : left[j][s] = 0

(* What a job has still to print, what is in its pipe and what its reader   *)
(* has are the job's output, and a reader leaves a stream when it is empty. *)
StreamInv(j, s) ==
    /\ pipe[j][s] \in Seq({<<j, s>>}) /\ got[j][s] \in Seq({<<j, s>>})
    /\ Len(got[j][s]) + Len(pipe[j][s]) + left[j][s] = size[j][s]

OutputInv ==
    /\ \A j \in Jobs, s \in Streams : StreamInv(j, s)
    /\ \A j \in Jobs : shell[j] = "exited" =>
          /\ pc[j] \in {"readErr", "drop", "done"} => pipe[j]["out"] = <<>>
          /\ pc[j] \in {"drop", "done"} => pipe[j]["err"] = <<>>

Inv == Typed /\ HostInv /\ ShellInv /\ OutputInv

-----------------------------------------------------------------------------
(* Ends.                                                                    *)

LEMMA EndsDiffer ==
    /\ \A j \in Jobs, s \in Streams, a \in {"read", "write"} : End(j, s, a) \in Ends
    /\ \A j \in Jobs, s \in Streams, a \in {"read", "write"} :
          End(j, s, a).job = j /\ End(j, s, a).stream = s /\ End(j, s, a).side = a
    /\ \A e \in Ends : /\ e.job \in Jobs /\ e.stream \in Streams /\ e.side \in {"read", "write"}
                       /\ e = End(e.job, e.stream, e.side)
  BY DEF Ends, End

LEMMA ReadEnds ==
    ASSUME NEW j
    PROVE  {End(j, s, "read") : s \in Streams} = {End(j, "out", "read"), End(j, "err", "read")}
  BY DEF Streams

LEMMA InvInit == ASSUME Init PROVE Inv
<1>. USE PipesAssumption
<1>1. Typed
  <2>1. <<>> \in Seq(Jobs \X Streams)
    BY EmptySeq
  <2>. QED  BY <2>1 DEF Init, Typed, InSlot
<1>2. HostInv
  BY DEF Init, HostInv, AfterFork, Reading, Processes
<1>3. ShellInv
  BY DEF Init, ShellInv, Reading
<1>4. OutputInv
  <2>1. ASSUME NEW j \in Jobs, NEW s \in Streams PROVE StreamInv(j, s)
    <3>1. <<>> \in Seq({<<j, s>>}) /\ Len(<<>>) = 0
      BY EmptySeq
    <3>2. pipe[j][s] = <<>> /\ got[j][s] = <<>> /\ left[j][s] = size[j][s] /\ size[j][s] \in Nat
      BY DEF Init
    <3>. QED  BY <3>1, <3>2 DEF StreamInv
  <2>. QED  BY <2>1 DEF Init, OutputInv
<1>. QED  BY <1>1, <1>2, <1>3, <1>4 DEF Inv

-----------------------------------------------------------------------------
(* Steps that touch no output.                                              *)

(* A job moves on, its ends in the host and its shell with it.              *)
LEMMA QuietStep ==
    ASSUME Inv, NEW j \in Jobs, NEW p, NEW H,
           pc' = [pc EXCEPT ![j] = p],
           p \in InSlot \cup {"todo", "readOut", "readErr", "drop", "done"},
           table'[Host] = H, H \subseteq Ends,
           \A e \in Ends : e.job # j => (e \in H <=> e \in table[Host]),
           End(j, "out", "read") \in H <=> p \in AfterFork \cup {"pipeErr", "fork"},
           End(j, "err", "read") \in H <=> p \in AfterFork \cup {"fork"},
           End(j, "out", "write") \in H <=> p \in {"pipeErr", "fork", "closeOut"},
           End(j, "err", "write") \in H <=> p \in {"fork", "closeOut", "closeErr"},
           shell'[j] = "none" <=> p \in {"todo", "pipeOut", "pipeErr", "fork"},
           shell'[j] = "running" =>
              p \in {"closeOut", "closeErr", "wait"}
              /\ \A s \in Streams : std'[j][s] = End(j, s, "write"),
           p \in Reading => shell'[j] = "exited",
           shell'[j] = "exited" =>
              /\ \A s \in Streams : left[j][s] = 0
              /\ p \in {"readErr", "drop", "done"} => pipe[j]["out"] = <<>>
              /\ p \in {"drop", "done"} => pipe[j]["err"] = <<>>,
           \A k \in Jobs \ {j} : shell'[k] = shell[k] /\ std'[k] = std[k],
           Typed',
           UNCHANGED <<size, left, pipe, got>>
    PROVE  Inv'
<1>. USE DEF Inv
<1>1. pc'[j] = p /\ \A k \in Jobs \ {j} : pc'[k] = pc[k]
  BY DEF Typed
<1>2. HostInv'
  <2>1. ASSUME NEW k \in Jobs \ {j}, NEW s \in Streams, NEW a \in {"read", "write"}
        PROVE  End(k, s, a) \in table'[Host] <=> End(k, s, a) \in table[Host]
    BY EndsDiffer
  <2>2. "out" \in Streams /\ "err" \in Streams
    BY DEF Streams
  <2>3. ASSUME NEW k \in Jobs
        PROVE  /\ End(k, "out", "read") \in table'[Host]
                     <=> pc'[k] \in AfterFork \cup {"pipeErr", "fork"}
               /\ End(k, "err", "read") \in table'[Host] <=> pc'[k] \in AfterFork \cup {"fork"}
               /\ End(k, "out", "write") \in table'[Host]
                     <=> pc'[k] \in {"pipeErr", "fork", "closeOut"}
               /\ End(k, "err", "write") \in table'[Host]
                     <=> pc'[k] \in {"fork", "closeOut", "closeErr"}
    <3>1. CASE k = j
      BY <1>1, <3>1
    <3>2. CASE k # j
      BY <1>1, <2>1, <2>2, <3>2 DEF HostInv
    <3>. QED  BY <3>1, <3>2
  <2>. QED  BY <2>3 DEF HostInv
<1>3. ShellInv'
  BY <1>1 DEF ShellInv
<1>4. OutputInv'
  <2>1. \A k \in Jobs, s \in Streams : StreamInv(k, s)'
    BY DEF OutputInv, StreamInv
  <2>. QED  BY <1>1, <2>1 DEF OutputInv
<1>. QED  BY <1>2, <1>3, <1>4

LEMMA TypedStep ==
    ASSUME Typed, NEW j \in Jobs, NEW p \in InSlot \cup {"todo", "readOut", "readErr", "drop", "done"},
           pc' = [pc EXCEPT ![j] = p],
           table' \in [Processes -> SUBSET Ends],
           std' \in [Jobs -> [Streams -> Ends \cup {None}]],
           shell' \in [Jobs -> {"none", "running", "exited", "failed"}],
           UNCHANGED <<size, left, pipe, got>>
    PROVE  Typed'
  BY DEF Typed

(* Holding and releasing ends keeps a table a set of ends, and changes it   *)
(* for one process.                                                         *)
LEMMA TableChanges ==
    ASSUME Typed, NEW p \in Processes, NEW E \in SUBSET Ends
    PROVE  /\ Hold(p, E) => /\ table' \in [Processes -> SUBSET Ends]
                            /\ table'[p] = table[p] \cup E
                            /\ \A q \in Processes \ {p} : table'[q] = table[q]
           /\ Release(p, E) => /\ table' \in [Processes -> SUBSET Ends]
                               /\ table'[p] = table[p] \ E
                               /\ \A q \in Processes \ {p} : table'[q] = table[q]
  BY DEF Typed, Hold, Release

(* The slots and readers; who the host is does not matter to a step.        *)
LEMMA TakeJobStep == ASSUME Inv, NEW j \in Jobs, TakeJob(j) PROVE Inv'
<1>. USE DEF Inv
<1>1. /\ pc[j] = "todo" /\ pc' = [pc EXCEPT ![j] = "pipeOut"]
      /\ UNCHANGED <<size, table, std, shell, left, pipe, got>>
  BY DEF TakeJob, Goto
<1>2. Typed'
  BY <1>1, TypedStep DEF Typed, InSlot
<1>3. table'[Host] \subseteq Ends
  BY <1>2 DEF Typed, Processes
<1>4. shell[j] = "none"
  BY <1>1 DEF ShellInv
<1>. DEFINE H == table'[Host]
<1>5. /\ End(j, "out", "read") \notin H /\ End(j, "err", "read") \notin H
      /\ End(j, "out", "write") \notin H /\ End(j, "err", "write") \notin H
  BY <1>1 DEF HostInv, AfterFork, Reading
<1>6. \A e \in Ends : e.job # j => (e \in H <=> e \in table[Host])
  BY <1>1
<1>7. "pipeOut" \in InSlot /\ "pipeOut" \notin AfterFork /\ "pipeOut" \notin Reading
  BY DEF InSlot, AfterFork, Reading
<1>8. table'[Host] = H
  OBVIOUS
<1>. HIDE DEF H
<1>. QED  BY <1>1, <1>2, <1>3, <1>4, <1>5, <1>6, <1>7, <1>8, QuietStep

LEMMA OpenPipeStep == ASSUME Inv, NEW j \in Jobs, NEW s \in Streams, OpenPipe(j, s) PROVE Inv'
<1>. USE DEF Inv
<1>. DEFINE E == {End(j, s, "read"), End(j, s, "write")}
            p == IF s = "out" THEN "pipeErr" ELSE "fork"
            H == table'[Host]
<1>1. /\ pc[j] = IF s = "out" THEN "pipeOut" ELSE "pipeErr"
      /\ Hold(Host, E) /\ pc' = [pc EXCEPT ![j] = p]
      /\ UNCHANGED <<size, std, shell, left, pipe, got>>
  BY DEF OpenPipe, Goto
<1>2. E \in SUBSET Ends /\ Host \in Processes /\ \A e \in E : e.job = j
  BY EndsDiffer DEF Processes
<1>3. table' \in [Processes -> SUBSET Ends] /\ H = table[Host] \cup E /\ H \subseteq Ends
  <2>. HIDE DEF E
  <2>. QED  BY <1>1, <1>2, TableChanges
<1>4. Typed'
  BY <1>1, <1>3, TypedStep DEF Typed, InSlot
<1>5. shell[j] = "none"
  BY <1>1 DEF ShellInv
<1>6. \A e \in Ends : e.job # j => (e \in H <=> e \in table[Host])
  BY <1>2, <1>3
<1>7. /\ End(j, "out", "read") \in H <=> p \in AfterFork \cup {"pipeErr", "fork"}
      /\ End(j, "err", "read") \in H <=> p \in AfterFork \cup {"fork"}
      /\ End(j, "out", "write") \in H <=> p \in {"pipeErr", "fork", "closeOut"}
      /\ End(j, "err", "write") \in H <=> p \in {"fork", "closeOut", "closeErr"}
  <2>1. /\ End(j, "out", "read").stream = "out" /\ End(j, "err", "read").stream = "err"
        /\ End(j, "out", "write").stream = "out" /\ End(j, "err", "write").stream = "err"
        /\ \A e \in E : e.stream = s
    BY EndsDiffer DEF Streams
  <2>2. CASE s = "out"
    <3>1. p = "pipeErr" /\ pc[j] = "pipeOut"
      BY <1>1, <2>2
    <3>2. End(j, "out", "read") \in E /\ End(j, "out", "write") \in E
      BY <2>2
    <3>3. End(j, "err", "read") \notin E /\ End(j, "err", "write") \notin E
      BY <2>1, <2>2
    <3>. HIDE DEF p, E, H
    <3>. QED  BY <1>3, <3>1, <3>2, <3>3 DEF HostInv, AfterFork, Reading
  <2>3. CASE s = "err"
    <3>1. p = "fork" /\ pc[j] = "pipeErr"
      BY <1>1, <2>3
    <3>2. End(j, "err", "read") \in E /\ End(j, "err", "write") \in E
      BY <2>3
    <3>. HIDE DEF p, E, H
    <3>. QED  BY <1>3, <3>1, <3>2 DEF HostInv, AfterFork, Reading
  <2>. QED  BY <2>2, <2>3 DEF Streams
<1>8. /\ p \in InSlot /\ p \notin Reading /\ p \in {"todo", "pipeOut", "pipeErr", "fork"}
      /\ H = table'[Host]
  BY DEF InSlot, Reading
<1>. HIDE DEF H, E, p
<1>. QED  BY <1>1, <1>3, <1>4, <1>5, <1>6, <1>7, <1>8, QuietStep

LEMMA ForkStep == ASSUME Inv, NEW j \in Jobs, Fork(j) \/ ForkFails(j) PROVE Inv'
<1>. USE DEF Inv
<1>. DEFINE H == table'[Host]
<1>1. /\ pc[j] = "fork" /\ pc' = [pc EXCEPT ![j] = "closeOut"]
      /\ UNCHANGED <<size, left, pipe, got>>
  BY DEF Fork, ForkFails, Goto
<1>2. /\ j \in Processes /\ j # Host /\ Host \in Processes
      /\ table[Host] \ OwnEnds(j) \in SUBSET Ends
  BY PipesAssumption DEF Processes, Typed
<1>3. /\ table' \in [Processes -> SUBSET Ends] /\ H = table[Host]
  <2>1. CASE Fork(j)
    <3>1. Hold(j, table[Host] \ OwnEnds(j))
      BY <2>1 DEF Fork
    <3>. QED  BY <1>2, <3>1, TableChanges
  <2>2. CASE ForkFails(j)
    BY <2>2 DEF ForkFails, Typed
  <2>. QED  BY <2>1, <2>2
<1>4. /\ std' \in [Jobs -> [Streams -> Ends \cup {None}]]
      /\ shell' \in [Jobs -> {"none", "running", "exited", "failed"}]
      /\ shell'[j] \in {"running", "failed"}
      /\ shell'[j] = "running" => \A s \in Streams : std'[j][s] = End(j, s, "write")
      /\ \A k \in Jobs \ {j} : shell'[k] = shell[k] /\ std'[k] = std[k]
  <2>1. Redirect(j) \in [Streams -> Ends \cup {None}]
    BY EndsDiffer DEF Redirect
  <2>2. \A s \in Streams : Redirect(j)[s] = End(j, s, "write")
    BY DEF Redirect
  <2>. QED  BY <2>1, <2>2 DEF Fork, ForkFails, Typed
<1>5. Typed'
  BY <1>1, <1>3, <1>4, TypedStep DEF InSlot
<1>6. /\ End(j, "out", "read") \in H /\ End(j, "err", "read") \in H
      /\ End(j, "out", "write") \in H /\ End(j, "err", "write") \in H
  BY <1>1, <1>3 DEF HostInv
<1>7. /\ H = table'[Host] /\ H \subseteq Ends
      /\ \A e \in Ends : e.job # j => (e \in H <=> e \in table[Host])
  BY <1>2, <1>3
<1>8. "closeOut" \in InSlot /\ "closeOut" \in AfterFork /\ "closeOut" \notin Reading
  BY DEF InSlot, AfterFork, Reading
<1>. HIDE DEF H
<1>. QED  BY <1>1, <1>4, <1>5, <1>6, <1>7, <1>8, QuietStep

LEMMA CloseWriteEndStep ==
    ASSUME Inv, NEW j \in Jobs, NEW s \in Streams, CloseWriteEnd(j, s)
    PROVE  Inv'
<1>. USE DEF Inv
<1>. DEFINE E == {End(j, s, "write")}
            p == IF s = "out" THEN "closeErr" ELSE "wait"
            H == table'[Host]
<1>1. /\ pc[j] = IF s = "out" THEN "closeOut" ELSE "closeErr"
      /\ Release(Host, E) /\ pc' = [pc EXCEPT ![j] = p]
      /\ UNCHANGED <<size, std, shell, left, pipe, got>>
  BY DEF CloseWriteEnd, Goto
<1>2. E \in SUBSET Ends /\ Host \in Processes /\ \A e \in E : e.job = j
  BY EndsDiffer DEF Processes
<1>3. table' \in [Processes -> SUBSET Ends] /\ H = table[Host] \ E /\ H \subseteq Ends
  <2>. HIDE DEF E
  <2>. QED  BY <1>1, <1>2, TableChanges
<1>4. Typed'
  BY <1>1, <1>3, TypedStep DEF Typed, InSlot
<1>5. \A e \in Ends : e.job # j => (e \in H <=> e \in table[Host])
  BY <1>2, <1>3
<1>6. /\ End(j, "out", "read") \in H <=> p \in AfterFork \cup {"pipeErr", "fork"}
      /\ End(j, "err", "read") \in H <=> p \in AfterFork \cup {"fork"}
      /\ End(j, "out", "write") \in H <=> p \in {"pipeErr", "fork", "closeOut"}
      /\ End(j, "err", "write") \in H <=> p \in {"fork", "closeOut", "closeErr"}
  <2>1. /\ End(j, "out", "read") \notin E /\ End(j, "err", "read") \notin E
        /\ End(j, "out", "write") \in E <=> s = "out"
        /\ End(j, "err", "write") \in E <=> s = "err"
    BY EndsDiffer DEF Streams, End
  <2>2. CASE s = "out"
    <3>1. p = "closeErr" /\ pc[j] = "closeOut"
      BY <1>1, <2>2
    <3>. HIDE DEF p, E, H
    <3>. QED  BY <1>3, <2>1, <2>2, <3>1 DEF HostInv, AfterFork, Reading
  <2>3. CASE s = "err"
    <3>1. p = "wait" /\ pc[j] = "closeErr"
      BY <1>1, <2>3
    <3>. HIDE DEF p, E, H
    <3>. QED  BY <1>3, <2>1, <2>3, <3>1 DEF HostInv, AfterFork, Reading
  <2>. QED  BY <2>2, <2>3 DEF Streams
<1>7. /\ p \in InSlot /\ p \notin Reading /\ p \in {"closeOut", "closeErr", "wait"}
      /\ p \notin {"todo", "pipeOut", "pipeErr", "fork"}
      /\ p \notin {"readErr", "drop", "done"} /\ p \notin {"drop", "done"}
      /\ H = table'[Host]
  BY DEF InSlot, Reading
<1>8. /\ shell'[j] # "none"
      /\ shell'[j] = "running" => \A t \in Streams : std'[j][t] = End(j, t, "write")
      /\ shell'[j] = "exited" => \A t \in Streams : left[j][t] = 0
      /\ \A k \in Jobs \ {j} : shell'[k] = shell[k] /\ std'[k] = std[k]
      /\ UNCHANGED <<size, left, pipe, got>>
      /\ pc' = [pc EXCEPT ![j] = p]
  BY <1>1 DEF ShellInv
<1>. HIDE DEF H, E, p
<1>. QED  BY <1>3, <1>4, <1>5, <1>6, <1>7, <1>8, QuietStep

(* The slot or the reader moves on, and the ends it holds are still needed. *)
LEMMA StayOpenStep ==
    ASSUME Inv, NEW j \in Jobs, StoreResult(j) \/ \E s \in Streams : ReadEnd(j, s)
    PROVE  Inv'
<1>. USE DEF Inv
<1>. DEFINE H == table'[Host]
<1>1. PICK p \in Reading :
          /\ pc' = [pc EXCEPT ![j] = p] /\ pc[j] \in {"wait", "readOut", "readErr"}
          /\ shell[j] = "exited"
          /\ p \in {"readErr", "drop"} => pipe[j]["out"] = <<>>
          /\ p = "drop" => pipe[j]["err"] = <<>>
          /\ UNCHANGED <<size, table, std, shell, left, pipe, got>>
  <2>1. CASE StoreResult(j)
    BY <2>1 DEF StoreResult, Goto, Reading
  <2>2. ASSUME NEW s \in Streams, ReadEnd(j, s)
        PROVE  \E p \in Reading :
                  /\ pc' = [pc EXCEPT ![j] = p] /\ pc[j] \in {"wait", "readOut", "readErr"}
                  /\ shell[j] = "exited"
                  /\ p \in {"readErr", "drop"} => pipe[j]["out"] = <<>>
                  /\ p = "drop" => pipe[j]["err"] = <<>>
                  /\ UNCHANGED <<size, table, std, shell, left, pipe, got>>
    <3>1. /\ pc[j] = IF s = "out" THEN "readOut" ELSE "readErr"
          /\ pc' = [pc EXCEPT ![j] = IF s = "out" THEN "readErr" ELSE "drop"]
          /\ pipe[j][s] = <<>>
          /\ UNCHANGED <<size, table, std, shell, left, pipe, got>>
      BY <2>2 DEF ReadEnd, Goto
    <3>2. shell[j] = "exited"
      BY <3>1 DEF ShellInv, Reading
    <3>3. CASE s = "out"
      BY <3>1, <3>2, <3>3 DEF Reading
    <3>4. CASE s = "err"
      BY <3>1, <3>2, <3>4 DEF Reading, OutputInv
    <3>. QED  BY <3>3, <3>4 DEF Streams
  <2>. QED  BY <2>1, <2>2
<1>2. p \in AfterFork /\ p \in InSlot \cup {"todo", "readOut", "readErr", "drop", "done"}
      /\ p \notin {"todo", "pipeOut", "pipeErr", "fork"} /\ p \notin {"closeOut", "closeErr"}
  BY DEF Reading, AfterFork
<1>3. Typed'
  BY <1>1, <1>2, TypedStep DEF Typed
<1>4. H = table'[Host] /\ H = table[Host] /\ H \subseteq Ends
  BY <1>1, <1>3 DEF Typed, Processes
<1>5. /\ End(j, "out", "read") \in H /\ End(j, "err", "read") \in H
      /\ End(j, "out", "write") \notin H /\ End(j, "err", "write") \notin H
  BY <1>1, <1>4 DEF HostInv, AfterFork, Reading
<1>6. \A s \in Streams : left[j][s] = 0
  BY <1>1 DEF ShellInv
<1>7. /\ p \in {"readErr", "drop", "done"} => pipe[j]["out"] = <<>>
      /\ p \in {"drop", "done"} => pipe[j]["err"] = <<>>
  BY <1>1 DEF Reading
<1>8. p \notin {"pipeErr", "fork", "closeOut"} /\ p \notin {"fork", "closeOut", "closeErr"}
  BY <1>2
<1>. HIDE DEF H
<1>. QED  BY <1>1, <1>2, <1>3, <1>4, <1>5, <1>6, <1>7, <1>8, QuietStep

(* The read ends are closed, on the error path or by the reader.            *)
LEMMA DropStep == ASSUME Inv, NEW j \in Jobs, StoreFailure(j) \/ DropFiles(j) PROVE Inv'
<1>. USE DEF Inv
<1>. DEFINE E == {End(j, s, "read") : s \in Streams}
            H == table'[Host]
<1>1. /\ pc' = [pc EXCEPT ![j] = "done"] /\ pc[j] \in {"wait", "drop"}
      /\ Release(Host, E)
      /\ shell[j] = "failed" \/ (shell[j] = "exited" /\ pc[j] = "drop")
      /\ UNCHANGED <<size, std, shell, left, pipe, got>>
  BY DEF StoreFailure, DropFiles, Goto, ShellInv, Reading
<1>2. E \in SUBSET Ends /\ Host \in Processes /\ \A e \in E : e.job = j
  BY EndsDiffer DEF Processes
<1>3. table' \in [Processes -> SUBSET Ends] /\ H = table[Host] \ E /\ H \subseteq Ends
  <2>. HIDE DEF E
  <2>. QED  BY <1>1, <1>2, TableChanges
<1>4. Typed'
  BY <1>1, <1>3, TypedStep DEF Typed
<1>5. \A e \in Ends : e.job # j => (e \in H <=> e \in table[Host])
  BY <1>2, <1>3
<1>6. /\ End(j, "out", "read") \notin H /\ End(j, "err", "read") \notin H
      /\ End(j, "out", "write") \notin H /\ End(j, "err", "write") \notin H
  <2>1. End(j, "out", "read") \in E /\ End(j, "err", "read") \in E
    BY DEF Streams
  <2>. HIDE DEF E, H
  <2>. QED  BY <1>1, <1>3, <2>1 DEF HostInv
<1>7. shell[j] = "exited" => /\ \A s \in Streams : left[j][s] = 0
                             /\ pipe[j]["out"] = <<>> /\ pipe[j]["err"] = <<>>
  BY <1>1 DEF ShellInv, OutputInv
<1>8. H = table'[Host] /\ "done" \notin AfterFork /\ "done" \notin Reading
      /\ shell[j] # "none" /\ shell[j] # "running"
  BY <1>1 DEF AfterFork, Reading
<1>. HIDE DEF H, E
<1>. QED  BY <1>1, <1>3, <1>4, <1>5, <1>6, <1>7, <1>8, QuietStep

LEMMA ExitStep == ASSUME Inv, NEW j \in Jobs, Exit(j) PROVE Inv'
<1>. USE DEF Inv
<1>. DEFINE H == table'[Host]
            p == pc[j]
<1>1. /\ shell[j] = "running" /\ \A s \in Streams : left[j][s] = 0
      /\ shell' = [shell EXCEPT ![j] = "exited"]
      /\ std' = [std EXCEPT ![j] = [s \in Streams |-> None]]
      /\ Release(j, table[j])
      /\ UNCHANGED <<size, pc, left, pipe, got>>
  BY DEF Exit
<1>2. /\ pc' = [pc EXCEPT ![j] = p] /\ p \in {"closeOut", "closeErr", "wait"}
      /\ p \in InSlot /\ p \in AfterFork /\ p \notin Reading
  BY <1>1 DEF ShellInv, Typed, InSlot, AfterFork, Reading
<1>3. j \in Processes /\ Host \in Processes /\ j # Host /\ table[j] \in SUBSET Ends
  BY PipesAssumption DEF Processes, Typed
<1>4. table' \in [Processes -> SUBSET Ends] /\ H = table[Host] /\ H = table'[Host]
      /\ H \subseteq Ends
  BY <1>1, <1>3, TableChanges
<1>5. /\ shell' \in [Jobs -> {"none", "running", "exited", "failed"}]
      /\ std' \in [Jobs -> [Streams -> Ends \cup {None}]]
      /\ shell'[j] = "exited"
      /\ \A k \in Jobs \ {j} : shell'[k] = shell[k] /\ std'[k] = std[k]
  BY <1>1 DEF Typed
<1>6. /\ End(j, "out", "read") \in H <=> p \in AfterFork \cup {"pipeErr", "fork"}
      /\ End(j, "err", "read") \in H <=> p \in AfterFork \cup {"fork"}
      /\ End(j, "out", "write") \in H <=> p \in {"pipeErr", "fork", "closeOut"}
      /\ End(j, "err", "write") \in H <=> p \in {"fork", "closeOut", "closeErr"}
  BY <1>4 DEF HostInv
<1>. HIDE DEF H, p
<1>7. Typed'
  BY <1>1, <1>2, <1>4, <1>5, TypedStep
<1>8. p \notin {"todo", "pipeOut", "pipeErr", "fork"} /\ p \notin {"readErr", "drop", "done"}
      /\ p \notin {"drop", "done"} /\ p \notin Reading
      /\ pc' = [pc EXCEPT ![j] = p]
      /\ p \in InSlot \cup {"todo", "readOut", "readErr", "drop", "done"}
  BY <1>2
<1>9. /\ \A e \in Ends : e.job # j => (e \in H <=> e \in table[Host])
      /\ table'[Host] = H /\ H \subseteq Ends
  BY <1>4
<1>10. /\ \A t \in Streams : left[j][t] = 0
       /\ UNCHANGED <<size, left, pipe, got>>
  BY <1>1
<1>11. \A k \in Jobs \ {j} : shell'[k] = shell[k] /\ std'[k] = std[k]
  BY <1>5
<1>12. shell'[j] # "none" /\ shell'[j] # "running"
  BY <1>5
<1>. QED  BY <1>6, <1>7, <1>8, <1>9, <1>10, <1>11, <1>12, QuietStep

-----------------------------------------------------------------------------
(* Steps that move output.                                                  *)

(* A step of one stream: the job's other stream, and other jobs, keep what  *)
(* they have.                                                               *)
LEMMA StreamStep ==
    ASSUME Inv, NEW j \in Jobs, NEW s \in Streams,
           UNCHANGED <<size, pc, table, std, shell>>,
           left' \in [Jobs -> [Streams -> 0 .. MaxSize]],
           pipe' \in [Jobs -> [Streams -> Seq(Jobs \X Streams)]],
           got' \in [Jobs -> [Streams -> Seq(Jobs \X Streams)]],
           \A k \in Jobs, t \in Streams : (k # j \/ t # s) =>
              left'[k][t] = left[k][t] /\ pipe'[k][t] = pipe[k][t] /\ got'[k][t] = got[k][t],
           pipe'[j][s] \in Seq({<<j, s>>}), got'[j][s] \in Seq({<<j, s>>}),
           Len(got'[j][s]) + Len(pipe'[j][s]) + left'[j][s] = size[j][s],
           shell[j] = "exited" => left'[j][s] = left[j][s] /\ pipe'[j][s] = <<>>
    PROVE  Inv'
<1>. USE DEF Inv
<1>1. Typed' /\ HostInv'
  BY DEF Typed, HostInv
<1>2. ShellInv'
  <2>1. \A k \in Jobs, t \in Streams : shell[k] = "exited" => left'[k][t] = left[k][t]
    OBVIOUS
  <2>2. ASSUME NEW k \in Jobs, shell[k] = "exited", NEW t \in Streams PROVE left'[k][t] = 0
    <3>1. left[k][t] = 0
      BY <2>2 DEF ShellInv
    <3>. QED  BY <2>1, <2>2, <3>1
  <2>3. pc' = pc /\ shell' = shell /\ std' = std
    OBVIOUS
  <2>4. \A k \in Jobs :
           /\ shell[k] = "none" <=> pc[k] \in {"todo", "pipeOut", "pipeErr", "fork"}
           /\ shell[k] = "running" => /\ pc[k] \in {"closeOut", "closeErr", "wait"}
                                      /\ \A t \in Streams : std[k][t] = End(k, t, "write")
           /\ pc[k] \in Reading => shell[k] = "exited"
    BY DEF ShellInv
  <2>. HIDE DEF Inv
  <2>. QED  BY ONLY <2>2, <2>3, <2>4 DEF ShellInv
<1>3. OutputInv'
  <2>1. ASSUME NEW k \in Jobs, NEW t \in Streams PROVE StreamInv(k, t)'
    <3>1. CASE k = j /\ t = s
      BY <3>1 DEF StreamInv
    <3>2. CASE k # j \/ t # s
      <4>1. StreamInv(k, t)
        BY DEF OutputInv
      <4>2. /\ left'[k][t] = left[k][t] /\ pipe'[k][t] = pipe[k][t] /\ got'[k][t] = got[k][t]
            /\ size'[k][t] = size[k][t]
        BY <3>2
      <4>. QED  BY ONLY <4>1, <4>2 DEF StreamInv
    <3>. QED  BY <3>1, <3>2
  <2>2. ASSUME NEW k \in Jobs, shell[k] = "exited"
        PROVE  /\ pc[k] \in {"readErr", "drop", "done"} => pipe'[k]["out"] = <<>>
               /\ pc[k] \in {"drop", "done"} => pipe'[k]["err"] = <<>>
    <3>1. \A t \in Streams : pipe'[k][t] = pipe[k][t] \/ pipe'[k][t] = <<>>
      BY <2>2
    <3>. QED  BY <2>2, <3>1 DEF OutputInv, Streams
  <2>. QED  BY <2>1, <2>2 DEF OutputInv
<1>. QED  BY <1>1, <1>2, <1>3

LEMMA TypedStreams ==
    ASSUME Inv, NEW j \in Jobs, NEW s \in Streams
    PROVE  /\ left \in [Jobs -> [Streams -> 0 .. MaxSize]]
           /\ pipe \in [Jobs -> [Streams -> Seq(Jobs \X Streams)]]
           /\ got \in [Jobs -> [Streams -> Seq(Jobs \X Streams)]]
           /\ size[j][s] \in Nat /\ left[j][s] \in Nat
<1>1. /\ size \in [Jobs -> [Streams -> 0 .. MaxSize]]
      /\ left \in [Jobs -> [Streams -> 0 .. MaxSize]]
      /\ pipe \in [Jobs -> [Streams -> Seq(Jobs \X Streams)]]
      /\ got \in [Jobs -> [Streams -> Seq(Jobs \X Streams)]]
  BY DEF Inv, Typed
<1>2. size[j][s] \in 0 .. MaxSize /\ left[j][s] \in 0 .. MaxSize
  BY ONLY <1>1, j \in Jobs, s \in Streams
<1>3. size[j][s] \in Nat /\ left[j][s] \in Nat
  BY ONLY <1>2, PipesAssumption
<1>. QED  BY <1>1, <1>3

LEMMA EmitStep == ASSUME Inv, NEW j \in Jobs, NEW s \in Streams, Emit(j, s) PROVE Inv'
<1>. USE DEF Inv
<1>. DEFINE x == <<j, s>>
<1>1. /\ shell[j] = "running" /\ left[j][s] > 0
      /\ left' = [left EXCEPT ![j][s] = left[j][s] - 1]
      /\ UNCHANGED <<size, pc, table, std, shell, got>>
  BY DEF Emit
<1>2. std[j][s].job = j /\ std[j][s].stream = s
  BY <1>1, EndsDiffer DEF ShellInv
<1>3. pipe' = [pipe EXCEPT ![j][s] = Append(pipe[j][s], x)]
  BY <1>2 DEF Emit
<1>4. /\ left \in [Jobs -> [Streams -> 0 .. MaxSize]]
      /\ pipe \in [Jobs -> [Streams -> Seq(Jobs \X Streams)]]
      /\ got \in [Jobs -> [Streams -> Seq(Jobs \X Streams)]]
      /\ size[j][s] \in Nat /\ left[j][s] \in Nat /\ MaxSize \in Nat
  BY TypedStreams, PipesAssumption
<1>5. /\ Append(pipe[j][s], x) \in Seq(Jobs \X Streams)
      /\ Append(pipe[j][s], x) \in Seq({x})
      /\ Len(Append(pipe[j][s], x)) = Len(pipe[j][s]) + 1
      /\ Len(pipe[j][s]) \in Nat /\ Len(got[j][s]) \in Nat
      /\ got[j][s] \in Seq({x})
      /\ Len(got[j][s]) + Len(pipe[j][s]) + left[j][s] = size[j][s]
  <2>1. pipe[j][s] \in Seq({x}) /\ got[j][s] \in Seq({x})
        /\ Len(got[j][s]) + Len(pipe[j][s]) + left[j][s] = size[j][s]
    BY DEF OutputInv, StreamInv
  <2>2. pipe[j][s] \in Seq(Jobs \X Streams) /\ x \in Jobs \X Streams
    BY <1>4
  <2>. HIDE DEF x
  <2>3. x \in {x}
    OBVIOUS
  <2>4. /\ Append(pipe[j][s], x) \in Seq({x})
        /\ Len(Append(pipe[j][s], x)) = Len(pipe[j][s]) + 1
    BY ONLY <2>1, <2>3, AppendProperties
  <2>5. Append(pipe[j][s], x) \in Seq(Jobs \X Streams)
    BY ONLY <2>2, AppendProperties
  <2>6. Len(pipe[j][s]) \in Nat /\ Len(got[j][s]) \in Nat
    BY ONLY <2>1, LenProperties
  <2>. QED  BY <2>1, <2>4, <2>5, <2>6
<1>. HIDE DEF x
<1>6. /\ left'[j][s] = left[j][s] - 1 /\ pipe'[j][s] = Append(pipe[j][s], x)
      /\ \A k \in Jobs, t \in Streams : (k # j \/ t # s) =>
            left'[k][t] = left[k][t] /\ pipe'[k][t] = pipe[k][t]
  BY <1>1, <1>3, <1>4
<1>7. left' \in [Jobs -> [Streams -> 0 .. MaxSize]]
  BY <1>1, <1>4
<1>8. pipe' \in [Jobs -> [Streams -> Seq(Jobs \X Streams)]]
  BY <1>3, <1>4, <1>5
<1>9. Len(got'[j][s]) + Len(pipe'[j][s]) + left'[j][s] = size[j][s]
  <2>. DEFINE g == Len(got[j][s])
              n == Len(pipe[j][s])
              l == left[j][s]
              z == size[j][s]
  <2>1. Len(got'[j][s]) = g /\ Len(pipe'[j][s]) = n + 1 /\ left'[j][s] = l - 1
    BY <1>1, <1>5, <1>6
  <2>2. g \in Nat /\ n \in Nat /\ l \in Nat /\ g + n + l = z
    BY <1>4, <1>5
  <2>3. z = size[j][s]
    OBVIOUS
  <2>. HIDE DEF g, n, l, z
  <2>4. g + (n + 1) + (l - 1) = z
    BY ONLY <2>2
  <2>. QED  BY ONLY <2>1, <2>3, <2>4
<1>10. x = <<j, s>>
  BY DEF x
<1>11. UNCHANGED <<size, pc, table, std, shell>>
  BY <1>1
<1>12. got' \in [Jobs -> [Streams -> Seq(Jobs \X Streams)]]
  BY <1>1, <1>4
<1>13. \A k \in Jobs, t \in Streams : (k # j \/ t # s) =>
          left'[k][t] = left[k][t] /\ pipe'[k][t] = pipe[k][t] /\ got'[k][t] = got[k][t]
  BY <1>1, <1>6
<1>14. pipe'[j][s] \in Seq({<<j, s>>}) /\ got'[j][s] \in Seq({<<j, s>>})
  BY <1>1, <1>5, <1>6, <1>10
<1>15. shell[j] = "exited" => left'[j][s] = left[j][s] /\ pipe'[j][s] = <<>>
  BY <1>1
<1>. HIDE DEF Inv
<1>. QED  BY ONLY Inv, j \in Jobs, s \in Streams,
                  <1>7, <1>8, <1>9, <1>11, <1>12, <1>13, <1>14, <1>15, StreamStep

LEMMA ReadStep == ASSUME Inv, NEW j \in Jobs, NEW s \in Streams, Read(j, s) PROVE Inv'
<1>. USE DEF Inv
<1>. DEFINE x == <<j, s>>
            g == got[j][s] \o pipe[j][s]
<1>1. /\ got' = [got EXCEPT ![j][s] = g]
      /\ pipe' = [pipe EXCEPT ![j][s] = <<>>]
      /\ UNCHANGED <<size, pc, table, std, shell, left>>
  BY DEF Read
<1>2. /\ left \in [Jobs -> [Streams -> 0 .. MaxSize]]
      /\ pipe \in [Jobs -> [Streams -> Seq(Jobs \X Streams)]]
      /\ got \in [Jobs -> [Streams -> Seq(Jobs \X Streams)]]
      /\ size[j][s] \in Nat /\ left[j][s] \in Nat
  BY TypedStreams
<1>3. /\ g \in Seq(Jobs \X Streams) /\ g \in Seq({x}) /\ Len(g) = Len(got[j][s]) + Len(pipe[j][s])
      /\ Len(pipe[j][s]) \in Nat /\ Len(got[j][s]) \in Nat
      /\ Len(got[j][s]) + Len(pipe[j][s]) + left[j][s] = size[j][s]
  <2>1. pipe[j][s] \in Seq({x}) /\ got[j][s] \in Seq({x})
        /\ Len(got[j][s]) + Len(pipe[j][s]) + left[j][s] = size[j][s]
    BY DEF OutputInv, StreamInv
  <2>2. pipe[j][s] \in Seq(Jobs \X Streams) /\ got[j][s] \in Seq(Jobs \X Streams)
    BY <1>2
  <2>. HIDE DEF x
  <2>3. g \in Seq({x}) /\ Len(g) = Len(got[j][s]) + Len(pipe[j][s])
    BY ONLY <2>1, ConcatProperties DEF g
  <2>4. g \in Seq(Jobs \X Streams)
    BY ONLY <2>2, ConcatProperties DEF g
  <2>5. Len(pipe[j][s]) \in Nat /\ Len(got[j][s]) \in Nat
    BY ONLY <2>1, LenProperties
  <2>. QED  BY <2>1, <2>3, <2>4, <2>5
<1>. HIDE DEF x, g
<1>4. <<>> \in Seq(Jobs \X Streams) /\ <<>> \in Seq({x}) /\ Len(<<>>) = 0
  BY EmptySeq
<1>5. /\ got'[j][s] = g /\ pipe'[j][s] = <<>>
      /\ \A k \in Jobs, t \in Streams : (k # j \/ t # s) =>
            got'[k][t] = got[k][t] /\ pipe'[k][t] = pipe[k][t]
  BY <1>1, <1>2
<1>6. got' \in [Jobs -> [Streams -> Seq(Jobs \X Streams)]]
  BY <1>1, <1>2, <1>3
<1>7. pipe' \in [Jobs -> [Streams -> Seq(Jobs \X Streams)]]
  BY <1>1, <1>2, <1>4
<1>8. Len(got'[j][s]) + Len(pipe'[j][s]) + left'[j][s] = size[j][s]
  <2>. DEFINE a == Len(got[j][s])
              n == Len(pipe[j][s])
              l == left[j][s]
              z == size[j][s]
  <2>1. Len(got'[j][s]) = a + n /\ Len(pipe'[j][s]) = 0 /\ left'[j][s] = l
    BY <1>1, <1>3, <1>4, <1>5
  <2>2. a \in Nat /\ n \in Nat /\ l \in Nat /\ a + n + l = z
    BY <1>2, <1>3
  <2>3. z = size[j][s]
    OBVIOUS
  <2>. HIDE DEF a, n, l, z
  <2>4. (a + n) + 0 + l = z
    BY ONLY <2>2
  <2>. QED  BY ONLY <2>1, <2>3, <2>4
<1>9. x = <<j, s>>
  BY DEF x
<1>10. UNCHANGED <<size, pc, table, std, shell>>
  BY <1>1
<1>11. left' \in [Jobs -> [Streams -> 0 .. MaxSize]]
  BY <1>1, <1>2
<1>12. \A k \in Jobs, t \in Streams : (k # j \/ t # s) =>
          left'[k][t] = left[k][t] /\ pipe'[k][t] = pipe[k][t] /\ got'[k][t] = got[k][t]
  BY <1>1, <1>5
<1>13. pipe'[j][s] \in Seq({<<j, s>>}) /\ got'[j][s] \in Seq({<<j, s>>})
  BY <1>3, <1>4, <1>5, <1>9
<1>14. shell[j] = "exited" => left'[j][s] = left[j][s] /\ pipe'[j][s] = <<>>
  BY <1>1, <1>5
<1>. HIDE DEF Inv
<1>. QED  BY ONLY Inv, j \in Jobs, s \in Streams,
                  <1>6, <1>7, <1>8, <1>10, <1>11, <1>12, <1>13, <1>14, StreamStep

-----------------------------------------------------------------------------
LEMMA InvNext == ASSUME Inv, Next PROVE Inv'
<1>1. ASSUME NEW j \in Jobs, Slot(j) PROVE Inv'
  BY <1>1, TakeJobStep, OpenPipeStep, ForkStep, CloseWriteEndStep, StayOpenStep, DropStep DEF Slot
<1>2. ASSUME NEW j \in Jobs, Shell(j) PROVE Inv'
  BY <1>2, ExitStep, EmitStep DEF Shell
<1>3. ASSUME NEW j \in Jobs, Reader(j) PROVE Inv'
  BY <1>3, DropStep, ReadStep, StayOpenStep DEF Reader
<1>. QED  BY <1>1, <1>2, <1>3 DEF Next

LEMMA InvStutter == ASSUME Inv, UNCHANGED vars PROVE Inv'
<1>1. Typed' /\ HostInv' /\ ShellInv'
  BY DEF vars, Inv, Typed, HostInv, ShellInv
<1>2. OutputInv'
  BY DEF vars, Inv, OutputInv, StreamInv
<1>. QED  BY <1>1, <1>2 DEF Inv

(* The invariant holds in every state of every behaviour.                   *)
THEOREM Invariance == Spec => []Inv
<1>1. Init => Inv
  BY InvInit
<1>2. Inv /\ [Next]_vars => Inv'
  BY InvNext, InvStutter
<1>. QED  BY <1>1, <1>2, PTL DEF Spec

-----------------------------------------------------------------------------
(* What the invariant implies.                                              *)

LEMMA PairSize ==
    ASSUME NEW x, NEW y, x # y
    PROVE  IsFiniteSet({x, y}) /\ Cardinality({x, y}) = 2
<1>1. IsFiniteSet({x}) /\ Cardinality({x}) = 1
  BY FS_Singleton, Zenon
<1>2. y \notin {x} /\ {x, y} = {x} \cup {y}
  OBVIOUS
<1>3. IsFiniteSet({x} \cup {y})
  BY <1>1, FS_AddElement, Zenon
<1>4. Cardinality({x, y}) = Cardinality({x}) + 1
  BY <1>1, <1>2, WithOneMore, Zenon
<1>. QED  BY <1>1, <1>2, <1>3, <1>4

(* An end is known by its job, its stream and its side; the job of an open  *)
(* end is in a slot, or is read and has no write end: so the open ends can  *)
(* be counted with the jobs.                                                *)
LEMMA EndsAreCounted ==
    ASSUME Inv
    PROVE  Cardinality(table[Host]) <=
              4 * Cardinality({j \in Jobs : pc[j] \in InSlot})
                  + 2 * Cardinality({j \in Jobs : pc[j] \in {"readOut", "readErr", "drop"}})
<1>. USE DEF Inv
<1>. DEFINE A == {j \in Jobs : pc[j] \in InSlot}
            B == {j \in Jobs : pc[j] \in {"readOut", "readErr", "drop"}}
            D == {"out", "err"} \X {"read", "write"}
            R == {"out", "err"} \X {"read"}
            T == (A \X D) \cup (B \X R)
            f == [e \in table[Host] |-> <<e.job, <<e.stream, e.side>>>>]
<1>1. /\ IsFiniteSet(D) /\ Cardinality(D) = 4
      /\ IsFiniteSet(R) /\ Cardinality(R) = 2
  <2>1. /\ IsFiniteSet({"out", "err"}) /\ Cardinality({"out", "err"}) = 2
        /\ IsFiniteSet({"read", "write"}) /\ Cardinality({"read", "write"}) = 2
    BY PairSize
  <2>2. IsFiniteSet({"read"}) /\ Cardinality({"read"}) = 1
    BY FS_Singleton, Zenon
  <2>3. IsFiniteSet(D) /\ Cardinality(D) = Cardinality({"out", "err"}) * Cardinality({"read", "write"})
    BY <2>1, FS_Product, Zenon
  <2>4. IsFiniteSet(R) /\ Cardinality(R) = Cardinality({"out", "err"}) * Cardinality({"read"})
    BY <2>1, <2>2, FS_Product, Zenon
  <2>5. 2 * 2 = 4 /\ 2 * 1 = 2
    OBVIOUS
  <2>. HIDE DEF D, R
  <2>. QED  BY <2>1, <2>2, <2>3, <2>4, <2>5, Zenon
<1>2. IsFiniteSet(A) /\ IsFiniteSet(B)
  <2>1. A \in SUBSET Jobs /\ B \in SUBSET Jobs
    OBVIOUS
  <2>. HIDE DEF A, B
  <2>. QED  BY <2>1, PipesAssumption, FS_Subset, Zenon
<1>3. ASSUME NEW e \in table[Host]
      PROVE  /\ e \in Ends
             /\ e.job \in A \/ (e.job \in B /\ e.side = "read")
  <2>1. e \in Ends
    BY DEF Typed, Processes
  <2>2. /\ e.job \in Jobs /\ e.stream \in {"out", "err"} /\ e.side \in {"read", "write"}
        /\ e = End(e.job, e.stream, e.side)
    BY <2>1, EndsDiffer DEF Streams
  <2>3. pc[e.job] \in AfterFork \cup {"pipeErr", "fork"}
    BY <2>2 DEF HostInv, AfterFork
  <2>4. e.side = "write" => pc[e.job] \in {"pipeErr", "fork", "closeOut", "closeErr"}
    BY <2>2 DEF HostInv
  <2>. QED  BY <2>1, <2>2, <2>3, <2>4 DEF AfterFork, Reading, InSlot
<1>4. f \in [table[Host] -> T]
  <2>1. ASSUME NEW e \in table[Host] PROVE <<e.job, <<e.stream, e.side>>>> \in T
    BY <1>3, EndsDiffer DEF Streams
  <2>. HIDE DEF T
  <2>. QED  BY <2>1
<1>5. \A d, e \in table[Host] : f[d] = f[e] => d = e
  <2>. SUFFICES ASSUME NEW d \in table[Host], NEW e \in table[Host], f[d] = f[e]
                PROVE  d = e
    OBVIOUS
  <2>1. d.job = e.job /\ d.stream = e.stream /\ d.side = e.side
    OBVIOUS
  <2>2. d = End(d.job, d.stream, d.side) /\ e = End(e.job, e.stream, e.side)
    BY <1>3, EndsDiffer
  <2>. QED  BY <2>1, <2>2, Zenon
<1>6. /\ IsFiniteSet(A \X D) /\ Cardinality(A \X D) = Cardinality(A) * 4
      /\ IsFiniteSet(B \X R) /\ Cardinality(B \X R) = Cardinality(B) * 2
  <2>. HIDE DEF A, B, D, R
  <2>1. /\ IsFiniteSet(A \X D) /\ Cardinality(A \X D) = Cardinality(A) * Cardinality(D)
        /\ IsFiniteSet(B \X R) /\ Cardinality(B \X R) = Cardinality(B) * Cardinality(R)
    BY <1>1, <1>2, FS_Product, Zenon
  <2>. QED  BY <1>1, <2>1, Zenon
<1>7. /\ IsFiniteSet(T)
      /\ Cardinality(T) = Cardinality(A \X D) + Cardinality(B \X R)
                             - Cardinality((A \X D) \cap (B \X R))
      /\ Cardinality((A \X D) \cap (B \X R)) \in Nat
  <2>. HIDE DEF A, B, D, R
  <2>1. IsFiniteSet((A \X D) \cap (B \X R))
    BY <1>6, FS_Intersection, Zenon
  <2>2. Cardinality((A \X D) \cap (B \X R)) \in Nat
    BY <2>1, FS_CardinalityType, Zenon
  <2>. QED  BY <1>6, <2>2, FS_Union, Zenon
<1>8. /\ IsFiniteSet(table[Host])
      /\ Cardinality(table[Host]) <= Cardinality(T)
  <2>. HIDE DEF T, f
  <2>1. f \in Injection(table[Host], T)
    BY <1>4, <1>5, Fun_IsInj, Zenon
  <2>. QED  BY <1>7, <2>1, FS_Injection, Zenon
<1>. DEFINE h == Cardinality(table[Host])
            c == Cardinality(T)
            a == Cardinality(A)
            b == Cardinality(B)
            x == Cardinality((A \X D) \cap (B \X R))
<1>9. h \in Nat /\ c \in Nat /\ a \in Nat /\ b \in Nat /\ x \in Nat
  <2>. HIDE DEF A, B, D, R, T, f
  <2>. QED  BY <1>2, <1>7, <1>8, FS_CardinalityType, Zenon
<1>10. h <= c /\ c = a * 4 + b * 2 - x
  <2>. HIDE DEF A, B, D, R, T, f
  <2>. QED  BY <1>6, <1>7, <1>8, Zenon
<1>11. h <= 4 * a + 2 * b
  <2>. HIDE DEF h, c, a, b, x
  <2>. QED  BY ONLY <1>9, <1>10
<1>. QED  BY <1>11

(* Every variable keeps its type, and the host never holds more than four   *)
(* ends for each busy slot and two for each job that is being read.         *)
THEOREM TypeCorrect == Spec => []TypeOK
<1>1. Inv => TypeOK
  <2>. SUFFICES ASSUME Inv PROVE TypeOK
    OBVIOUS
  <2>1. Typed
    BY DEF Inv
  <2>. QED  BY <2>1, EndsAreCounted DEF TypeOK, Typed
<1>. QED  BY <1>1, Invariance, PTL

(* What a reader took is all that its own job printed, however many jobs    *)
(* ran beside it and whatever ends their shells inherited.                  *)
THEOREM OutputIsTheJobs == Spec => []OutputsAreWholeAndOwn
<1>1. Inv => OutputsAreWholeAndOwn
  <2>. SUFFICES ASSUME Inv, NEW j \in Jobs, pc[j] = "done", shell[j] = "exited", NEW s \in Streams
                PROVE  got[j][s] = [i \in 1 .. size[j][s] |-> <<j, s>>]
    BY DEF OutputsAreWholeAndOwn
  <2>. DEFINE g == got[j][s]
              x == <<j, s>>
  <2>1. pipe[j][s] = <<>> /\ left[j][s] = 0
    BY DEF Inv, OutputInv, ShellInv, Streams
  <2>2. g \in Seq({x}) /\ Len(g) + Len(pipe[j][s]) + left[j][s] = size[j][s]
    BY DEF Inv, OutputInv, StreamInv
  <2>3. Len(pipe[j][s]) = 0
    BY <2>1, EmptySeq
  <2>. HIDE DEF g, x
  <2>4. Len(g) \in Nat /\ Len(g) = size[j][s]
    BY <2>1, <2>2, <2>3, LenProperties
  <2>5. g = [i \in 1 .. Len(g) |-> g[i]] /\ \A i \in 1 .. Len(g) : g[i] = x
    BY <2>2, LenProperties, ElementOfSeq
  <2>6. g = [i \in 1 .. Len(g) |-> x]
    BY <2>5, Zenon
  <2>7. g = [i \in 1 .. size[j][s] |-> x]
    BY <2>4, <2>6, Zenon
  <2>. QED  BY <2>7 DEF g, x
<1>. QED  BY <1>1, Invariance, PTL

(* The host has no end of a job's pipes before the job's pipe call or after *)
(* its answer, on the error path too, and only the read ends while the      *)
(* output is read.                                                          *)
THEOREM DescriptorsAreReturned == Spec => []NoDescriptorLeaks
<1>1. Inv => NoDescriptorLeaks
  <2>. SUFFICES ASSUME Inv PROVE NoDescriptorLeaks
    OBVIOUS
  <2>1. table[Host] \subseteq Ends
    BY DEF Inv, Typed, Processes
  <2>2. ASSUME NEW e \in table[Host] PROVE pc[e.job] \notin {"todo", "pipeOut", "done"}
    <3>1. /\ e.job \in Jobs /\ e.stream \in {"out", "err"} /\ e.side \in {"read", "write"}
          /\ e = End(e.job, e.stream, e.side)
      BY <2>1, EndsDiffer DEF Streams
    <3>2. pc[e.job] \in AfterFork \cup {"pipeErr", "fork", "closeOut", "closeErr"}
      BY <3>1 DEF Inv, HostInv, AfterFork
    <3>. QED  BY <3>2 DEF AfterFork, Reading
  <2>3. ASSUME NEW j \in Jobs, pc[j] \in {"readOut", "readErr", "drop"}
        PROVE  table[Host] \cap OwnEnds(j) = {End(j, s, "read") : s \in Streams}
    <3>1. /\ End(j, "out", "read") \in table[Host] /\ End(j, "err", "read") \in table[Host]
          /\ End(j, "out", "write") \notin table[Host] /\ End(j, "err", "write") \notin table[Host]
      BY <2>3 DEF Inv, HostInv, AfterFork, Reading
    <3>2. ASSUME NEW e \in table[Host] \cap OwnEnds(j)
          PROVE  e \in {End(j, "out", "read"), End(j, "err", "read")}
      <4>1. /\ e.stream \in {"out", "err"} /\ e.side \in {"read", "write"}
            /\ e = End(j, e.stream, e.side)
        BY EndsDiffer DEF Streams, OwnEnds
      <4>. QED  BY <3>1, <4>1
    <3>3. /\ End(j, "out", "read") \in OwnEnds(j) /\ End(j, "err", "read") \in OwnEnds(j)
      BY EndsDiffer DEF Streams, OwnEnds
    <3>4. table[Host] \cap OwnEnds(j) = {End(j, "out", "read"), End(j, "err", "read")}
      BY <3>1, <3>2, <3>3
    <3>. QED  BY <3>4, ReadEnds
  <2>. QED  BY <2>2, <2>3 DEF NoDescriptorLeaks
<1>. QED  BY <1>1, Invariance, PTL

=============================================================================
