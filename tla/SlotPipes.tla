------------------------------ MODULE SlotPipes ------------------------------
(***************************************************************************)
(* The pipes of the jobs that slots run (slot_event of src/shared/jobs.rs) *)
(* on the server and the readers of what the jobs print: the Input handler *)
(* of each job (src/server/service/mod.rs), which reads on its own.  The   *)
(* slots of a client run the same code, but one thread (src/client/main.rs *)
(* 198-215) reads the outputs of all its jobs, one after the other in the  *)
(* order of their numbers: fewer interleavings of the same steps.  What is *)
(* said of every state holds for a client too; JobsAreAnswered is said of  *)
(* the server.                                                             *)
(*                                                                         *)
(* All slots of a process share its table of descriptors.  The pipes have  *)
(* no close-on-exec flag: a shell inherits every end that is open in the   *)
(* process when it is forked, and closes only the ends of its own pipes.   *)
(* A reader sees the end of an output when no process holds a write end.   *)
(*                                                                         *)
(* Bounds: Jobs are run once each; a job prints at most MaxSize units of   *)
(* output on each of its streams.                                          *)
(***************************************************************************)
EXTENDS Naturals, Sequences, FiniteSets

CONSTANTS
    Jobs,       (* the jobs; a job also names the shell that runs it        *)
    Cores,      (* the slots, and so the jobs in slots at a time            *)
    Capacity,   (* how much a pipe holds                                    *)
    MaxSize,    (* bound: the output of a job on one stream                 *)
    Host,       (* the process of the slots and the readers                 *)
    None        (* a descriptor that is not open                            *)

Streams == {"out", "err"}

Ends == [job : Jobs, stream : Streams, side : {"read", "write"}]

End(j, s, side) == [job |-> j, stream |-> s, side |-> side]

Processes == Jobs \cup {Host}

ASSUME PipesAssumption ==
    /\ IsFiniteSet(Jobs)
    /\ Cores \in Nat \ {0}
    /\ Capacity \in Nat \ {0}
    /\ MaxSize \in Nat
    /\ Host \notin Jobs
    /\ None \notin Ends

VARIABLES
    size,       (* how much each job prints on each stream                  *)
    pc,         (* where the slot of each job is, then where its reader is  *)
    table,      (* the pipe ends each process holds                         *)
    std,        (* what each shell has as its stdout and stderr             *)
    shell,      (* the state of the shell of each job                       *)
    left,       (* what the shell has still to print                        *)
    pipe,       (* what each pipe holds                                     *)
    got         (* what the reader of each job has read                     *)

vars == <<size, pc, table, std, shell, left, pipe, got>>

InSlot == {"pipeOut", "pipeErr", "fork", "closeOut", "closeErr", "wait"}

Goto(j, label) == pc' = [pc EXCEPT ![j] = label]

Hold(p, ends) == table' = [table EXCEPT ![p] = @ \cup ends]

Release(p, ends) == table' = [table EXCEPT ![p] = @ \ ends]

OwnEnds(j) == {e \in Ends : e.job = j}

(* The processes in which a write end of the pipe is open.                  *)
Writers(j, s) ==
    LET w == End(j, s, "write")
    IN  {p \in Processes : w \in table[p]} \cup {k \in Jobs : \E t \in Streams : std[k][t] = w}

-----------------------------------------------------------------------------
(* The slot: pipe, pipe, spawn, close, close, wait.                         *)

TakeJob(j) ==
    /\ pc[j] = "todo"
    /\ Cardinality({k \in Jobs : pc[k] \in InSlot}) < Cores
    /\ Goto(j, "pipeOut")
    /\ UNCHANGED <<size, table, std, shell, left, pipe, got>>

OpenPipe(j, s) ==
    /\ pc[j] = IF s = "out" THEN "pipeOut" ELSE "pipeErr"
    /\ Hold(Host, {End(j, s, "read"), End(j, s, "write")})
    /\ Goto(j, IF s = "out" THEN "pipeErr" ELSE "fork")
    /\ UNCHANGED <<size, std, shell, left, pipe, got>>

(* Mutant of Redirect: both streams go to one pipe.                         *)
RedirectToOut(j) == [s \in Streams |-> End(j, "out", "write")]

(* dup2 onto the standard descriptors of the shell.                         *)
Redirect(j) == [s \in Streams |-> End(j, s, "write")]

(* The shell has a copy of the host's table, but for the four ends that     *)
(* before_exec closes.                                                      *)
Fork(j) ==
    /\ pc[j] = "fork"
    /\ std' = [std EXCEPT ![j] = Redirect(j)]
    /\ Hold(j, table[Host] \ OwnEnds(j))
    /\ shell' = [shell EXCEPT ![j] = "running"]
    /\ Goto(j, "closeOut")
    /\ UNCHANGED <<size, left, pipe, got>>

(* spawn() returns an error: nothing runs.                                  *)
ForkFails(j) ==
    /\ pc[j] = "fork"
    /\ shell' = [shell EXCEPT ![j] = "failed"]
    /\ Goto(j, "closeOut")
    /\ UNCHANGED <<size, table, std, left, pipe, got>>

(* Mutant of CloseWriteEnd: only the write end of stdout is closed.         *)
CloseOutOnly(j, s) ==
    /\ pc[j] = IF s = "out" THEN "closeOut" ELSE "closeErr"
    /\ Release(Host, {End(j, "out", "write")})
    /\ Goto(j, IF s = "out" THEN "closeErr" ELSE "wait")
    /\ UNCHANGED <<size, std, shell, left, pipe, got>>

CloseWriteEnd(j, s) ==
    /\ pc[j] = IF s = "out" THEN "closeOut" ELSE "closeErr"
    /\ Release(Host, {End(j, s, "write")})
    /\ Goto(j, IF s = "out" THEN "closeErr" ELSE "wait")
    /\ UNCHANGED <<size, std, shell, left, pipe, got>>

(* child.wait(), then insert: the read ends are the reader's from here on.  *)
StoreResult(j) ==
    /\ pc[j] = "wait"
    /\ shell[j] = "exited"
    /\ Goto(j, "readOut")
    /\ UNCHANGED <<size, table, std, shell, left, pipe, got>>

(* Mutant of StoreFailure: the files of the read ends are forgotten.        *)
StoreFailureLeaking(j) ==
    /\ pc[j] = "wait"
    /\ shell[j] = "failed"
    /\ Goto(j, "done")
    /\ UNCHANGED <<size, table, std, shell, left, pipe, got>>

(* None is stored, and the files of the read ends are dropped.              *)
StoreFailure(j) ==
    /\ pc[j] = "wait"
    /\ shell[j] = "failed"
    /\ Release(Host, {End(j, s, "read") : s \in Streams})
    /\ Goto(j, "done")
    /\ UNCHANGED <<size, std, shell, left, pipe, got>>

-----------------------------------------------------------------------------
(* The shell: it prints on both streams, in any order, and exits.           *)

Emit(j, s) ==
    LET e == std[j][s] IN
    /\ shell[j] = "running"
    /\ left[j][s] > 0
    /\ Len(pipe[e.job][e.stream]) < Capacity
    /\ left' = [left EXCEPT ![j][s] = @ - 1]
    /\ pipe' = [pipe EXCEPT ![e.job][e.stream] = Append(@, <<j, s>>)]
    /\ UNCHANGED <<size, pc, table, std, shell, got>>

Exit(j) ==
    /\ shell[j] = "running"
    /\ \A s \in Streams : left[j][s] = 0
    /\ shell' = [shell EXCEPT ![j] = "exited"]
    /\ Release(j, table[j])
    /\ std' = [std EXCEPT ![j] = [s \in Streams |-> None]]
    /\ UNCHANGED <<size, pc, left, pipe, got>>

-----------------------------------------------------------------------------
(* The reader of a job, its Input handler: all of stdout, then all of       *)
(* stderr, then both are closed.                                            *)

Read(j, s) ==
    /\ pc[j] = IF s = "out" THEN "readOut" ELSE "readErr"
    /\ pipe[j][s] # <<>>
    /\ got' = [got EXCEPT ![j][s] = @ \o pipe[j][s]]
    /\ pipe' = [pipe EXCEPT ![j][s] = <<>>]
    /\ UNCHANGED <<size, pc, table, std, shell, left>>

ReadEnd(j, s) ==
    /\ pc[j] = IF s = "out" THEN "readOut" ELSE "readErr"
    /\ pipe[j][s] = <<>>
    /\ Writers(j, s) = {}
    /\ Goto(j, IF s = "out" THEN "readErr" ELSE "drop")
    /\ UNCHANGED <<size, table, std, shell, left, pipe, got>>

(* Mutant of DropFiles: stderr stays open.                                  *)
DropOut(j) ==
    /\ pc[j] = "drop"
    /\ Release(Host, {End(j, "out", "read")})
    /\ Goto(j, "done")
    /\ UNCHANGED <<size, std, shell, left, pipe, got>>

DropFiles(j) ==
    /\ pc[j] = "drop"
    /\ Release(Host, {End(j, s, "read") : s \in Streams})
    /\ Goto(j, "done")
    /\ UNCHANGED <<size, std, shell, left, pipe, got>>

-----------------------------------------------------------------------------
Init ==
    /\ size \in [Jobs -> [Streams -> 0 .. MaxSize]]
    /\ pc = [j \in Jobs |-> "todo"]
    /\ table = [p \in Processes |-> {}]
    /\ std = [j \in Jobs |-> [s \in Streams |-> None]]
    /\ shell = [j \in Jobs |-> "none"]
    /\ left = size
    /\ pipe = [j \in Jobs |-> [s \in Streams |-> <<>>]]
    /\ got = [j \in Jobs |-> [s \in Streams |-> <<>>]]

Slot(j) ==
    \/ TakeJob(j)
    \/ \E s \in Streams : OpenPipe(j, s) \/ CloseWriteEnd(j, s)
    \/ Fork(j) \/ ForkFails(j)
    \/ StoreResult(j) \/ StoreFailure(j)

Shell(j) == Exit(j) \/ \E s \in Streams : Emit(j, s)

Reader(j) == DropFiles(j) \/ \E s \in Streams : Read(j, s) \/ ReadEnd(j, s)

Next == \E j \in Jobs : Slot(j) \/ Shell(j) \/ Reader(j)

(* Slots and readers are threads, and a command that can print or exit      *)
(* does.                                                                    *)
Fairness == \A j \in Jobs : WF_vars(Slot(j)) /\ WF_vars(Shell(j)) /\ WF_vars(Reader(j))

Spec == Init /\ [][Next]_vars

FairSpec == Spec /\ Fairness

-----------------------------------------------------------------------------
(* Properties.                                                              *)

Fits(j) == \A s \in Streams : size[j][s] <= Capacity

(* Every variable has its type, and the host holds at most four ends for    *)
(* each busy slot and two for each job that is being read.                  *)
TypeOK ==
    /\ Cardinality(table[Host]) <=
          4 * Cardinality({j \in Jobs : pc[j] \in InSlot})
              + 2 * Cardinality({j \in Jobs : pc[j] \in {"readOut", "readErr", "drop"}})
    /\ size \in [Jobs -> [Streams -> 0 .. MaxSize]]
    /\ pc \in [Jobs -> InSlot \cup {"todo", "readOut", "readErr", "drop", "done"}]
    /\ table \in [Processes -> SUBSET Ends]
    /\ std \in [Jobs -> [Streams -> Ends \cup {None}]]
    /\ shell \in [Jobs -> {"none", "running", "exited", "failed"}]
    /\ left \in [Jobs -> [Streams -> 0 .. MaxSize]]
    /\ pipe \in [Jobs -> [Streams -> Seq(Jobs \X Streams)]]
    /\ got \in [Jobs -> [Streams -> Seq(Jobs \X Streams)]]

(* What the reader of a job takes for its output is all that its own shell  *)
(* printed on that stream and nothing else, although shells hold ends of    *)
(* each other's pipes.                                                      *)
OutputsAreWholeAndOwn ==
    \A j \in Jobs : (pc[j] = "done" /\ shell[j] = "exited") =>
        \A s \in Streams : got[j][s] = [i \in 1 .. size[j][s] |-> <<j, s>>]

(* The host holds an end of a job's pipes only from the pipe call to the    *)
(* answer, on the error path too: descriptors do not accumulate.            *)
NoDescriptorLeaks ==
    /\ \A e \in table[Host] : pc[e.job] \notin {"todo", "pipeOut", "done"}
    /\ \A j \in Jobs : pc[j] \in {"readOut", "readErr", "drop"} =>
          table[Host] \cap OwnEnds(j) = {End(j, s, "read") : s \in Streams}

(* A job cannot get its answer: it prints more than a pipe holds, which     *)
(* nobody reads before the shell exits, or the shell of a job that does     *)
(* keeps an end of its pipes open, or such jobs are in all the slots.       *)
HeldUp(j) ==
    LET stuck == {k \in Jobs : ~Fits(k) /\ pc[k] \in InSlot} IN
    \/ j \in stuck
    \/ \E k \in stuck, s \in Streams : End(j, s, "write") \in table[k]
    \/ pc[j] = "todo" /\ Cardinality(stuck) = Cores

(* Every job is answered that is not held up for ever by an output that     *)
(* overflows its pipe: an end that was inherited by the shell of another    *)
(* job delays the end of an output, but never in a circle.                  *)
JobsAreAnswered == \A j \in Jobs : <>(pc[j] = "done") \/ <>[]HeldUp(j)

=============================================================================
