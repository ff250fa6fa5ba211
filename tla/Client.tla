-------------------------------- MODULE Client --------------------------------
(***************************************************************************)
(* The client, concurr: the thread that reads inputs, the slots that take  *)
(* them (Slot::spawn for the cores of a node, slot_event for the cores of  *)
(* the client itself), and the main thread that prints outputs in order    *)
(* (src/client/{main,slot,source,inputs,outputs,connection}.rs).           *)
(*                                                                         *)
(* The node at the other end of a slot's TLS stream is external: it        *)
(* answers an instruction it has received, and it may go down and come     *)
(* back, which breaks every stream to it.                                  *)
(*                                                                         *)
(* Bounds: MaxInputs inputs are read, streams break MaxBreaks times.       *)
(***************************************************************************)
EXTENDS Naturals, Sequences, FiniteSets

CONSTANTS
    Locals,         (* the slots that run commands in the client            *)
    Remotes,        (* the slots that submit inputs to the node             *)
    MaxInputs,      (* bound: how many inputs the source holds at most      *)
    MaxBreaks,      (* bound: how often streams to the node break           *)
    NodeErrors,     (* TRUE: the node may answer an input with ERR          *)
    None            (* Rust's None                                          *)

AllSlots == Locals \cup Remotes

(* Job IDs count the inputs.                                                *)
Jids == 0 .. MaxInputs - 1

(* A slot attempts a job, and puts it back, until the fourth attempt fails. *)
LastTry == 3

Jobs == [jid : Jids, tries : 0 .. LastTry]

(* An output: complete, what an ended stream left of it, or Output::Failed. *)
Results == {"full", "cut", "failed"}

ASSUME ClientAssumption ==
    /\ MaxInputs \in Nat
    /\ MaxBreaks \in Nat
    /\ NodeErrors \in BOOLEAN
    /\ IsFiniteSet(Locals) /\ IsFiniteSet(Remotes)
    /\ Locals \cap Remotes = {}
    /\ None \notin Jobs \cup Results

VARIABLES
    readerPc,   (* where the thread that reads the inputs is                *)
    nread,      (* ninputs: how many inputs it has read                     *)
    total,      (* total_inputs                                             *)
    finished,   (* inputs_finished                                          *)
    inputs,     (* the queue of inputs no slot has taken                    *)
    errors,     (* the deque of jobs to try again                           *)
    failed,     (* the map of jobs that were given up                       *)
    outputs,    (* the map of outputs that are not printed                  *)
    kill,       (* the flag that stops the slots                            *)
    mainPc,     (* where the main thread is                                 *)
    counter,    (* the job it prints next                                   *)
    slotPc,     (* where each slot is                                       *)
    job,        (* the job a slot works on, or None                         *)
    link,       (* the TLS stream of each slot of the node                  *)
    nodeUp,     (* whether the node accepts connections                     *)
    breaks      (* how often streams have broken                            *)

readerVars == <<readerPc, nread, total, finished>>
mainVars   == <<mainPc, counter, kill>>
slotVars   == <<slotPc, job>>
nodeVars   == <<link, nodeUp, breaks>>
vars == <<readerVars, inputs, errors, failed, outputs, mainVars, slotVars, nodeVars>>

Goto(s, label) == slotPc' = [slotPc EXCEPT ![s] = label]

-----------------------------------------------------------------------------
(* The reader thread: source::read, or the vector of arguments, and then    *)
(* the two stores that announce the end.                                    *)

ReadInput ==
    /\ readerPc = "read"
    /\ nread < MaxInputs
    /\ inputs' = Append(inputs, nread)
    /\ nread' = nread + 1
    /\ UNCHANGED <<readerPc, total, finished, errors, failed, outputs, mainVars, slotVars, nodeVars>>

(* The end of the inputs, or a line that cannot be read.                    *)
StoreTotal ==
    /\ readerPc = "read"
    /\ total' = nread
    /\ readerPc' = "announce"
    /\ UNCHANGED <<nread, finished, inputs, errors, failed, outputs, mainVars, slotVars, nodeVars>>

StoreFinished ==
    /\ readerPc = "announce"
    /\ finished' = TRUE
    /\ readerPc' = "done"
    /\ UNCHANGED <<nread, total, inputs, errors, failed, outputs, mainVars, slotVars, nodeVars>>

Reader == ReadInput \/ StoreTotal \/ StoreFinished

-----------------------------------------------------------------------------
(* The main thread: while !(finished && counter == total) get, print.       *)

LoadFinished ==
    /\ mainPc = "loop"
    /\ mainPc' = IF finished THEN "compare" ELSE "get"
    /\ UNCHANGED <<readerVars, inputs, errors, failed, outputs, counter, kill, slotVars, nodeVars>>

(* Mutant of CompareTotal: the counter is taken for the last job printed.   *)
CompareLast ==
    /\ mainPc = "compare"
    /\ mainPc' = IF counter + 1 = total THEN "kill" ELSE "get"
    /\ UNCHANGED <<readerVars, inputs, errors, failed, outputs, counter, kill, slotVars, nodeVars>>

CompareTotal ==
    /\ mainPc = "compare"
    /\ mainPc' = IF counter = total THEN "kill" ELSE "get"
    /\ UNCHANGED <<readerVars, inputs, errors, failed, outputs, counter, kill, slotVars, nodeVars>>

(* Outputs::get tries every millisecond until it finds the output.          *)
PrintOutput ==
    /\ mainPc = "get"
    /\ counter \in Jids
    /\ outputs[counter] # None
    /\ outputs' = [outputs EXCEPT ![counter] = None]
    /\ counter' = counter + 1
    /\ mainPc' = "loop"
    /\ UNCHANGED <<readerVars, inputs, errors, failed, kill, slotVars, nodeVars>>

SetKill ==
    /\ mainPc = "kill"
    /\ kill' = TRUE
    /\ mainPc' = "join"
    /\ UNCHANGED <<readerVars, inputs, errors, failed, outputs, counter, slotVars, nodeVars>>

JoinSlots ==
    /\ mainPc = "join"
    /\ \A s \in AllSlots : slotPc[s] = "exited"
    /\ mainPc' = "exit"
    /\ UNCHANGED <<readerVars, inputs, errors, failed, outputs, counter, kill, slotVars, nodeVars>>

Main == LoadFinished \/ CompareTotal \/ PrintOutput \/ SetKill \/ JoinSlots

-----------------------------------------------------------------------------
(* What both kinds of slot do.                                              *)

CheckKill(s) ==
    /\ slotPc[s] = "check"
    /\ Goto(s, IF kill THEN "exited" ELSE "take")
    /\ UNCHANGED <<readerVars, inputs, errors, failed, outputs, mainVars, job, nodeVars>>

(* Inputs::get_job: the oldest input.                                       *)
TakeInput(s) ==
    /\ slotPc[s] = "take"
    /\ inputs # <<>>
    /\ job' = [job EXCEPT ![s] = [jid |-> Head(inputs), tries |-> 0]]
    /\ inputs' = Tail(inputs)
    /\ Goto(s, IF s \in Remotes THEN "write" ELSE "run")
    /\ UNCHANGED <<readerVars, errors, failed, outputs, mainVars, nodeVars>>

(* Mutant of MissInput: the deque of errors is never looked at.             *)
MissInputOnly(s) ==
    /\ slotPc[s] = "take"
    /\ inputs = <<>>
    /\ Goto(s, "check")
    /\ UNCHANGED <<readerVars, inputs, errors, failed, outputs, mainVars, job, nodeVars>>

(* Only a slot of the node turns to the jobs that are to be tried again.    *)
MissInput(s) ==
    /\ slotPc[s] = "take"
    /\ inputs = <<>>
    /\ Goto(s, IF s \in Remotes THEN "takeError" ELSE "check")
    /\ UNCHANGED <<readerVars, inputs, errors, failed, outputs, mainVars, job, nodeVars>>

Finish(s) ==
    /\ job' = [job EXCEPT ![s] = None]
    /\ Goto(s, "check")

StoreOutput(s, result) == outputs' = [outputs EXCEPT ![job[s].jid] = result]

-----------------------------------------------------------------------------
(* slot_event, with the client's Inputs and Outputs.                        *)

RunLocally(s) ==
    /\ slotPc[s] = "run"
    /\ \E result \in {"full", "failed"} : StoreOutput(s, result)
    /\ Finish(s)
    /\ UNCHANGED <<readerVars, inputs, errors, failed, mainVars, nodeVars>>

-----------------------------------------------------------------------------
(* Slot::spawn. It connects once; an attempt that fails is repeated and     *)
(* changes nothing.                                                         *)

Connect(s) ==
    /\ slotPc[s] = "connect"
    /\ nodeUp
    /\ link' = [link EXCEPT ![s] = "up"]
    /\ Goto(s, "check")
    /\ UNCHANGED <<readerVars, inputs, errors, failed, outputs, mainVars, job, nodeUp, breaks>>

(* Mutant of TakeError: the job is read but stays in the deque.             *)
PeekError(s) ==
    /\ slotPc[s] = "takeError"
    /\ errors # <<>>
    /\ job' = [job EXCEPT ![s] = errors[Len(errors)]]
    /\ Goto(s, "write")
    /\ UNCHANGED <<readerVars, inputs, errors, failed, outputs, mainVars, nodeVars>>

(* errors.pop_back(): the job that was put back last.                       *)
TakeError(s) ==
    LET n == Len(errors) IN
    /\ slotPc[s] = "takeError"
    /\ n > 0
    /\ job' = [job EXCEPT ![s] = errors[n]]
    /\ errors' = SubSeq(errors, 1, n - 1)
    /\ Goto(s, "write")
    /\ UNCHANGED <<readerVars, inputs, failed, outputs, mainVars, nodeVars>>

(* Mutant of MissError: an idle slot looks for inputs again, not at kill.   *)
MissErrorBlind(s) ==
    /\ slotPc[s] = "takeError"
    /\ errors = <<>>
    /\ Goto(s, "take")
    /\ UNCHANGED <<readerVars, inputs, errors, failed, outputs, mainVars, job, nodeVars>>

MissError(s) ==
    /\ slotPc[s] = "takeError"
    /\ errors = <<>>
    /\ Goto(s, "check")
    /\ UNCHANGED <<readerVars, inputs, errors, failed, outputs, mainVars, job, nodeVars>>

(* The instruction reaches the node, or only the buffers of a stream that   *)
(* is broken, or it cannot be written in four attempts.                     *)
Write(s) ==
    /\ slotPc[s] = "write"
    /\ \/ link[s] = "up" /\ Goto(s, "read")
       \/ link[s] = "broken" /\ Goto(s, "wait")
       \/ link[s] = "broken" /\ Goto(s, "retry")
    /\ UNCHANGED <<readerVars, inputs, errors, failed, outputs, mainVars, job, nodeVars>>

(* The three lines of an Output arrive.                                     *)
ReadOutput(s) ==
    /\ slotPc[s] = "read"
    /\ StoreOutput(s, "full")
    /\ Finish(s)
    /\ UNCHANGED <<readerVars, inputs, errors, failed, mainVars, nodeVars>>

(* The stream ends after the status line: read_line returns what there is,  *)
(* and the job counts as done.                                              *)
ReadCutOutput(s) ==
    /\ slotPc[s] = "read"
    /\ link[s] = "broken"
    /\ StoreOutput(s, "cut")
    /\ Finish(s)
    /\ UNCHANGED <<readerVars, inputs, errors, failed, mainVars, nodeVars>>

(* ERR is one line; the slot waits for two more.                            *)
ReadErr(s) ==
    /\ slotPc[s] = "read"
    /\ NodeErrors
    /\ Goto(s, "wait")
    /\ UNCHANGED <<readerVars, inputs, errors, failed, outputs, mainVars, job, nodeVars>>

(* The stream ends before a status line that can be parsed.                 *)
ReadEnd(s) ==
    /\ slotPc[s] \in {"read", "wait"}
    /\ link[s] = "broken"
    /\ Goto(s, "retry")
    /\ UNCHANGED <<readerVars, inputs, errors, failed, outputs, mainVars, job, nodeVars>>

PutBack(s) == errors' = Append(errors, [job[s] EXCEPT !.tries = @ + 1])

GiveUp(s) ==
    /\ slotPc[s] = "retry"
    /\ job[s].tries = LastTry
    /\ failed' = failed \cup {job[s].jid}
    /\ Finish(s)
    /\ UNCHANGED <<readerVars, inputs, errors, outputs, mainVars, nodeVars>>

(* Mutant of Retry: the number of tries does not matter.                    *)
RetryAlways(s) ==
    /\ slotPc[s] = "retry"
    /\ PutBack(s)
    /\ Finish(s)
    /\ UNCHANGED <<readerVars, inputs, failed, outputs, mainVars, nodeVars>>

Retry(s) ==
    /\ slotPc[s] = "retry"
    /\ job[s].tries # LastTry
    /\ PutBack(s)
    /\ Finish(s)
    /\ UNCHANGED <<readerVars, inputs, failed, outputs, mainVars, nodeVars>>

-----------------------------------------------------------------------------
(* The node, which is external.                                             *)

NodeDown ==
    /\ nodeUp
    /\ breaks < MaxBreaks
    /\ nodeUp' = FALSE
    /\ breaks' = breaks + 1
    /\ link' = [s \in Remotes |-> IF link[s] = "up" THEN "broken" ELSE link[s]]
    /\ UNCHANGED <<readerVars, inputs, errors, failed, outputs, mainVars, slotVars>>

NodeBack ==
    /\ ~nodeUp
    /\ nodeUp' = TRUE
    /\ UNCHANGED <<readerVars, inputs, errors, failed, outputs, mainVars, slotVars, link, breaks>>

StreamBreaks(s) ==
    /\ link[s] = "up"
    /\ breaks < MaxBreaks
    /\ breaks' = breaks + 1
    /\ link' = [link EXCEPT ![s] = "broken"]
    /\ UNCHANGED <<readerVars, inputs, errors, failed, outputs, mainVars, slotVars, nodeUp>>

Node == NodeDown \/ NodeBack \/ \E s \in Remotes : StreamBreaks(s)

-----------------------------------------------------------------------------
Init ==
    /\ readerPc = "read"
    /\ nread = 0
    /\ total = 0
    /\ finished = FALSE
    /\ inputs = <<>>
    /\ errors = <<>>
    /\ failed = {}
    /\ outputs = [j \in Jids |-> None]
    /\ kill = FALSE
    /\ mainPc = "loop"
    /\ counter = 0
    /\ slotPc = [s \in AllSlots |-> IF s \in Remotes THEN "connect" ELSE "check"]
    /\ job = [s \in AllSlots |-> None]
    /\ link = [s \in Remotes |-> "none"]
    /\ nodeUp = TRUE
    /\ breaks = 0

LocalSlot(s) == CheckKill(s) \/ TakeInput(s) \/ MissInput(s) \/ RunLocally(s)

RemoteSlot(s) ==
    \/ Connect(s) \/ CheckKill(s)
    \/ TakeInput(s) \/ MissInput(s) \/ TakeError(s) \/ MissError(s)
    \/ Write(s) \/ ReadOutput(s) \/ ReadCutOutput(s) \/ ReadErr(s) \/ ReadEnd(s)
    \/ GiveUp(s) \/ Retry(s)

Next ==
    \/ Reader
    \/ Main
    \/ \E s \in Locals : LocalSlot(s)
    \/ \E s \in Remotes : RemoteSlot(s)
    \/ Node

(* Threads run, the source ends, a command of a local slot ends, and a node *)
(* that has received an instruction answers it. Nothing promises that       *)
(* streams stay up or that the node comes back.                             *)
Fairness ==
    /\ WF_vars(Reader)
    /\ WF_vars(Main)
    /\ \A s \in Locals : WF_vars(LocalSlot(s))
    /\ \A s \in Remotes : WF_vars(RemoteSlot(s))

Spec == Init /\ [][Next]_vars

FairSpec == Spec /\ Fairness

-----------------------------------------------------------------------------
(* Properties.                                                              *)

InInputs(j) == {i \in DOMAIN inputs : inputs[i] = j}
InErrors(j) == {i \in DOMAIN errors : errors[i].jid = j}
InSlots(j)  == {s \in AllSlots : job[s] # None /\ job[s].jid = j}

Places(j) ==
    Cardinality(InInputs(j)) + Cardinality(InErrors(j)) + Cardinality(InSlots(j))
        + (IF j \in failed THEN 1 ELSE 0) + (IF outputs[j] # None THEN 1 ELSE 0)
        + (IF j < counter THEN 1 ELSE 0)

(* Every variable has its type; no job is attempted more than four times.   *)
TypeOK ==
    /\ readerPc \in {"read", "announce", "done"}
    /\ nread \in 0 .. MaxInputs
    /\ total \in 0 .. MaxInputs
    /\ finished \in BOOLEAN
    /\ inputs \in Seq(Jids)
    /\ errors \in Seq(Jobs)
    /\ failed \subseteq Jids
    /\ outputs \in [Jids -> Results \cup {None}]
    /\ kill \in BOOLEAN
    /\ mainPc \in {"loop", "compare", "get", "kill", "join", "exit"}
    /\ counter \in 0 .. MaxInputs
    /\ slotPc \in [AllSlots -> {"connect", "check", "take", "takeError", "run",
                               "write", "read", "wait", "retry", "exited"}]
    /\ job \in [AllSlots -> Jobs \cup {None}]
    /\ link \in [Remotes -> {"none", "up", "broken"}]
    /\ nodeUp \in BOOLEAN
    /\ breaks \in 0 .. MaxBreaks

(* A job that was read is in exactly one place, whatever streams break: in  *)
(* a queue, with a slot, given up, waiting to be printed, or printed. None  *)
(* is lost between two queues, none is printed twice or left in the map     *)
(* after it was printed.                                                    *)
JobIsInOnePlace ==
    \A j \in Jids : Places(j) = IF j < nread THEN 1 ELSE 0

(* The client stops its slots only when the source has ended and every      *)
(* input has been printed, so no slot is stopped with work left.            *)
KillOnlyWhenAllPrinted ==
    mainPc \in {"kill", "join", "exit"} =>
        /\ finished
        /\ counter = nread
        /\ inputs = <<>> /\ errors = <<>> /\ failed = {}
        /\ \A s \in AllSlots : job[s] = None

(* An input that was read is printed, unless it, or one that is printed     *)
(* before it, was given up after four attempts: streams that break delay    *)
(* no job for ever while the client has a slot of its own.                  *)
InputsArePrinted ==
    \A j \in Jids :
        (j < nread) ~> (counter > j \/ \E k \in failed : k <= j)

(* Once killed, every slot that has its stream leaves its loop, so the join *)
(* of the threads can only wait for a slot that still connects.             *)
JoinCompletes ==
    mainPc = "join" ~> (mainPc = "exit" \/ \E s \in Remotes : slotPc[s] = "connect")

(* "Wait for inputs to be received, exiting the program once all inputs     *)
(* have been processed" (src/client/main.rs:198).                           *)
ExitsOnceAllProcessed ==
    (readerPc = "done" /\ counter = nread) ~> (mainPc = "exit")

(* The same comment of an input that was given up: the main thread goes on  *)
(* to the inputs after it.                                                  *)
FailedJobIsPassed ==
    \A j \in Jids : (j \in failed) ~> (counter > j)

(* "Results obtained from an input always consist of precisely three lines" *)
(* (src/client/slot.rs:122): a slot whose instruction reached a node that   *)
(* answers has done with the job sooner or later.                           *)
AnsweredSlotsReturn ==
    \A s \in Remotes : (slotPc[s] = "read") ~> (job[s] = None)

=============================================================================
