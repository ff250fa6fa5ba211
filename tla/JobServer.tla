------------------------------ MODULE JobServer ------------------------------
(***************************************************************************)
(* The job server, concurr-jobsd: the table of commands behind its RwLock, *)
(* the handlers that Service::call runs for the requests of its            *)
(* connections, and the slot threads of every command                      *)
(* (src/server/service/mod.rs, src/server/service/{inputs,outputs}.rs and  *)
(* slot_event of src/shared/jobs.rs).                                      *)
(*                                                                         *)
(* `call` is synchronous: it runs on the event-loop thread its connection  *)
(* belongs to and keeps that thread, with every other connection of it,    *)
(* until it returns.  An Input request holds the read lock of the table    *)
(* until its job has run; Command and StopJob take the write lock.         *)
(*                                                                         *)
(* Bounds: at most |Units| commands exist at a time (ArriveCommand).       *)
(***************************************************************************)
EXTENDS Naturals, Sequences, FiniteSets

CONSTANTS
    Conns,      (* the TLS connections clients hold open                    *)
    Workers,    (* the event-loop threads of the server                     *)
    Units,      (* the Job records (command, stack, outputs, flags) in use  *)
    Jids,       (* the job IDs clients give to their inputs                 *)
    Cids,       (* the command IDs clients name in inp and del requests     *)
    Cores,      (* num_cpus::get(): the slots of a command                  *)
    Overlap,    (* TRUE: a client may send a job again while the server is  *)
                (* still running it for a connection that was lost          *)
    None        (* Rust's None                                              *)

Slots == 0 .. Cores - 1

(* An input on a command's stack. What stands for the text of the input is  *)
(* the connection it came from.                                             *)
Tasks == [jid : Jids, from : Conns]

(* What a slot stores for a job: Some((status, out, err)) of the task that  *)
(* ran, or None when its shell could not be spawned.                        *)
Results == [from : Conns, spawned : BOOLEAN]

Inputs == [op : {"inp"}, cid : Cids, jid : Jids]
Stops  == [op : {"del"}, cid : Cids]
Plain  == [op : {"com", "comms", "cores"}]

Requests == Inputs \cup Stops \cup Plain

Replies ==
         [to : Conns, kind : {"id", "deleted"}, cid : Nat]
    \cup [to : Conns, kind : {"output"}, jid : Jids, from : Conns]
    \cup [to : Conns, kind : {"error"}, jid : Jids]
    \cup [to : Conns, kind : {"commands"}, cids : SUBSET Nat]
    \cup [to : Conns, kind : {"cores"}, cores : Nat]

ASSUME ServerAssumption ==
    /\ Cores \in Nat \ {0}
    /\ Cids \subseteq Nat
    /\ IsFiniteSet(Conns)
    /\ Overlap \in BOOLEAN
    /\ None \notin Units \cup Conns \cup Tasks \cup Results \cup Requests \cup Replies

VARIABLES
    commands,   (* the table: Vec<Option<Job>>, ID i at index i + 1         *)
    readers,    (* who holds the table's RwLock for reading                 *)
    writer,     (* who holds it for writing, or None                        *)
    workerOf,   (* the event-loop thread each connection was accepted on    *)
    pc,         (* where the handler of each connection's request is        *)
    req,        (* the request itself, or None                              *)
    unit,       (* the Job a handler works with, or None                    *)
    sent,       (* the reply the last step returned, or None                *)
    inputs,     (* of each Job: its stack of tasks                          *)
    outputs,    (*              its results by job ID                       *)
    kill,       (*              its kill flag                               *)
    parked,     (*              its count of slots that have stopped        *)
    slotPc,     (*              where each of its slot threads is           *)
    running     (*              the task each slot is running, or None      *)

tableVars   == <<commands, readers, writer>>
handlerVars == <<pc, req, unit>>
unitVars    == <<inputs, outputs, kill, parked, slotPc, running>>
vars == <<tableVars, workerOf, handlerVars, sent, unitVars>>

-----------------------------------------------------------------------------
(* The table of commands and its lock.                                      *)

(* commands.get(cid), with both kinds of absence one None.                  *)
LookUp(cid) == IF cid < Len(commands) THEN commands[cid + 1] ELSE None

Registered == {commands[k] : k \in DOMAIN commands} \ {None}

CanRead == writer = None

CanWrite == readers = {} /\ writer = None

(* Mutants of FirstVacant: the entry need not be vacant; none is reused.    *)
FirstVacantOrNot(k) ==
    /\ k \in 1 .. Len(commands) + 1
    /\ \A i \in 1 .. k - 1 : commands[i] # None

FirstUnused(k) == k = Len(commands) + 1

(* The first entry without a command, or the one past the end.              *)
FirstVacant(k) ==
    /\ k \in 1 .. Len(commands) + 1
    /\ k <= Len(commands) => commands[k] = None
    /\ \A i \in 1 .. k - 1 : commands[i] # None

(* Mutant of Stored: the entry whose index is told is not the one written.  *)
StoredAtEnd(k, u) == Append(commands, u)

Stored(k, u) ==
    IF k <= Len(commands) THEN [commands EXCEPT ![k] = u] ELSE Append(commands, u)

-----------------------------------------------------------------------------
(* Requests and replies.                                                    *)

(* A client numbers its jobs itself and no two clients share a command, so  *)
(* a job ID is in flight once, unless a client that lost a connection sends *)
(* the job again.                                                           *)
Distinct(r) == \A d \in Conns : req[d] # r

WorkerFree(c) ==
    \A d \in Conns \ {c} : workerOf[d] = workerOf[c] => pc[d] \in {"idle", "queued"}

Arrive(c, r) ==
    /\ pc[c] = "idle"
    /\ pc' = [pc EXCEPT ![c] = "queued"]
    /\ req' = [req EXCEPT ![c] = r]
    /\ sent' = None
    /\ UNCHANGED <<tableVars, workerOf, unit, unitVars>>

(* Every command that is registered, or that a request under way is about   *)
(* to register, takes one of the Units.                                     *)
ArriveCommand(c) ==
    /\ Cardinality(Registered) + Cardinality({d \in Conns : req[d] = [op |-> "com"]})
         < Cardinality(Units)
    /\ Arrive(c, [op |-> "com"])

ArriveQuery(c) == \E o \in {"comms", "cores"} : Arrive(c, [op |-> o])

ArriveInput(c) ==
    \E r \in Inputs : (Overlap \/ Distinct(r)) /\ Arrive(c, r)

ArriveStop(c) == \E r \in Stops : Arrive(c, r)

(* The handler returns its reply and the event loop takes up other work.    *)
Return(c, reply) ==
    /\ pc' = [pc EXCEPT ![c] = "idle"]
    /\ req' = [req EXCEPT ![c] = None]
    /\ unit' = [unit EXCEPT ![c] = None]
    /\ sent' = reply

-----------------------------------------------------------------------------
(* Command: spawn the slots, then store the Job under the write lock.       *)

(* Not in the table, with no handler and no thread left that refers to it.  *)
Unused(u) ==
    /\ u \notin Registered
    /\ \A d \in Conns : unit[d] # u
    /\ \A s \in Slots : slotPc[u][s] = "off"

SpawnSlots(c) ==
    /\ pc[c] = "queued"
    /\ req[c] = [op |-> "com"]
    /\ WorkerFree(c)
    /\ \E u \in Units :
          /\ Unused(u)
          /\ unit' = [unit EXCEPT ![c] = u]
          /\ inputs' = [inputs EXCEPT ![u] = <<>>]
          /\ outputs' = [outputs EXCEPT ![u] = [j \in Jids |-> None]]
          /\ kill' = [kill EXCEPT ![u] = FALSE]
          /\ parked' = [parked EXCEPT ![u] = 0]
          /\ slotPc' = [slotPc EXCEPT ![u] = [s \in Slots |-> "check"]]
    /\ pc' = [pc EXCEPT ![c] = "register"]
    /\ sent' = None
    /\ UNCHANGED <<tableVars, workerOf, req, running>>

RegisterCommand(c) ==
    /\ pc[c] = "register"
    /\ CanWrite
    /\ \E k \in 1 .. Len(commands) + 1 :
          /\ FirstVacant(k)
          /\ commands' = Stored(k, unit[c])
          /\ Return(c, [to |-> c, kind |-> "id", cid |-> k - 1])
    /\ UNCHANGED <<readers, writer, workerOf, unitVars>>

-----------------------------------------------------------------------------
(* Input: look the command up, push the input, wait for the job's result.   *)

TakeInput(c) ==
    /\ pc[c] = "queued"
    /\ req[c] \in Inputs
    /\ WorkerFree(c)
    /\ pc' = [pc EXCEPT ![c] = "submit"]
    /\ sent' = None
    /\ UNCHANGED <<tableVars, workerOf, req, unit, unitVars>>

(* Mutant of KeepReadLock: the guard is dropped after the lookup.           *)
DropReadLock(c) == readers' = readers

(* The guard of commands.read() lives until the handler returns.            *)
KeepReadLock(c) == readers' = readers \cup {c}

SubmitInput(c) ==
    LET u == LookUp(req[c].cid) IN
    /\ pc[c] = "submit"
    /\ CanRead
    /\ u # None
    /\ KeepReadLock(c)
    /\ inputs' = [inputs EXCEPT ![u] = Append(@, [jid |-> req[c].jid, from |-> c])]
    /\ unit' = [unit EXCEPT ![c] = u]
    /\ pc' = [pc EXCEPT ![c] = "await"]
    /\ sent' = None
    /\ UNCHANGED <<commands, writer, workerOf, req, outputs, kill, parked, slotPc, running>>

(* Mutant of RejectInput: the error path leaves the lock taken.             *)
RejectInputLocked(c) ==
    /\ pc[c] = "submit"
    /\ CanRead
    /\ LookUp(req[c].cid) = None
    /\ readers' = readers \cup {c}
    /\ Return(c, [to |-> c, kind |-> "error", jid |-> req[c].jid])
    /\ UNCHANGED <<commands, writer, workerOf, unitVars>>

(* No such command: the guard is dropped again as the handler returns.      *)
RejectInput(c) ==
    /\ pc[c] = "submit"
    /\ CanRead
    /\ LookUp(req[c].cid) = None
    /\ Return(c, [to |-> c, kind |-> "error", jid |-> req[c].jid])
    /\ UNCHANGED <<tableVars, workerOf, unitVars>>

(* Mutant of AnswerInput: the result is read but stays in the map.          *)
AnswerInputPeek(c) ==
    /\ pc[c] = "await"
    /\ outputs[unit[c]][req[c].jid] # None
    /\ readers' = readers \ {c}
    /\ Return(c, [to |-> c, kind |-> "output", jid |-> req[c].jid,
                  from |-> outputs[unit[c]][req[c].jid].from])
    /\ UNCHANGED <<commands, writer, workerOf, unitVars>>

(* Outputs::remove tries every millisecond; only the try that finds a       *)
(* result is a step.                                                        *)
AnswerInput(c) ==
    LET u == unit[c]
        j == req[c].jid
        r == outputs[u][j]
    IN
    /\ pc[c] = "await"
    /\ r # None
    /\ outputs' = [outputs EXCEPT ![u][j] = None]
    /\ readers' = readers \ {c}
    /\ Return(c, IF r.spawned
                 THEN [to |-> c, kind |-> "output", jid |-> j, from |-> r.from]
                 ELSE [to |-> c, kind |-> "error", jid |-> j])
    /\ UNCHANGED <<commands, writer, workerOf, inputs, kill, parked, slotPc, running>>

-----------------------------------------------------------------------------
(* StopJob: raise the kill flag, wait for the slots to park, clear the      *)
(* entry, all under the write lock.                                         *)

TakeStop(c) ==
    /\ pc[c] = "queued"
    /\ req[c] \in Stops
    /\ WorkerFree(c)
    /\ pc' = [pc EXCEPT ![c] = "stop"]
    /\ sent' = None
    /\ UNCHANGED <<tableVars, workerOf, req, unit, unitVars>>

(* Mutant of SignalKill: the write lock is not held while slots park.       *)
SignalKillUnlocked(c) ==
    LET u == LookUp(req[c].cid) IN
    /\ pc[c] = "stop"
    /\ CanWrite
    /\ u # None
    /\ kill' = [kill EXCEPT ![u] = TRUE]
    /\ unit' = [unit EXCEPT ![c] = u]
    /\ pc' = [pc EXCEPT ![c] = "park"]
    /\ sent' = None
    /\ UNCHANGED <<tableVars, workerOf, req, inputs, outputs, parked, slotPc, running>>

SignalKill(c) ==
    LET u == LookUp(req[c].cid) IN
    /\ pc[c] = "stop"
    /\ CanWrite
    /\ u # None
    /\ writer' = c
    /\ kill' = [kill EXCEPT ![u] = TRUE]
    /\ unit' = [unit EXCEPT ![c] = u]
    /\ pc' = [pc EXCEPT ![c] = "park"]
    /\ sent' = None
    /\ UNCHANGED <<commands, readers, workerOf, req, inputs, outputs, parked, slotPc, running>>

StopNothing(c) ==
    /\ pc[c] = "stop"
    /\ CanWrite
    /\ LookUp(req[c].cid) = None
    /\ Return(c, [to |-> c, kind |-> "deleted", cid |-> req[c].cid])
    /\ UNCHANGED <<tableVars, workerOf, unitVars>>

(* Mutant of AllParked: one stopped slot is enough.                         *)
SomeParked(u) == parked[u] > 0

AllParked(u) == parked[u] = Cores

RemoveCommand(c) ==
    /\ pc[c] = "park"
    /\ AllParked(unit[c])
    /\ commands' = [commands EXCEPT ![req[c].cid + 1] = None]
    /\ writer' = None
    /\ Return(c, [to |-> c, kind |-> "deleted", cid |-> req[c].cid])
    /\ UNCHANGED <<readers, workerOf, unitVars>>

-----------------------------------------------------------------------------
(* GetCores and GetCommands.                                                *)

ReportCores(c) ==
    /\ pc[c] = "queued"
    /\ req[c] = [op |-> "cores"]
    /\ WorkerFree(c)
    /\ Return(c, [to |-> c, kind |-> "cores", cores |-> Cores])
    /\ UNCHANGED <<tableVars, workerOf, unitVars>>

TakeList(c) ==
    /\ pc[c] = "queued"
    /\ req[c] = [op |-> "comms"]
    /\ WorkerFree(c)
    /\ pc' = [pc EXCEPT ![c] = "list"]
    /\ sent' = None
    /\ UNCHANGED <<tableVars, workerOf, req, unit, unitVars>>

ListCommands(c) ==
    /\ pc[c] = "list"
    /\ CanRead
    /\ Return(c, [to |-> c, kind |-> "commands",
                  cids |-> {k - 1 : k \in {i \in DOMAIN commands : commands[i] # None}}])
    /\ UNCHANGED <<tableVars, workerOf, unitVars>>

-----------------------------------------------------------------------------
(* slot_event: the loop of a slot thread.                                   *)

(* while kill.load() != true                                                *)
SlotContinue(u, s) ==
    /\ slotPc[u][s] = "check"
    /\ ~kill[u]
    /\ slotPc' = [slotPc EXCEPT ![u][s] = "poll"]
    /\ sent' = None
    /\ UNCHANGED <<tableVars, workerOf, handlerVars, inputs, outputs, kill, parked, running>>

(* Mutant of SlotPark: the thread counts itself and loops on.               *)
SlotParkAgain(u, s) ==
    /\ slotPc[u][s] = "check"
    /\ kill[u]
    /\ parked' = [parked EXCEPT ![u] = @ + 1]
    /\ sent' = None
    /\ UNCHANGED <<tableVars, workerOf, handlerVars, inputs, outputs, kill, slotPc, running>>

(* The loop has ended: parked.fetch_add(1), and the thread is gone.         *)
SlotPark(u, s) ==
    /\ slotPc[u][s] = "check"
    /\ kill[u]
    /\ slotPc' = [slotPc EXCEPT ![u][s] = "off"]
    /\ parked' = [parked EXCEPT ![u] = @ + 1]
    /\ sent' = None
    /\ UNCHANGED <<tableVars, workerOf, handlerVars, inputs, outputs, kill, running>>

(* Mutant of SlotIdle: an idle slot polls on without looking at the flag.   *)
SlotIdleBlind(u, s) ==
    /\ slotPc[u][s] = "poll"
    /\ inputs[u] = <<>>
    /\ sent' = None
    /\ UNCHANGED <<tableVars, workerOf, handlerVars, unitVars>>

(* The sleep of a millisecond lies between the check and get_job.           *)
SlotIdle(u, s) ==
    /\ slotPc[u][s] = "poll"
    /\ inputs[u] = <<>>
    /\ slotPc' = [slotPc EXCEPT ![u][s] = "check"]
    /\ sent' = None
    /\ UNCHANGED <<tableVars, workerOf, handlerVars, inputs, outputs, kill, parked, running>>

(* Stack::pop: the task that was pushed last.                               *)
SlotTake(u, s) ==
    LET n == Len(inputs[u]) IN
    /\ slotPc[u][s] = "poll"
    /\ n > 0
    /\ running' = [running EXCEPT ![u][s] = inputs[u][n]]
    /\ inputs' = [inputs EXCEPT ![u] = SubSeq(@, 1, n - 1)]
    /\ slotPc' = [slotPc EXCEPT ![u][s] = "run"]
    /\ sent' = None
    /\ UNCHANGED <<tableVars, workerOf, handlerVars, outputs, kill, parked>>

(* Mutant of StoreResult: no result when the shell could not be spawned.    *)
StoreSuccess(u, t, ok) ==
    outputs' = IF ok THEN [outputs EXCEPT ![u][t.jid] = [from |-> t.from, spawned |-> ok]]
               ELSE outputs

(* CHashMap::insert: an earlier result under the same ID is replaced.       *)
StoreResult(u, t, ok) ==
    outputs' = [outputs EXCEPT ![u][t.jid] = [from |-> t.from, spawned |-> ok]]

SlotFinish(u, s) ==
    /\ slotPc[u][s] = "run"
    /\ \E ok \in BOOLEAN : StoreResult(u, running[u][s], ok)
    /\ running' = [running EXCEPT ![u][s] = None]
    /\ slotPc' = [slotPc EXCEPT ![u][s] = "check"]
    /\ sent' = None
    /\ UNCHANGED <<tableVars, workerOf, handlerVars, inputs, kill, parked>>

-----------------------------------------------------------------------------
Init ==
    /\ commands = <<>>
    /\ readers = {}
    /\ writer = None
    /\ workerOf \in [Conns -> Workers]
    /\ pc = [c \in Conns |-> "idle"]
    /\ req = [c \in Conns |-> None]
    /\ unit = [c \in Conns |-> None]
    /\ sent = None
    /\ inputs = [u \in Units |-> <<>>]
    /\ outputs = [u \in Units |-> [j \in Jids |-> None]]
    /\ kill = [u \in Units |-> FALSE]
    /\ parked = [u \in Units |-> 0]
    /\ slotPc = [u \in Units |-> [s \in Slots |-> "off"]]
    /\ running = [u \in Units |-> [s \in Slots |-> None]]

Arrivals(c) == ArriveCommand(c) \/ ArriveInput(c) \/ ArriveStop(c) \/ ArriveQuery(c)

Handler(c) ==
    \/ SpawnSlots(c) \/ RegisterCommand(c)
    \/ TakeInput(c) \/ SubmitInput(c) \/ RejectInput(c) \/ AnswerInput(c)
    \/ TakeStop(c) \/ SignalKill(c) \/ StopNothing(c) \/ RemoveCommand(c)
    \/ ReportCores(c) \/ TakeList(c) \/ ListCommands(c)

Slot(u, s) ==
    \/ SlotContinue(u, s) \/ SlotPark(u, s)
    \/ SlotIdle(u, s) \/ SlotTake(u, s) \/ SlotFinish(u, s)

Next ==
    \/ \E c \in Conns : Arrivals(c)
    \/ \E c \in Conns : Handler(c)
    \/ \E u \in Units, s \in Slots : Slot(u, s)

(* Handlers and slots run on threads of the operating system, a lock that   *)
(* stays free is granted, and a shell command ends. Clients promise nothing.*)
Fairness ==
    /\ \A c \in Conns : WF_vars(Handler(c))
    /\ \A u \in Units, s \in Slots : WF_vars(Slot(u, s))

Spec == Init /\ [][Next]_vars

FairSpec == Spec /\ Fairness

-----------------------------------------------------------------------------
(* Properties. A token of job j in unit u is the job's task on the stack,   *)
(* its task in a slot, or its stored result.                                *)

Queued(u, j)  == {i \in DOMAIN inputs[u] : inputs[u][i].jid = j}
Busy(u, j)    == {s \in Slots : running[u][s] # None /\ running[u][s].jid = j}
Ready(u, j)   == outputs[u][j] # None
Waiting(u, j) == {c \in Conns : pc[c] = "await" /\ unit[c] = u /\ req[c].jid = j}

TokenCount(u, j) ==
    Cardinality(Queued(u, j)) + Cardinality(Busy(u, j)) + (IF Ready(u, j) THEN 1 ELSE 0)

(* Every variable has its type, and no unit counts more stopped slots than  *)
(* it was given.                                                            *)
TypeOK ==
    /\ commands \in Seq(Units \cup {None})
    /\ readers \subseteq Conns
    /\ writer \in Conns \cup {None}
    /\ workerOf \in [Conns -> Workers]
    /\ pc \in [Conns -> {"idle", "queued", "register", "submit", "await",
                         "stop", "park", "list"}]
    /\ req \in [Conns -> Requests \cup {None}]
    /\ unit \in [Conns -> Units \cup {None}]
    /\ sent \in Replies \cup {None}
    /\ inputs \in [Units -> Seq(Tasks)]
    /\ outputs \in [Units -> [Jids -> Results \cup {None}]]
    /\ kill \in [Units -> BOOLEAN]
    /\ parked \in [Units -> 0 .. Cores]
    /\ slotPc \in [Units -> [Slots -> {"off", "check", "poll", "run"}]]
    /\ running \in [Units -> [Slots -> Tasks \cup {None}]]

(* Once StopJob has raised the kill flag of a command nobody waits for a    *)
(* job of it and no job of it is left: the write lock is granted only when  *)
(* every Input request has its answer, so a stop never discards accepted    *)
(* work.                                                                    *)
KilledUnitIsQuiet ==
    \A u \in Units : kill[u] =>
        /\ inputs[u] = <<>>
        /\ \A s \in Slots : running[u][s] = None
        /\ \A j \in Jids : Waiting(u, j) = {} /\ ~Ready(u, j)

(* A handler that waits, for a result or for the slots to park, works with  *)
(* the command its request named: the lock it holds keeps the entry in      *)
(* place.                                                                   *)
HeldCommandStays ==
    \A c \in Conns : pc[c] \in {"await", "park"} => LookUp(req[c].cid) = unit[c]

(* A thread of a command lives only while the table, or the handler about   *)
(* to register the command, still reaches it: no delete leaves a slot       *)
(* thread behind that nobody could stop.                                    *)
NoOrphanThreads ==
    \A u \in Units :
        (u \notin Registered /\ \A c \in Conns : unit[c] # u)
            => \A s \in Slots : slotPc[u][s] = "off"

(* There is never more work in a unit than there are handlers waiting for   *)
(* it: no task, running job or result survives its waiters, not even when   *)
(* a client has sent the same job again over a second connection.           *)
NoWorkWithoutWaiter ==
    \A u \in Units, j \in Jids : TokenCount(u, j) <= Cardinality(Waiting(u, j))

(* Without such retries every waiting handler has exactly one token, and    *)
(* it is its own: work is neither lost nor doubled, and the result stored   *)
(* under a job ID is the one its waiter takes.                              *)
WaiterHasItsOneToken ==
    \A c \in Conns : pc[c] = "await" =>
        LET u == unit[c]
            j == req[c].jid
        IN  /\ TokenCount(u, j) = 1
            /\ \A i \in Queued(u, j) : inputs[u][i].from = c
            /\ \A s \in Busy(u, j) : running[u][s].from = c
            /\ Ready(u, j) => outputs[u][j].from = c

(* An ID, once given out, names the same command until a StopJob of that    *)
(* very ID clears it; nothing replaces a live command, and a command is     *)
(* cleared only when its threads have stopped.                              *)
IdsStayOrAreStopped ==
    \A k \in DOMAIN commands : commands[k] # None =>
        \/ k \in DOMAIN commands' /\ commands'[k] = commands[k]
        \/ /\ k \in DOMAIN commands' /\ commands'[k] = None
           /\ \E c \in Conns : writer = c /\ req[c] = [op |-> "del", cid |-> k - 1]
           /\ \A s \in Slots : slotPc'[commands[k]][s] = "off"

LiveIdsAreStable == [][IdsStayOrAreStopped]_vars

(* The ID a Command request is told is where the handler's own unit is      *)
(* stored, in an entry that was vacant, and no other ID names that unit.    *)
ReplyNamesTheCommand ==
    \A c \in Conns : (pc[c] = "register" /\ pc'[c] = "idle") =>
        /\ sent'.kind = "id"
        /\ {k \in DOMAIN commands' : commands'[k] = unit[c]} = {sent'.cid + 1}
        /\ LookUp(sent'.cid) = None

IdReplyNamesTheCommand == [][ReplyNamesTheCommand]_vars

(* A StopJob that has raised the kill flag finishes: every slot comes out   *)
(* of its sleep or its job, sees the flag and parks.                        *)
StopCompletes == \A c \in Conns : pc[c] = "park" ~> pc[c] = "idle"

(* When clients stop sending requests, every request gets its answer and    *)
(* the lock ends up free: the handlers, the slots and the event-loop        *)
(* threads they occupy never wait for each other in a circle.               *)
DrainsWhenClientsStop ==
    <>[][\A c \in Conns : pc[c] = "idle" => pc'[c] = "idle"]_vars
        => <>[](readers = {} /\ writer = None /\ \A c \in Conns : pc[c] = "idle")

(* A connection that has submitted an input gets an answer, once no other   *)
(* request arrives (README.md, on Output events: "the connection that       *)
(* submitted the input ... will immediately encode a response").            *)
WaitersAreAnswered ==
    <>[][\A c \in Conns : pc[c] = "idle" => pc'[c] = "idle"]_vars
        => \A c \in Conns : pc[c] = "await" ~> pc[c] = "idle"

=============================================================================
