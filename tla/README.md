# concurr: specification and verification

concurr runs a shell command once per input, on the cores of the client and of
any number of nodes. This directory holds TLA+ specifications of the program,
TLC configurations that model-check them, and TLAPS proofs. Paths below are
relative to the repository; `PROJECT.json` maps each definition to the lines it
models.

## 1. Inventory

| component | source | state | operations |
|---|---|---|---|
| Job server: table and handlers | `src/server/service/mod.rs`, `outputs.rs`, `inputs.rs`, `src/server/main.rs` | `RwLock<Vec<Option<Job>>>`; per Job a stack of inputs, a map of results, a kill flag, a count of parked slots; a fixed pool of event-loop threads | Command, Input, StopJob, GetCores, GetCommands |
| Slot threads | `src/shared/jobs.rs` | the job in work, its pipes and child | poll the stack, run the command, store the result, park |
| Client pipeline | `src/client/{main,slot,source,inputs,outputs}.rs` | queue of inputs, deque of jobs to retry, maps of failed jobs and of outputs, totals, kill flag, the TLS stream of each slot | read inputs, take, submit, retry, give up, print in order, kill, join |
| Client connections | `src/client/{connection,nodes}.rs` | one control stream per node with the command's ID | connect with retries, get cores, com, del on drop |
| Wire protocol | `src/server/service/{codec,events}.rs`, `src/client/slot.rs` | the bytes not yet decoded, the slot's instruction and three lines | decode, encode, escape, unescape |
| Tokenizer | `src/shared/tokenizer.rs` | none | command text to tokens and back |
| Start-up | `src/client/{args,configure,redirection,certificate}.rs`, `src/server/main.rs` | none that is shared | parsing and file access |

How they interact. A client opens one control connection to each node, asks for
its cores and registers its command (`com`); then one slot thread per core opens
a connection of its own and submits inputs (`inp cid jid text`), one at a time.
On the server `Service::call` is synchronous: it blocks the event-loop thread of
the connection. An Input handler keeps the read guard of the table from the
lookup to the answer. It pushes the input on the command's stack, one of the
command's slot threads pops it, runs it and inserts the result under the job ID,
and the handler, which polls the map, removes it and replies. Command and
StopJob take the write lock; StopJob holds it while it waits for the slots to
park. In the client, local slots run the same `slot_event` over the client's own
queues, and the main thread prints outputs in the order of job IDs.

What is hard, and what makes each part correct:

- *Server.* Long-lived read guards are the only thing that keeps a delete away
  from running work, an ID from changing its meaning under a handler, and threads
  from leaking. Work must be neither lost, doubled nor answered to the wrong
  connection while connections, slots and deletes interleave; deletes must end;
  blocked threads must not wait for each other.
- *Client.* Streams break at any step of a slot, jobs move between two queues,
  two maps and the slots, and three kinds of threads agree on the end through
  separate atomics. No job may be lost or printed twice, the slots may be stopped
  only when all is printed, and the client should end.
- *Pipes.* All slots share the descriptors of their process, and every shell
  inherits what is open when it is forked. Outputs must be whole and their own,
  no descriptor may stay open, and readers must see the end of an output.
- *Start.* A client registers its command on one node after the other and may fail
  at each of them; what it has registered must go again.
- *Wire and tokenizer.* Framing at boundaries, replies cut by a lost stream, escapes
  that must round-trip, IDs that must not be mistaken; braces within braces.

`PROJECT.json` lists the hazards line by line with the properties that cover them.

## 2. Modules

| module | what it is |
|---|---|
| `JobServer` | table, lock, handlers, event-loop threads and slot threads of the server; its properties |
| `JobService` | abstract specification: live IDs, one request per connection, accepted inputs, replies |
| `JobServerRefines` | the refinement mapping from `JobServer` to `JobService` |
| `ClientServer` | clients with control and slot connections, composed with `JobServer`; lost streams and crashes |
| `Client` | reader thread, local slots, remote slots, main thread of one client, the node as environment |
| `ClientStart` | configuration, arguments, the dial to each node, registration and what is dropped at the end |
| `SlotPipes` | the pipes, forks and readers of concurrent slots of one process |
| `Wire` | the bytes of one stream, with the codec on the server and the parsers of the client |
| `Tokenizer` | tokens of a command's text, the line of a job, and a reference definition of both |
| `MC...` | TLC instances |
| `..._proofs` | TLAPS proofs about the module before the underscore; `JobServer_proofs` has the refinement too |
| `Lemmas` | lemmas that several of the proofs share: cardinalities, induction over a set, recursive functions, `FlattenSeq` |

Operators whose comment begins with "Mutant of" are faulty variants of the
operator after them. No specification uses them; they serve to confirm that each
property fails when the code is changed in the way the variant describes.

### JobServer

One handler per connection (`pc[c]`), one thread per slot of a command
(`slotPc[u][s]`). A `Job` record, with the Arcs it shares with its threads, is a
*unit* out of `Units`; units are reused once nothing refers to them any more.

| code | state and actions |
|---|---|
| `Vec<Option<Job>>` behind `RwLock` | `commands` (ID i at index i + 1), `readers`, `writer` |
| event-loop threads, `TcpServer::threads` | `workerOf`; a handler starts only if `WorkerFree`; `Take...` are the starts |
| `JobEvent::Command` | `SpawnSlots` (threads run before the command is stored), `RegisterCommand` (write lock, first vacant entry, or push) |
| `JobEvent::Input` | `SubmitInput` (read lock, lookup, push), `AnswerInput` (remove the result, drop the guard), `RejectInput` |
| `JobEvent::StopJob` | `SignalKill` (write lock, raise kill), `RemoveCommand` (all parked, clear, unlock), `StopNothing` |
| `GetCores`, `GetCommands` | `ReportCores`; `TakeList`, `ListCommands` |
| `slot_event` | `SlotContinue`/`SlotPark` (kill check), `SlotIdle`/`SlotTake` (pop, LIFO), `SlotFinish` (run, insert; the insert replaces) |

A step under a lock that is taken and released within one handler step is one
action; a lock that spans steps is in `readers` or `writer`. Not modelled: the
text of commands and inputs (a task carries its connection instead, which tells
whose result it is), exit status and output, panics of a thread (a poisoned
lock), and weak memory orderings: kill and parked are Relaxed but each is a single
monotone flag or counter whose delayed visibility is a delayed step. A policy of
the RwLock between readers and writers is left open.

`Overlap` chooses the clients: FALSE, a job is in flight once, as clients number
their inputs and have a command each; TRUE, a client that lost a connection sends
a job again while the server still runs it (`src/client/slot.rs:104-113`).

### Client

`readerPc`, `mainPc` and `slotPc` are the program counters of the three kinds of
threads; `inputs`, `errors`, `failed`, `outputs`, `total`, `finished`, `kill` and
`counter` are the variables of `main`. The two loads in the condition of the main
loop are two steps. A remote slot connects once, then loops: kill check, oldest
input, else newest job of `errors`, write, read three lines, store, or put the job
back with one more try, or give it up after the fourth attempt. The node is
external: it may stop (`NodeDown`, all streams break), return, answer an input
with ERR if `NodeErrors`, and a stream may break by itself. Outputs are told apart
as complete, cut short by the end of a stream, or failed.
The numbers of a retry's sleeps are left out; `attempt_connection` and
`attempt_write` retry without effect on the shared state, so only their last
outcome is a step.

### ClientServer

Extends `JobServer`: its handlers and slot threads are the server's steps
(`ServerStep`), and what arrives on a connection comes from a client instead of
from anywhere. A connection is `<<client, 0>>` for the control connection or
`<<client, s>>` for slot s. `Register`/`LearnId` are `send_command`, `Submit` and
`Accept` the exchange of a slot, `Finish` the Drop of the Connection at the end.
`Lose` is a lost stream: the reply under way is gone, a request that the server has
not read may be, and the job is put back for any slot; `Crash` loses all streams of
a client at once. A request that the server has read goes on without its client.
`own` is a history variable: the unit the server has made for each client.
Left out: `get cores`, a reply of ERR (see Client), and the outputs' order.

### ClientStart

`pc` follows `main` up to the nodes and through `nodes::get`: certificate, TCP,
TLS, cores, ID, next node. `ctries` and `etries` are the counters of
`attempt_connection`. `Leave` stands for every way out that drops the Connections
made so far, by return, by the panic of an empty reply, or by the panic of
`unimplemented!` when there is not exactly one unit of arguments. `exit(1)` in
`certificate::get` is the way out that drops nothing: in `ReadCertificate` before a
dial, in `LoseCertificate` while the client runs, when a slot thread, which reads the
certificate again (`slot.rs:68-72`), no longer finds it. Nodes and
the network are external: a request that was sent before a stream is lost may have
arrived. Arguments are parsed word by word; TOML, paths and addresses are left out
(a configuration is missing, bad, or a number of nodes).

### SlotPipes

`table` has the pipe ends each process holds and `std` what `dup2` made the standard
descriptors of a shell. `Fork` copies the table of the host but for the four ends
that `before_exec` closes, so that ends of other slots' pipes are inherited; the
kernel reports the end of an output (`ReadEnd`) when no process holds a write end.
Shells are external: they print in any order and exit. The process is a server: each
job has a reader of its own, its Input handler, which reads stdout to its end, then
stderr. In a client the main thread alone reads, one job after the other in the order
of their numbers (`src/client/main.rs:198-215`, `outputs.rs`). Its steps are a subset
of the interleavings modelled, so that the safety properties cover it;
`JobsAreAnswered` does not, since with one reader a job also waits for the reading of
the jobs before it. Left out: processes a command leaves behind, which
hold its pipes longer; a reader that fails, as on invalid UTF-8; descriptor numbers,
and with them a `pipe` call that fails.

### Tokenizer and Wire

`Tokenizer` has no state: `ScanAll` is the loop of `Tokens::new` as a function on
positions, and `Replaced` says the same without a scan, from which braces count
(`Plain`, `Opens`, `Spans`). `Wire` is one stream with both of its ends. The client
sends instructions (`Send`), `Deliver` moves a byte to the server's buffer, `Decode`
cuts a frame and closes the stream on an error, `Serve` encodes any reply that
`Service::call` may give, `Read...` are the client's `read_line`s with what they pop
and parse, and `Break` loses the stream with any part of what was under way to the
client; what a `BufReader` has taken beyond its lines is dropped with it
(`Unbuffered`). Texts are sequences of characters; the word of an instruction with the
byte behind it is one character, so that the comparison with 5 bytes becomes one with 2.

The client sends texts as they are, and `decode` cuts at every newline. A line of a
text behind a newline that begins with a word is a request of its own, and the model
has it: the server then works on several requests of one text, stores several commands
for a stream (`commands`), deletes an ID that the text names, and answers each, so that
replies and what the client waits for are no longer paired. A newline at the very
beginning of a frame makes the index of `split_to` underflow (`codec.rs:15`), and the
panic ends the event-loop thread with all of its connections; the module has one
stream and closes that. Left out: invalid UTF-8, IDs out of range, and the repetition
of a write that failed, since a TLS stream does not recover from one.

## 3. Runs

| run | question and result | bounds |
|---|---|---|
| `server_safety` | Deletes find a quiet command, the lock keeps a held command in place, no thread is orphaned, each waiting handler has exactly its own task, running job or result, IDs stay with their command and are told correctly; and the server implements `JobService`. All hold. | 3 connections, 2 event-loop threads, 2 units with 2 slots, 2 job IDs, command IDs 0 and 1 |
| `server_retry` | The server with its clients: deletes still find a quiet command, work never outnumbers its waiters, the ID a client was told names its own command, a foreign result is only that of an input whose client is gone, and a client that has finished leaves nothing. All hold. | 2 clients, with 2 and 1 slot connections, a thread for each connection, 2 units with 2 slots, one job each under the same ID, 1 lost stream or crash |
| `server_liveness` | A delete completes; when clients stop, all is answered and unlocked. Holds. | 3 connections, 2 threads, 1 unit with 2 slots |
| `server_retry_strands` | The promise that a waiting connection is answered, with jobs sent again. Violated. | 2 connections, 2 threads |
| `client_safety` | Each job is in one place; slots are stopped only when all is printed. Holds. | 1 local and 2 remote slots, 3 inputs, 2 breaks, nodes that answer ERR |
| `client_liveness` | Inputs are printed unless given up; the join ends. Holds. | 1 local and 2 remote slots, 2 inputs, 1 break |
| `client_exit_race` | "Exiting once all inputs have been processed." Violated. | 1 local slot, 2 inputs |
| `client_failed_job` | The same, for the inputs behind one that was given up. Violated. | 1 local, 1 remote slot, 2 inputs, 1 break |
| `client_err_stuck` | "Results ... always consist of precisely three lines", so a slot that is answered returns. Violated. | 1 remote slot, 1 input, a node that answers ERR |
| `client_start` | Arguments are kept as they were written; the start ends whatever nodes refuse; nothing is left behind on a node whose stream is up, unless a certificate was missing. Holds. | 2 nodes, command lines of up to 5 words |
| `slot_pipes` | Outputs are whole and not mixed, descriptors are closed, and every job is answered that no overflowing output holds up. Holds. | 2 jobs in 2 slots, pipes of 1 unit, 0 to 2 units on each stream |
| `wire` | Requests and results arrive intact and under their ID, commands are understood as their text says, only the confirmed command is deleted, and it is; all but the first and the fourth unless a line of a text is a request of its own. Holds. | all commands of up to 3 characters out of a brace pair with a backslash or a letter, and of a letter with a newline, some longer ones, and some with lines that begin with com, inp, get or del; 5 inputs' texts, two with such lines; 2 inputs on a slot's stream, 2 job IDs, 2 command IDs |

Why the bounds are enough to be interesting. Three connections are the least
with two readers and a writer, or two creators and a deleter; two event-loop
threads make connections share one (and block behind it) in some placements and
not in others; two units and two command IDs reach reuse of an entry, a vacant
entry before a used one, and requests for IDs that were deleted or never existed;
two slots make a delete wait for one slot while another has parked. With two clients
and one fault the exception of `ForeignResultsAreStale` is reached: it takes a lost
slot stream, the result over the other slot, a delete, a second registration and only
then the reading of the stale input. On the client four attempts times two remote
slots with one break reach the job that is given up; two breaks break both streams
one after the other. Two nodes are the least with a failure behind a registration.
Two jobs and outputs below, at and above the capacity reach ends inherited in both
directions, with and without a full pipe. In `wire` a byte is delivered at a time, so frames
are cut at every place; the two job IDs are a prefix of each other.

The bounds in the specifications: at most `|Units|` commands exist or are being
created at a time (`ArriveCommand`), `MaxInputs` inputs are read, streams break
`MaxBreaks` times, `MaxFaults` counts lost streams and crashes, `MaxNodes` and
`MaxSize` bound configurations and outputs. The runs of clients, pipes and streams
switch the deadlock check off because a client ends (or, in the counterexamples,
hangs), jobs are run once each, and a stream is used up;
`server_retry` does since its clients end, and `server_retry_strands` because the
fault it shows ends in a state where only the stranded handler is left.

Fairness. Handlers, slots, the reader and the main thread are threads of the
operating system, so each is weakly fair; a shell command ends; a lock that stays
free is granted (weak fairness on a handler whose guard is the lock). Clients
never have to send anything; the node has to answer an instruction that it has
received on a stream that stays up, but neither streams nor the node promise to
be up. The drain properties assume that clients stop sending, which the formula
says itself. In `SlotPipes` a shell that can print or exit does, slots and readers
go on; in `ClientStart` the client goes on and a node serves what has arrived.
`ClientServer` and `Wire` have safety properties only, and no fairness.

What the violated properties show:

1. *A result overwrites another* (`src/server/service/outputs.rs:27-29`). Two runs
   of one job end before either handler takes a result; the second insert replaces
   the first, one handler answers, the other polls for ever with the read guard,
   and every later com and del blocks. `README.md:52-54` of the repository
   promises an answer.
2. *The client does not end* (`src/client/main.rs:199`). The loop looks at
   `inputs_finished` before it blocks in `outputs.get`; if the reader announces the
   end after that look, nothing wakes the main thread.
3. *A failed job blocks the output* (`src/client/slot.rs:108-109`). The map `failed`
   is written and never read.
4. *ERR blocks its slot* (`src/client/slot.rs:161-166`). The server answers with one
   line, the slot reads three; while the stream stays up it never returns. The
   liveness run of the client therefore has nodes that do not answer ERR.

What the exceptions in the properties that hold say about the code:

- `NothingIsLeftBehind` excepts `exit(1)` in `certificate::get`
  (`src/client/certificate.rs:21-29`), before a dial or in a slot: the commands stay, and the
  message that asks for a deletion by hand (`connection.rs:41`) is not printed.
- `ForeignResultsAreStale` excepts an input that outlived its command: nothing on the
  wire tells the server that an ID has changed its meaning.
- `JobsAreAnswered` excepts jobs that are held up. A command that prints more than a
  pipe holds is never answered (`src/shared/jobs.rs:100`), and its shell may keep the
  pipes of another job open for as long, in spite of the close calls of
  `jobs.rs:77-81`, which reach only the shell's own pipes.
- `ResultsArriveIntact` excepts outputs with a backslash: `escape` leaves it single
  (`events.rs:107-110`), so `unescape` turns a printed backslash and n into a newline,
  and two backslashes into one.
- A text with a newline becomes several frames, each without its last byte but the
  last, and a frame that begins with com, inp, get or del is a request like any other
  (`codec.rs:13-34`). `RequestsArriveIntact` says of such texts only that
  what the server works on is one of their lines. The command `echo hi\ndel 0` makes
  the server delete command 0, whoever has it, which `OnlyOwnCommandIsDeleted` excepts;
  `echo hi\ncomm -12 x y` registers a second command, of which no Connection knows the
  ID and which stays, as `CommandIsDeleted` excepts. The replies to such lines are read
  in place of results, which `ResultsArriveIntact` and `ResultsKeepTheirId` except. A
  line that does not begin with a word closes the stream instead, and is no exception.

## 4. Proofs

What the runs check on small instances is proved here for every value of the
constants that satisfies the named assumptions. Each proof has the same shape:
an inductive invariant (`Inv`, `SystemInv`, `IInv`) as a conjunction of named parts; one
lemma per action, or per group of actions that change the same things; a lemma
that combines them; and the theorems about properties, which follow from the
invariant. TLC has checked each inductive invariant on the run of its module.

| module | theorem | statement |
|---|---|---|
| `JobServer_proofs` | `Invariance` | `Spec => []Inv` |
| | `TypeCorrect` | `Spec => []TypeOK` |
| | `KilledIsQuiet` | `Spec => []KilledUnitIsQuiet` |
| | `ThreadsAreReachable` | `Spec => []NoOrphanThreads` |
| | `HeldCommandsStay` | `Spec => []HeldCommandStays` |
| | `WorkHasWaiters` | `Spec => []NoWorkWithoutWaiter` |
| | `IdsAreStable` | `Spec => LiveIdsAreStable` |
| | `RepliesNameTheCommand` | `Spec => IdReplyNamesTheCommand` |
| | `TokenInvariance` | `~Overlap => (Spec => [](Inv /\ TokenInv))` |
| | `OneTokenEach` | `~Overlap => (Spec => []WaiterHasItsOneToken)` |
| | `ServerImplementsService` | `~Overlap => (Spec => ImplementsService)` |
| `ClientServer_proofs` | `SystemInvariance` | `SystemSpec => []SystemInv` |
| | `ClientTypeCorrect` | `SystemSpec => []ClientTypeOK` |
| | `IdsNameOwnCommands` | `SystemSpec => []IdNamesOwnCommand` |
| | `OnlyStaleResultsAreForeign` | `SystemSpec => []ForeignResultsAreStale` |
| | `FinishedClientsAreForgotten` | `SystemSpec => []FinishedClientsLeaveNothing` |
| | `StopsDiscardNothing` | `SystemSpec => []KilledUnitIsQuiet` |
| | `RetriesStrandNoWork` | `SystemSpec => []NoWorkWithoutWaiter` |
| | `FaultFreeClients` | `MaxFaults = 0 => (SystemSpec => Spec /\ [](Inv /\ TokenInv))` |
| | `FaultFreeTokens` | `MaxFaults = 0 => (SystemSpec => []WaiterHasItsOneToken)` |
| | `SystemImplementsService` | `MaxFaults = 0 => (SystemSpec => ImplementsService)` |
| `Client_proofs` | `Invariance` | `Spec => []Inv` |
| | `TypeCorrect` | `Spec => []TypeOK` |
| | `JobsAreInOnePlace` | `Spec => []JobIsInOnePlace` |
| | `KillsWhenAllPrinted` | `Spec => []KillOnlyWhenAllPrinted` |
| `SlotPipes_proofs` | `Invariance` | `Spec => []Inv` |
| | `TypeCorrect` | `Spec => []TypeOK` |
| | `OutputIsTheJobs` | `Spec => []OutputsAreWholeAndOwn` |
| | `DescriptorsAreReturned` | `Spec => []NoDescriptorLeaks` |
| `ClientStart_proofs` | `Invariance` | `Spec => []Inv` |
| | `TypeCorrect` | `Spec => []TypeOK` |
| | `CommandsAreDeleted` | `Spec => []NothingIsLeftBehind` |
| | `ArgumentsKept` | `Spec => []ArgumentsAreKept` |
| `Wire_proofs` | `Invariance` | `Spec => []IInv` |
| | `RequestsIntact` | `Spec => []RequestsArriveIntact` |
| | `OnlyOwnIsDeleted` | `Spec => []OnlyOwnCommandIsDeleted` |
| | `NoCommandIsLeft` | `Spec => []CommandIsDeleted` |
| | `ResultsAreNamed` | `Spec => []ResultsKeepTheirId` |
| | `ResultsIntact` | `Spec => []ResultsArriveIntact` |
| | `CommandsUnderstood` | `Spec => []CommandIsUnderstood` |

`Tokenizer_proofs` has no theorem of a behaviour; its last lemma, `UnderstoodIs`, is
that tokens and reference agree on every text, and `CommandsUnderstood` rests on it.

### Assumptions

- `ServerAssumption`: Cores is a positive natural, command IDs are naturals,
  connections are finitely many, None is none of the values. `JobServer_proofs`
  holds with and without Overlap.
- `~Overlap` in `TokenInvariance`, `OneTokenEach` and `ServerImplementsService` is a
  premise because the two properties are false without it: when a job is sent again while the server still runs it, one
  result replaces another and its handler is left without a token, which is what
  `server_retry_strands` shows. `ClientServer_proofs` has no such premise: its
  clients do send jobs again. They do so only after a fault, so that for clients
  without faults the premise is a theorem (`FaultFreeClients`).
- `ClientsAssumption`: each client has a control connection, connections are
  accepted on one event-loop thread each, and the units (the bound on commands) are
  finitely many and no more than the IDs. The last is the model's form of the fact
  that an ID is a `usize` and memory ends first: it keeps `push` from needing an ID
  that is not there. None is no job.
- `ClientAssumption`: a client has finitely many slots, local and remote ones apart.
- `PipesAssumption`: jobs are finitely many, a pipe holds something, the host is no job.
- `StartAssumption`: None is none of the messages; a command line is a sequence of
  strings.
- `WireAssumption`: texts, outputs, listings and numbers are sequences of characters,
  the numbers of inputs and the IDs of commands are digits and not empty, `MaxInputs` is
  a natural. Texts are arbitrary, with newlines and words in any place; what does not
  hold of some of them is excepted in the properties, and so in the theorems.
  Lengths are not bounded.

### The arguments

*Server.* That a killed command is quiet: the write lock is granted only without
readers; every handler that waits for a result is a reader; work never outnumbers
its waiters; so at the moment of the kill there is no work, and while the writer
holds the lock none can be submitted. Each step of the argument is a conjunct of
`Inv`:

- `Typed`: TypeOK without the bound on `parked`;
- `LockInv`: a writer excludes readers, readers are the handlers that wait for a
  result, the writer is the handler that waits for slots to park;
- `RequestInv`, `HandlerUnitInv`: the request and the unit a handler has at each of
  its steps, and that no two handlers register the same unit;
- `HeldCommandStays`, `TableInv`: the entry of a held command, and that no unit is
  in the table twice or both registered and about to be;
- `ThreadInv`, `ParkedInv`: only reachable units have threads, and in a unit that
  is killed `parked` is the number of slots that are gone, from which the bound of
  TypeOK and the absence of orphans at `RemoveCommand` follow;
- `RunInv`: a slot has a task exactly while it runs one;
- `NoWorkWithoutWaiter`: the count of tasks, running jobs and results per job.

*Refinement.* Counting is not enough to say whose work it is. `TokenInv` adds that
input requests under way differ (`Exclusive`), that a task, running job or result
names a handler that waits for it, and that a waiting handler has one. Two handlers
that wait for a job of a unit would have sent the same request, since a unit has one
entry (`OneWaiter`); with the count of `Inv` this makes the token unique and its
handler's own. Then `SlotFinish` never replaces a result, the answer is that of the
request, and each action is a step of `JobService` or leaves its variables alone.

*Clients and server.* `SystemInv` contains the server's `Inv`. A step of a client is,
for the server, the arrival of a request or nothing, a fault the loss of a request it
has not read; a step of the server puts a reply into an inbox, at most. To it the invariant adds what may be under way on each
connection (`SentInv`), how a client comes to its ID (`StartInv`), that a client that
holds a command finds it under its ID and shares it with none (`HoldsInv`), that each
command in the table has such an owner or one that is gone (`OwnersInv`), and that all
work in a unit was sent with the ID of that unit (`SendersInv`). An ID is given again
only when its entry is vacant, and it becomes vacant only by the del of its owner,
who has finished; so foreign work in a unit is of clients that had the ID before.

*Clients without faults.* A slot that waits for a job has sent one request, for that
job, and has no answer in its inbox; a slot that waits for none has sent nothing
(`ExchangeInv`). No two slots of a client wait for the same job, by the type invariant,
and no two clients share an ID, by `HoldsInv`; so requests under way differ
(`RequestsAreExclusive`), which is what an arrival has to satisfy when `Overlap` is
FALSE. Each step of clients and server is then a step of `JobServer`, and what is
proved of that applies (`EnvironmentStep`). `server_safety` is the run of the two
properties; its connections send whatever `~Overlap` allows, which is more than these
clients do.

*Client.* `JobIsInOnePlace` is a sum of cardinalities over queues, slots and maps; an
action moves one job from one summand to another. It needs where a slot has a job
(`SlotInv`). `KillOnlyWhenAllPrinted` needs what the main thread has seen when it goes
on (`EndInv`): the flag `finished` is raised after the total is final, and when the
counter equals that total every job that was read is among the printed ones, so that
by the first property it is nowhere else.

*Pipes.* `HostInv` says which of the four ends of a job the host holds at each point;
it is independent of what shells inherit, since closing in one process changes no
other table. The bound on descriptors is an injection of the open ends into (busy
jobs x 4 ends) and (jobs being read x 2 read ends). `OutputInv` says that what is read,
in the pipe and left to print adds up to the size of the output, all of it the job's
own; a running shell's standard descriptors are its own write ends (`ShellInv`),
whatever others it has inherited. A slot stores a result only after the exit of the
shell, so nothing is left to print when a reader meets an empty pipe.

*Start.* A stream goes up only for the node after the last Connection, and only while
the client waits for a reply from it (`DialInv`); a node that was not called has
nothing (`FarInv`). Every way out but those for want of a certificate drops the
Connections, and the stream of the node without a Connection is lost by then, so that
at the end each stream that is up carries its del or has delivered it (`EndInv`). That arguments are kept is shown for
each prefix of the command line: the units that are closed and the one that is open,
written out again, are the words so far (`Written`, `ParseFold`).

*Wire.* Every line that has left the client and is not decoded is a line of one of the
instructions that were sent (`Arrived`): an instruction ends with a newline, `decode`
takes whole lines, and of what a break leaves with the server (`Lost`) only the whole
lines are ever decoded. So no request is put together of two instructions, and an
instruction whose text is one line parses to the request that was sent (`EventOfLine`).
That gives `RequestsArriveIntact` for every text.

The other theorems need to know which lines can be taken for a request. If no line of
a text begins with a given word, the only lines under way that do are first lines of
instructions (`SentHeads`, `TakenHeads`). `DelInv` and `StoreInv` then
follow a client's own del and com: a del is sent last, with the ID that was read on
the same stream, an ID is read only after a command is stored, and nothing else
removes or adds one. How far the exchange of a control connection has come is
`ExchangeInv`; `SlotInv` says the same of a slot when no line of its texts begins with a
word, so that the reply it finds while its stream is up is the whole of its own
(`RepliesAreRead`). `Answered` and
`LineBegins` say that what a break leaves of a reply begins with the number of the job
and a space, or has no space and is rejected; so the ID of a result is that of the
input, whatever the output is. That `Unescape` undoes `Escape` goes part by part: in a
text without a backslash each newline has become two characters, of which the second
is taken with the first (`TakenIn`, `PartOf`, `Restored`).

*Tokenizer.* The scan has a position, a start and two flags; the reference looks at the
whole text for the places where a token is spelled and its brace counts. After
each character the flags say what the reference says of the text so far: whether the
next character is taken by a backslash, and whether a brace is open that nothing has
closed (`Flags`). A token of the reference lies before the start, where the scan has
found it, or ends behind the position (`Apart`), and the tokens found expand to what
the reference makes of the text before the start (`Covered`). At the end of the text
`Stragglers` adds the rest, and `WithPlaceholder` the input when no token asks for it.
`CommandInv` then says that the server runs what it has tokenized.

Data are recursive here: replies are built with `FlattenSeq`, arguments with
`FoldLeft`, the scan is a function on positions. The induction theorems of the
library take a predicate for a parameter, which the provers cannot instantiate. In
their place `Lemmas` has a least-number principle for *sets* of naturals (`Least`,
`Induction`), which follows from the well-foundedness of the library, and from it the
existence of recursive functions (`Recursion`, `JoinExists`); a predicate becomes the
set of the numbers that satisfy it.

### Only model-checked

Every invariant of the passing runs and every action property is proved, and so is the
refinement. The liveness properties stay with TLC (`StopCompletes`,
`DrainsWhenClientsStop`, `InputsArePrinted`, `JoinCompletes`, `StartEnds`,
`JobsAreAnswered`): they rest on fairness, and so on ENABLED, which is out of the
prover's reach. The properties that runs find violated are of course not proved.

## 5. Not modelled

- Start-up of the server: the port, the certificate and the address are parsed once,
  before there is any state. TOML and application directories of the client.
- TLS is a stream that is up or lost; what is lost with it is any part of the bytes
  under way. A real TLS stream is cut at its records, so `Wire` allows more.
- Weak memory orderings, panics of a thread that holds a lock (poisoning), and the
  policy of the RwLock between readers and writers.
- Descriptor numbers and the failure of `pipe`; commands that leave processes behind;
  invalid UTF-8 in outputs; the layout of verbose messages.
- Starvation: inputs are a LIFO stack on the server, and event-loop threads are shared
  by connections; neither code nor docs promise an order or a delay.
- The panic of an event-loop thread over a frame that begins with a newline, as far as
  it ends other connections of that thread.
- A write is repeated after a failure (`connection.rs:123-141`) and the instruction
  buffer is kept (`slot.rs:192-196`), but both only on a stream that is dead then.
- `src/server/service/proto.rs` and `src/shared/lib.rs` hold no behaviour of their own.

## 6. Plan

Done: `JobServer` with its abstract specification, its proofs and its refinement;
`ClientServer`, `Client`, `SlotPipes`, `ClientStart`, `Wire` and `Tokenizer` with
their proofs. What could be added:

1. Descriptors as a bounded resource, with the `pipe` call that fails.
2. An event-loop thread for several connections in `ClientServer`, which needs a
   placement that does not let an input wait behind the one that holds its thread.
3. A fairness between readers and writers of the table, once the code chooses one.
