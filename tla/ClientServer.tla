----------------------------- MODULE ClientServer -----------------------------
(***************************************************************************)
(* Clients and the job server together.  The server is JobServer, with all *)
(* of its handlers and slot threads; its requests come from clients that   *)
(* do what src/client/{connection,nodes,slot,main}.rs do: register a       *)
(* command on a control connection, submit inputs on one connection per    *)
(* slot, send a job again on another slot when a connection is lost, and   *)
(* delete the command when they drop the control connection.               *)
(*                                                                         *)
(* A connection is <<client, 0>>, the control connection, or <<client, s>> *)
(* for a slot s.  A server that has read a request goes on with it when    *)
(* the connection, or the client, is gone.                                 *)
(*                                                                         *)
(* Bounds: connections break, and clients crash, MaxFaults times in all.   *)
(***************************************************************************)
EXTENDS JobServer

CONSTANTS
    Clients,
    Placement,  (* the event-loop thread each connection is accepted on     *)
    MaxFaults   (* bound: how many streams are lost and clients crash       *)

Control(k) == <<k, 0>>

StreamsOf(k) == {c \in Conns : c[1] = k}

SlotsOf(k) == StreamsOf(k) \ {Control(k)}

(* Cids are all the IDs the server can give out for that many commands.     *)
ASSUME ClientsAssumption ==
    /\ Conns \subseteq Clients \X Nat
    /\ \A k \in Clients : Control(k) \in Conns
    /\ Placement \in [Conns -> Workers]
    /\ IsFiniteSet(Units) /\ 0 .. Cardinality(Units) - 1 \subseteq Cids
    /\ MaxFaults \in Nat
    /\ None \notin Jids

VARIABLES
    phase,      (* how far each client has come                             *)
    cid,        (* Connection::command: the ID of its command               *)
    todo,       (* the jobs it has no result for                            *)
    job,        (* the job each slot of a client waits for, or None         *)
    link,       (* the TLS streams                                          *)
    inbox,      (* the reply under way on a stream, or None                 *)
    results,    (* of each job: the connection whose input it is from       *)
    own,        (* the unit the server has made for the client, or None     *)
    faults      (* how many faults there have been                          *)

clientVars == <<phase, cid, todo, job, link, inbox, results, own, faults>>

allVars == <<vars, clientVars>>

Alive(k) == phase[k] \notin {"finished", "gone"}

-----------------------------------------------------------------------------
(* The client: nodes::get, Slot::spawn, and main.                           *)

Register(k) ==
    /\ phase[k] = "start"
    /\ link[Control(k)] = "up"
    /\ ArriveCommand(Control(k))
    /\ phase' = [phase EXCEPT ![k] = "register"]
    /\ UNCHANGED <<cid, todo, job, link, inbox, results, own, faults>>

(* Connection::send_command reads the ID.                                   *)
LearnId(k) ==
    /\ phase[k] = "register"
    /\ inbox[Control(k)] # None
    /\ cid' = [cid EXCEPT ![k] = inbox[Control(k)].cid]
    /\ inbox' = [inbox EXCEPT ![Control(k)] = None]
    /\ phase' = [phase EXCEPT ![k] = "run"]
    /\ UNCHANGED <<vars, todo, job, link, results, own, faults>>

Taken(k, j) == \E c \in SlotsOf(k) : job[c] = j

(* Mutant of Submit: a job that another slot waits for is sent too.         *)
SubmitTwice(c) ==
    LET k == c[1] IN
    /\ phase[k] = "run"
    /\ c \in SlotsOf(k)
    /\ link[c] = "up"
    /\ job[c] = None
    /\ \E j \in todo[k] :
          /\ Arrive(c, [op |-> "inp", cid |-> cid[k], jid |-> j])
          /\ job' = [job EXCEPT ![c] = j]
    /\ UNCHANGED <<phase, cid, todo, link, inbox, results, own, faults>>

(* A job that no slot waits for: it is new, or it was put back.             *)
Submit(c) ==
    LET k == c[1] IN
    /\ phase[k] = "run"
    /\ c \in SlotsOf(k)
    /\ link[c] = "up"
    /\ job[c] = None
    /\ \E j \in todo[k] :
          /\ ~Taken(k, j)
          /\ Arrive(c, [op |-> "inp", cid |-> cid[k], jid |-> j])
          /\ job' = [job EXCEPT ![c] = j]
    /\ UNCHANGED <<phase, cid, todo, link, inbox, results, own, faults>>

(* An Output is stored; a slot that gets ERR waits for more (see Client).   *)
Accept(c) ==
    LET k == c[1] IN
    /\ job[c] # None
    /\ inbox[c] # None
    /\ inbox[c].kind = "output"
    /\ results' = [results EXCEPT ![k][job[c]] = inbox[c].from]
    /\ todo' = [todo EXCEPT ![k] = @ \ {job[c]}]
    /\ job' = [job EXCEPT ![c] = None]
    /\ inbox' = [inbox EXCEPT ![c] = None]
    /\ UNCHANGED <<vars, phase, cid, link, own, faults>>

(* Mutant of Finish: del is sent with the ID every Connection begins with.  *)
FinishZero(k) ==
    /\ phase[k] = "run"
    /\ todo[k] = {}
    /\ \/ /\ link[Control(k)] = "up"
          /\ Arrive(Control(k), [op |-> "del", cid |-> 0])
          /\ phase' = [phase EXCEPT ![k] = "finished"]
       \/ /\ link[Control(k)] = "broken"
          /\ phase' = [phase EXCEPT ![k] = "gone"]
          /\ UNCHANGED vars
    /\ UNCHANGED <<cid, todo, job, link, inbox, results, own, faults>>

(* All outputs are there, the slots are joined, and the control connection  *)
(* is dropped, which sends del.                                             *)
Finish(k) ==
    /\ phase[k] = "run"
    /\ todo[k] = {}
    /\ \/ /\ link[Control(k)] = "up"
          /\ Arrive(Control(k), [op |-> "del", cid |-> cid[k]])
          /\ phase' = [phase EXCEPT ![k] = "finished"]
       \/ /\ link[Control(k)] = "broken"
          /\ phase' = [phase EXCEPT ![k] = "gone"]
          /\ UNCHANGED vars
    /\ UNCHANGED <<cid, todo, job, link, inbox, results, own, faults>>

-----------------------------------------------------------------------------
(* Faults.                                                                  *)

(* The streams in C are lost, with the replies under way on them, and with  *)
(* those requests that the server has not read.                             *)
Lose(C) ==
    /\ faults < MaxFaults
    /\ faults' = faults + 1
    /\ link' = [c \in Conns |-> IF c \in C THEN "broken" ELSE link[c]]
    /\ inbox' = [c \in Conns |-> IF c \in C THEN None ELSE inbox[c]]
    /\ job' = [c \in Conns |-> IF c \in C THEN None ELSE job[c]]
    /\ \E lost \in SUBSET {c \in C : pc[c] = "queued"} :
          /\ pc' = [c \in Conns |-> IF c \in lost THEN "idle" ELSE pc[c]]
          /\ req' = [c \in Conns |-> IF c \in lost THEN None ELSE req[c]]
    /\ sent' = None
    /\ UNCHANGED <<tableVars, workerOf, unit, unitVars, cid, todo, results, own>>

(* A client whose control stream breaks before it knows its ID gives up:    *)
(* the del of its Drop does not reach the server either.                    *)
StreamLost(c) ==
    /\ link[c] = "up"
    /\ Alive(c[1])
    /\ Lose({c})
    /\ phase' = IF c = Control(c[1]) /\ phase[c[1]] = "register"
                THEN [phase EXCEPT ![c[1]] = "gone"] ELSE phase

Crash(k) ==
    /\ Alive(k)
    /\ Lose(StreamsOf(k))
    /\ phase' = [phase EXCEPT ![k] = "gone"]

-----------------------------------------------------------------------------
(* The server takes a step; a reply goes out on a stream that is up, to a   *)
(* client that reads it.                                                    *)
ServerStep ==
    /\ \/ \E c \in Conns : Handler(c)
       \/ \E u \in Units, s \in Slots : Slot(u, s)
    /\ inbox' = IF sent' # None /\ link[sent'.to] = "up" /\ Alive(sent'.to[1])
                THEN [inbox EXCEPT ![sent'.to] = sent'] ELSE inbox
    /\ own' = [k \in Clients |->
                  IF pc'[Control(k)] = "register" THEN unit'[Control(k)] ELSE own[k]]
    /\ UNCHANGED <<phase, cid, todo, job, link, results, faults>>

SystemInit ==
    /\ Init
    /\ workerOf = Placement
    /\ phase = [k \in Clients |-> "start"]
    /\ cid = [k \in Clients |-> None]
    /\ todo = [k \in Clients |-> Jids]
    /\ job = [c \in Conns |-> None]
    /\ link = [c \in Conns |-> "up"]
    /\ inbox = [c \in Conns |-> None]
    /\ results = [k \in Clients |-> [j \in Jids |-> None]]
    /\ own = [k \in Clients |-> None]
    /\ faults = 0

ClientStep(k) ==
    \/ Register(k) \/ LearnId(k) \/ Finish(k)
    \/ \E c \in StreamsOf(k) : Submit(c) \/ Accept(c)

Fault == (\E c \in Conns : StreamLost(c)) \/ (\E k \in Clients : Crash(k))

SystemNext == ServerStep \/ (\E k \in Clients : ClientStep(k)) \/ Fault

SystemSpec == SystemInit /\ [][SystemNext]_allVars

-----------------------------------------------------------------------------
(* Properties.                                                              *)

(* Every variable of the clients has its type, and a slot waits only for a  *)
(* job that has no result yet and that no other slot waits for.             *)
ClientTypeOK ==
    /\ phase \in [Clients -> {"start", "register", "run", "finished", "gone"}]
    /\ cid \in [Clients -> Nat \cup {None}]
    /\ todo \in [Clients -> SUBSET Jids]
    /\ job \in [Conns -> Jids \cup {None}]
    /\ link \in [Conns -> {"up", "broken"}]
    /\ inbox \in [Conns -> Replies \cup {None}]
    /\ results \in [Clients -> [Jids -> Conns \cup {None}]]
    /\ own \in [Clients -> Units \cup {None}]
    /\ faults \in 0 .. MaxFaults
    /\ \A c \in Conns : job[c] # None =>
          job[c] \in todo[c[1]] /\ \A d \in StreamsOf(c[1]) \ {c} : job[d] # job[c]

(* As long as a client runs, the ID it was told names the command it has    *)
(* registered, whatever other clients register, delete, or leave behind by  *)
(* a crash.                                                                 *)
IdNamesOwnCommand == \A k \in Clients : phase[k] = "run" => LookUp(cid[k]) = own[k]

(* The result a client stores for a job is that of an input it has sent     *)
(* itself. There is one exception: an input of a client that is gone, read  *)
(* by the server after the command was deleted and its ID given to this     *)
(* client.                                                                  *)
ForeignResultsAreStale ==
    \A k \in Clients, j \in Jids :
        LET from == results[k][j] IN
        from # None /\ from[1] # k =>
            /\ phase[from[1]] \in {"finished", "gone"}
            /\ cid[from[1]] = cid[k]

(* When the del of a client that has finished is answered, its command is   *)
(* gone, unless another client has been given the same unit since: crashes  *)
(* and lost streams of others do not leave it behind.                       *)
FinishedClientsLeaveNothing ==
    \A k \in Clients :
        (phase[k] = "finished" /\ pc[Control(k)] = "idle" /\ own[k] \in Registered) =>
            \E other \in Clients \ {k} : own[other] = own[k]

=============================================================================
