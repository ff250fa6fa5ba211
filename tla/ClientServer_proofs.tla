------------------------- MODULE ClientServer_proofs -------------------------
(***************************************************************************)
(* Clients and the server together, for every number of clients,           *)
(* connections, commands and faults: the server keeps its invariant, the   *)
(* ID a client was told names its own command, a client that finishes      *)
(* leaves nothing behind, and a result of another client is stale.         *)
(***************************************************************************)
EXTENDS ClientServer, JobServer_proofs

-----------------------------------------------------------------------------
(* The inductive invariant, by parts.                                       *)

Learned(k) == phase[k] \in {"run", "finished", "gone"}

SlotsOnly == \A k \in Clients : job[Control(k)] = None

IdleInv == \A c \in Conns : pc[c] = "idle" <=> req[c] = None

(* What is under way on a connection, and who has sent it.                  *)
SentInv ==
    \A c \in Conns :
        /\ req[c] \in Inputs =>
              c # Control(c[1]) /\ Learned(c[1]) /\ req[c].cid = cid[c[1]]
        /\ req[c] \in Stops =>
              c = Control(c[1]) /\ phase[c[1]] = "finished" /\ req[c].cid = cid[c[1]]
        /\ req[c] \in Plain =>
              /\ req[c] = [op |-> "com"] /\ c = Control(c[1])
              /\ phase[c[1]] \in {"register", "gone"}
        /\ pc[c] = "register" => req[c] = [op |-> "com"]
        /\ pc[c] # "list"

(* How a client comes to its ID: the request and its reply.                 *)
StartInv ==
    \A k \in Clients :
        LET c == Control(k) IN
        /\ phase[k] = "start" => req[c] = None /\ own[k] = None
        /\ phase[k] = "register" => link[c] = "up" /\ (req[c] = None <=> inbox[c] # None)
        /\ inbox[c] # None =>
              phase[k] = "register" /\ inbox[c].kind = "id" /\ inbox[c].cid \in Cids
        /\ pc[c] = "register" => unit[c] = own[k]
        /\ pc[c] = "queued" /\ req[c] = [op |-> "com"] => own[k] = None
        /\ phase[k] \in {"run", "finished"} => cid[k] \in Cids

(* From the reply to the end of its del a client holds a command, under the *)
(* ID it was told or is about to read.                                      *)
Holds(k) ==
    \/ phase[k] = "register" /\ inbox[Control(k)] # None
    \/ phase[k] = "run"
    \/ phase[k] = "finished" /\ req[Control(k)] # None

Id(k) == IF phase[k] = "register" THEN inbox[Control(k)].cid ELSE cid[k]

(* The table as clients see it.                                             *)
Table == [i \in Nat |-> LookUp(i)]

HoldsInv ==
    /\ \A k \in Clients : Holds(k) =>
          Id(k) \in Cids /\ own[k] \in Units /\ Table[Id(k)] = own[k]
    /\ \A k, l \in Clients : Holds(k) /\ Holds(l) /\ Id(k) = Id(l) => k = l

(* A command in the table is that of a client which holds it or is gone.    *)
OwnersInv ==
    \A u \in Registered : \E k \in Clients : own[k] = u /\ (Holds(k) \/ phase[k] = "gone")

(* Work in a unit was sent with the ID of that unit.                        *)
Sender(c, u) == Learned(c[1]) /\ cid[c[1]] \in Cids /\ Table[cid[c[1]]] = u

SendersInv ==
    \A u \in Units :
        /\ \A i \in DOMAIN inputs[u] : Sender(inputs[u][i].from, u)
        /\ \A s \in Slots : running[u][s] # None => Sender(running[u][s].from, u)
        /\ \A j \in Jids : outputs[u][j] # None => Sender(outputs[u][j].from, u)

OwnOrStale(k, c) ==
    \/ c[1] = k
    \/ phase[c[1]] \in {"finished", "gone"} /\ cid[c[1]] = cid[k]

ResultsInv ==
    /\ \A c \in Conns : inbox[c] # None /\ inbox[c].kind = "output" =>
          Learned(c[1]) /\ OwnOrStale(c[1], inbox[c].from)
    /\ \A k \in Clients, j \in Jids : results[k][j] # None =>
          Learned(k) /\ OwnOrStale(k, results[k][j])

ClientInv ==
    /\ ClientTypeOK /\ SlotsOnly /\ IdleInv /\ SentInv /\ StartInv
    /\ HoldsInv /\ OwnersInv /\ SendersInv /\ ResultsInv

SystemInv == Inv /\ ClientInv

-----------------------------------------------------------------------------
(* Connections and requests.                                                *)

LEMMA Connections ==
    /\ \A k \in Clients : Control(k) \in Conns /\ Control(k)[1] = k
    /\ \A c \in Conns : c[1] \in Clients /\ c \in StreamsOf(c[1])
    /\ \A k, l : Control(k) = Control(l) => k = l
  BY ClientsAssumption DEF Control, StreamsOf

LEMMA RequestKinds ==
    /\ None \notin Requests
    /\ \A r \in Inputs : r \notin Stops /\ r \notin Plain /\ r \in Requests /\ r.cid \in Nat
    /\ \A r \in Stops : r \notin Inputs /\ r \notin Plain /\ r \in Requests /\ r.cid \in Nat
    /\ \A r \in Plain : r \notin Inputs /\ r \notin Stops /\ r \in Requests
    /\ [op |-> "com"] \in Plain
<1>1. None \notin Requests /\ Cids \subseteq Nat
  BY ServerAssumption
<1>. QED  BY <1>1 DEF Requests, Inputs, Stops, Plain

(* What a handler changes of requests and replies: it returns, or it goes   *)
(* on with its request.                                                     *)
LEMMA HandlerFrame ==
    ASSUME Inv, NEW c \in Conns, Handler(c)
    PROVE  /\ pc[c] # "idle"
           /\ \A d \in Conns \ {c} :
                 pc'[d] = pc[d] /\ req'[d] = req[d] /\ unit'[d] = unit[d]
           /\ \/ pc'[c] = "idle" /\ req'[c] = None /\ sent'.to = c
              \/ pc'[c] # "idle" /\ req'[c] = req[c] /\ sent' = None
<1>1. /\ pc \in [Conns -> {"idle", "queued", "register", "submit", "await",
                           "stop", "park", "list"}]
      /\ req \in [Conns -> Requests \cup {None}]
      /\ unit \in [Conns -> Units \cup {None}]
  BY DEF Inv, Typed, HandlersTyped
<1>2. CASE SpawnSlots(c) \/ TakeInput(c) \/ TakeStop(c) \/ TakeList(c)
              \/ SubmitInput(c) \/ SignalKill(c)
  BY <1>1, <1>2 DEF SpawnSlots, TakeInput, TakeStop, TakeList, SubmitInput, SignalKill
<1>3. ASSUME NEW r, Return(c, r), r.to = c, pc[c] # "idle"
      PROVE  /\ \A d \in Conns \ {c} :
                    pc'[d] = pc[d] /\ req'[d] = req[d] /\ unit'[d] = unit[d]
             /\ pc'[c] = "idle" /\ req'[c] = None /\ sent'.to = c
  BY <1>1, <1>3 DEF Return
<1>4. CASE RegisterCommand(c) \/ RejectInput(c) \/ AnswerInput(c) \/ StopNothing(c)
               \/ RemoveCommand(c) \/ ReportCores(c) \/ ListCommands(c)
  BY <1>3, <1>4 DEF RegisterCommand, RejectInput, AnswerInput, StopNothing, RemoveCommand,
                    ReportCores, ListCommands
<1>. QED  BY <1>2, <1>3, <1>4 DEF Handler

LEMMA SlotFrame ==
    ASSUME NEW u \in Units, NEW s \in Slots, Slot(u, s)
    PROVE  UNCHANGED <<tableVars, handlerVars>> /\ sent' = None
  BY DEF Slot, SlotContinue, SlotPark, SlotIdle, SlotTake, SlotFinish

-----------------------------------------------------------------------------
(* The initial states.                                                      *)

LEMMA SystemInitInv == ASSUME SystemInit PROVE SystemInv
<1>1. Inv
  BY InvInit DEF SystemInit
<1>2. ClientTypeOK
  BY ClientsAssumption DEF SystemInit, ClientTypeOK
<1>3. SlotsOnly /\ IdleInv
  BY Connections DEF SystemInit, Init, SlotsOnly, IdleInv
<1>4. SentInv
  BY RequestKinds, ServerAssumption DEF SystemInit, Init, SentInv, Requests
<1>5. StartInv
  BY Connections DEF SystemInit, Init, StartInv
<1>6. HoldsInv
  <2>1. \A k \in Clients : ~Holds(k)
    BY DEF SystemInit, Holds
  <2>. QED  BY <2>1 DEF HoldsInv
<1>7. OwnersInv
  BY DEF SystemInit, Init, OwnersInv, Registered
<1>8. SendersInv
  BY DEF SystemInit, Init, SendersInv
<1>9. ResultsInv
  BY DEF SystemInit, ResultsInv
<1>. QED  BY <1>1, <1>2, <1>3, <1>4, <1>5, <1>6, <1>7, <1>8, <1>9 DEF SystemInv, ClientInv

-----------------------------------------------------------------------------
(* The server keeps its invariant, whatever its clients do.                 *)

LEMMA ArriveStep == ASSUME Inv, NEW c \in Conns, NEW r \in Requests, Arrive(c, r) PROVE Inv'
<1>1. /\ pc[c] \in Free /\ pc' = [pc EXCEPT ![c] = "queued"]
      /\ req' = [req EXCEPT ![c] = r] /\ unit' = unit /\ sent' = None
      /\ UNCHANGED <<tableVars, workerOf, unitVars>>
  BY DEF Arrive, Free
<1>. QED  BY <1>1, QuietStep DEF Free

(* Requests that the server has not read may be lost.                       *)
LEMMA LoseStep ==
    ASSUME Inv, NEW C, Lose(C)
    PROVE  /\ Inv'
           /\ \E lost \in SUBSET {c \in C : pc[c] = "queued"} :
                 /\ pc' = [c \in Conns |-> IF c \in lost THEN "idle" ELSE pc[c]]
                 /\ req' = [c \in Conns |-> IF c \in lost THEN None ELSE req[c]]
           /\ sent' = None /\ UNCHANGED <<tableVars, workerOf, unit, unitVars>>
<1>. USE DEF Inv
<1>1. PICK lost \in SUBSET {c \in C : pc[c] = "queued"} :
          /\ pc' = [c \in Conns |-> IF c \in lost THEN "idle" ELSE pc[c]]
          /\ req' = [c \in Conns |-> IF c \in lost THEN None ELSE req[c]]
  BY DEF Lose
<1>2. sent' = None /\ UNCHANGED <<tableVars, workerOf, unit, unitVars>>
  BY DEF Lose
<1>3. \A c \in Conns : c \in lost => pc[c] = "queued" /\ pc'[c] = "idle" /\ req'[c] = None
  BY <1>1
<1>4. \A c \in Conns : c \notin lost => pc'[c] = pc[c] /\ req'[c] = req[c]
  BY <1>1
<1>5. Typed'
  <2>1. pc' \in [Conns -> {"idle", "queued", "register", "submit", "await",
                           "stop", "park", "list"}]
    BY <1>1 DEF Typed, HandlersTyped
  <2>2. req' \in [Conns -> Requests \cup {None}]
    BY <1>1 DEF Typed, HandlersTyped
  <2>. QED  BY <1>2, <2>1, <2>2
            DEF Typed, TableTyped, HandlersTyped, UnitsTyped, tableVars, unitVars
<1>6. commands' = commands /\ readers' = readers /\ writer' = writer /\ unit' = unit
  BY <1>2 DEF tableVars
<1>7. inputs' = inputs /\ outputs' = outputs /\ kill' = kill /\ parked' = parked
      /\ slotPc' = slotPc /\ running' = running
  BY <1>2 DEF unitVars
<1>8. LockInv'
  BY <1>3, <1>4, <1>6 DEF LockInv
<1>9. RequestInv'
  BY <1>3, <1>4 DEF RequestInv
<1>10. HandlerUnitInv'
  BY <1>3, <1>4, <1>6 DEF HandlerUnitInv, Registered
<1>11. HeldCommandStays'
  BY <1>3, <1>4, <1>6 DEF HeldCommandStays, LookUp
<1>12. TableInv'
  BY <1>6 DEF TableInv
<1>13. ThreadInv' /\ ParkedInv' /\ RunInv'
  <2>1. \A u \in Units : Live(u)' = Live(u) /\ Off(u)' = Off(u)
    BY <1>6, <1>7 DEF Live, Registered, Off
  <2>2. \A u \in Units :
            (\E d \in Conns : pc[d] = "park" /\ unit[d] = u)
                => \E d \in Conns : pc'[d] = "park" /\ unit'[d] = u
    BY <1>3, <1>4, <1>6
  <2>. QED  BY <1>7, <2>1, <2>2 DEF ThreadInv, ParkedInv, RunInv
<1>14. NoWorkWithoutWaiter'
  <2>1. ASSUME NEW u \in Units, NEW j \in Jids
        PROVE  TokenCount(u, j)' = TokenCount(u, j) /\ Waiting(u, j)' = Waiting(u, j)
    <3>1. TokenCount(u, j)' = TokenCount(u, j)
      BY <1>7 DEF TokenCount, Queued, Busy, Ready
    <3>2. Waiting(u, j)' = Waiting(u, j)
      BY <1>3, <1>4, <1>6 DEF Waiting
    <3>. QED  BY <3>1, <3>2
  <2>. QED  BY <2>1 DEF NoWorkWithoutWaiter
<1>. QED  BY <1>1, <1>2, <1>5, <1>8, <1>9, <1>10, <1>11, <1>12, <1>13, <1>14

-----------------------------------------------------------------------------
(* What a step of the server changes for the clients.                       *)

LEMMA ServerFrame ==
    ASSUME SystemInv, ServerStep
    PROVE  /\ Inv'
           /\ UNCHANGED <<phase, cid, todo, job, link, results, faults>>
           /\ \A d \in Conns :
                 \/ Handler(d)
                 \/ /\ pc'[d] = pc[d] /\ req'[d] = req[d] /\ unit'[d] = unit[d]
                    /\ inbox'[d] = inbox[d]
           /\ \A d \in Conns :
                 \/ inbox'[d] = inbox[d]
                 \/ /\ Handler(d) /\ Alive(d[1]) /\ link[d] = "up"
                    /\ sent' # None /\ sent'.to = d /\ inbox'[d] = sent'
           /\ \A k \in Clients : own'[k] = own[k] \/ SpawnSlots(Control(k))
<1>. USE DEF SystemInv, ClientInv
<1>1. UNCHANGED <<phase, cid, todo, job, link, results, faults>>
  BY DEF ServerStep
<1>2. Next
  BY DEF ServerStep, Next
<1>3. Inv' /\ sent' \in Replies \cup {None}
  BY <1>2, InvNext DEF Inv, Typed
<1>4. \A r \in Replies : r.to \in Conns
  BY DEF Replies
<1>5. inbox \in [Conns -> Replies \cup {None}]
  BY DEF ClientTypeOK
<1>6. \A d \in Conns :
         \/ inbox'[d] = inbox[d]
         \/ /\ sent' # None /\ sent'.to = d /\ inbox'[d] = sent'
            /\ Alive(d[1]) /\ link[d] = "up"
  <2>1. CASE sent' # None /\ link[sent'.to] = "up" /\ Alive(sent'.to[1])
    <3>1. inbox' = [inbox EXCEPT ![sent'.to] = sent'] /\ sent'.to \in Conns
      BY <1>3, <1>4, <2>1 DEF ServerStep
    <3>. QED  BY <1>5, <2>1, <3>1
  <2>2. CASE ~(sent' # None /\ link[sent'.to] = "up" /\ Alive(sent'.to[1]))
    BY <2>2 DEF ServerStep
  <2>. QED  BY <2>1, <2>2
<1>7. CASE \E c \in Conns : Handler(c)
  <2>1. PICK c \in Conns : Handler(c)
    BY <1>7
  <2>2. /\ \A d \in Conns \ {c} : pc'[d] = pc[d] /\ req'[d] = req[d] /\ unit'[d] = unit[d]
        /\ sent' = None \/ sent'.to = c
    BY <2>1, HandlerFrame
  <2>3. \A k \in Clients : own'[k] = own[k] \/ SpawnSlots(Control(k))
    <3>. SUFFICES ASSUME NEW k \in Clients, ~SpawnSlots(Control(k)) PROVE own'[k] = own[k]
      OBVIOUS
    <3>1. own'[k] = IF pc'[Control(k)] = "register" THEN unit'[Control(k)] ELSE own[k]
      BY DEF ServerStep
    <3>2. CASE Control(k) # c
      BY <2>2, <3>1, <3>2, Connections DEF StartInv
    <3>3. CASE Control(k) = c
      <4>1. pc'[c] # "register"
        BY <2>1, <3>3
           DEF Handler, RegisterCommand, TakeInput, SubmitInput, RejectInput, AnswerInput,
               TakeStop, SignalKill, StopNothing, RemoveCommand, ReportCores, TakeList,
               ListCommands, Return, Inv, Typed, HandlersTyped
      <4>. QED  BY <3>1, <3>3, <4>1
    <3>. QED  BY <3>2, <3>3
  <2>. QED  BY <1>1, <1>3, <1>6, <2>1, <2>2, <2>3
<1>8. CASE \E u \in Units, s \in Slots : Slot(u, s)
  <2>1. UNCHANGED <<tableVars, handlerVars>> /\ sent' = None
    BY <1>8, SlotFrame
  <2>2. pc' = pc /\ req' = req /\ unit' = unit
    BY <2>1 DEF handlerVars
  <2>3. \A k \in Clients : own'[k] = own[k]
    BY <2>2, Connections DEF ServerStep, StartInv
  <2>. QED  BY <1>1, <1>3, <1>6, <2>1, <2>2, <2>3
<1>. QED  BY <1>7, <1>8 DEF ServerStep

(* The table changes only when a command is registered or removed.          *)
LEMMA TableFrame ==
    ASSUME Inv, ServerStep
    PROVE  \/ commands' = commands
           \/ \E c \in Conns : RegisterCommand(c) \/ RemoveCommand(c)
<1>1. ASSUME NEW c \in Conns, Handler(c), ~RegisterCommand(c), ~RemoveCommand(c)
      PROVE  commands' = commands
  BY <1>1 DEF Handler, SpawnSlots, TakeInput, SubmitInput, RejectInput, AnswerInput, TakeStop,
              SignalKill, StopNothing, ReportCores, TakeList, ListCommands, tableVars
<1>2. ASSUME NEW u \in Units, NEW s \in Slots, Slot(u, s) PROVE commands' = commands
  BY <1>2, SlotFrame DEF tableVars
<1>. QED  BY <1>1, <1>2 DEF ServerStep

-----------------------------------------------------------------------------
(* The table.                                                               *)

LEMMA TableEntries ==
    ASSUME Inv
    PROVE  /\ \A u : u \in Registered <=> u # None /\ \E i \in Nat : Table[i] = u
           /\ \A i, k \in Nat : Table[i] = Table[k] /\ Table[i] # None => i = k
           /\ \A i \in Nat : Table[i] = LookUp(i)
<1>1. commands \in Seq(Units \cup {None}) /\ TableInv
  BY DEF Inv, Typed, TableTyped
<1>2. DOMAIN commands = 1 .. Len(commands) /\ Len(commands) \in Nat
  BY <1>1, LenProperties
<1>3. \A i \in Nat : Table[i] = IF i + 1 \in DOMAIN commands THEN commands[i + 1] ELSE None
  BY <1>2 DEF Table, LookUp
<1>4. \A i \in DOMAIN commands : i - 1 \in Nat /\ (i - 1) + 1 = i
  BY <1>2
<1>5. \A u : u \in Registered <=> u # None /\ \E i \in Nat : Table[i] = u
  <2>1. ASSUME NEW u \in Registered PROVE u # None /\ \E i \in Nat : Table[i] = u
    <3>1. PICK i \in DOMAIN commands : commands[i] = u
      BY <2>1 DEF Registered
    <3>2. Table[i - 1] = u
      BY <1>3, <1>4, <3>1
    <3>. QED  BY <1>4, <2>1, <3>2 DEF Registered
  <2>2. ASSUME NEW i \in Nat, Table[i] # None PROVE Table[i] \in Registered
    BY <1>3, <2>2 DEF Registered
  <2>. QED  BY <2>1, <2>2
<1>6. \A i, k \in Nat : Table[i] = Table[k] /\ Table[i] # None => i = k
  <2>. SUFFICES ASSUME NEW i \in Nat, NEW k \in Nat, Table[i] = Table[k], Table[i] # None
                PROVE  i = k
    OBVIOUS
  <2>1. i + 1 \in DOMAIN commands /\ k + 1 \in DOMAIN commands
    BY <1>3
  <2>2. commands[i + 1] = commands[k + 1] /\ commands[i + 1] # None
    BY <1>3, <2>1
  <2>3. i + 1 = k + 1
    BY <1>1, <2>1, <2>2, Zenon DEF TableInv
  <2>. QED  BY <2>3
<1>. QED  BY <1>5, <1>6 DEF Table

(* A registered command gets a vacant ID, which is one of Cids: the entries *)
(* before it name different units, and the new unit is none of them.        *)
LEMMA RegisterEffect ==
    ASSUME Inv, NEW c \in Conns, RegisterCommand(c)
    PROVE  /\ unit[c] \in Units \ Registered
           /\ \E n \in Cids :
                 /\ Table[n] = None /\ Table' = [Table EXCEPT ![n] = unit[c]]
                 /\ sent' = [to |-> c, kind |-> "id", cid |-> n]
<1>. USE DEF Inv
<1>1. PICK k \in 1 .. Len(commands) + 1 :
          /\ FirstVacant(k) /\ commands' = Stored(k, unit[c])
          /\ sent' = [to |-> c, kind |-> "id", cid |-> k - 1]
  BY DEF RegisterCommand, Return
<1>2. unit[c] \in Units \ Registered
  BY DEF RegisterCommand, HandlerUnitInv
<1>3. /\ TableTyped /\ Len(commands) \in Nat /\ DOMAIN commands = 1 .. Len(commands)
      /\ commands \in Seq(Units \cup {None})
  BY LenProperties DEF Typed, TableTyped
<1>4. /\ commands' \in Seq(Units \cup {None})
      /\ commands'[k] = unit[c]
      /\ DOMAIN commands' = DOMAIN commands \cup {k}
      /\ \A i \in DOMAIN commands \ {k} : commands'[i] = commands[i]
  <2>1. /\ Stored(k, unit[c]) \in Seq(Units \cup {None})
        /\ Stored(k, unit[c])[k] = unit[c]
        /\ DOMAIN Stored(k, unit[c]) = DOMAIN commands \cup {k}
        /\ \A i \in DOMAIN commands \ {k} : Stored(k, unit[c])[i] = commands[i]
    BY <1>2, <1>3, StoredProperties, Zenon
  <2>. QED  BY <1>1, <2>1, Zenon
<1>5. DOMAIN commands' = 1 .. Len(commands') /\ Len(commands') \in Nat
  BY <1>4, LenProperties
<1>6. k - 1 \in Nat
  BY <1>3
<1>7. Table[k - 1] = None
  BY <1>1, <1>3, <1>6 DEF FirstVacant, Table, LookUp
<1>8. Table' = [Table EXCEPT ![k - 1] = unit[c]]
  <2>1. \A i \in Nat : /\ i < Len(commands) <=> i + 1 \in DOMAIN commands
                       /\ i < Len(commands') <=> i + 1 \in DOMAIN commands'
    BY <1>3, <1>5
  <2>2. \A i \in Nat : Table'[i] = IF i + 1 \in DOMAIN commands' THEN commands'[i + 1] ELSE None
    BY <2>1 DEF Table, LookUp
  <2>3. \A i \in Nat : Table[i] = IF i + 1 \in DOMAIN commands THEN commands[i + 1] ELSE None
    BY <2>1 DEF Table, LookUp
  <2>4. \A i \in Nat : i = k - 1 <=> i + 1 = k
    BY <1>3
  <2>5. \A i \in Nat : Table'[i] = IF i = k - 1 THEN unit[c] ELSE Table[i]
    <3>. SUFFICES ASSUME NEW i \in Nat
                  PROVE  Table'[i] = IF i = k - 1 THEN unit[c] ELSE Table[i]
      OBVIOUS
    <3>1. CASE i + 1 = k
      BY <1>4, <2>2, <2>4, <3>1
    <3>2. CASE i + 1 # k
      <4>1. Table'[i] = Table[i]
        BY <1>4, <2>2, <2>3, <3>2
      <4>. QED  BY <2>4, <3>2, <4>1
    <3>. QED  BY <3>1, <3>2
  <2>. QED  BY <2>5 DEF Table
<1>9. k - 1 \in Cids
  <2>. DEFINE f == [i \in 1 .. k - 1 |-> commands[i]]
              S == Units \ {unit[c]}
  <2>1. \A i \in 1 .. k - 1 : i \in DOMAIN commands /\ commands[i] # None
    BY <1>1, <1>3 DEF FirstVacant
  <2>2. \A i \in 1 .. k - 1 : commands[i] \in S
    <3>1. \A i \in DOMAIN commands : commands[i] \in Units \cup {None}
      BY <1>3, ElementOfSeq
    <3>. QED  BY <1>2, <2>1, <3>1 DEF Registered
  <2>3. f \in Injection(1 .. k - 1, S)
    <3>1. f \in [1 .. k - 1 -> S]
      BY <2>2
    <3>2. \A i, l \in 1 .. k - 1 : f[i] = f[l] => i = l
      BY <2>1 DEF TableInv
    <3>. HIDE DEF f, S
    <3>. QED  BY <3>1, <3>2, Fun_IsInj, Zenon
  <2>4. IsFiniteSet(S) /\ Cardinality(S) = Cardinality(Units) - 1
    <3>1. IsFiniteSet(Units) /\ unit[c] \in Units
      BY <1>2, ClientsAssumption
    <3>. QED  BY <3>1, FS_RemoveElement, Zenon
  <2>. HIDE DEF f, S
  <2>5. Cardinality(1 .. k - 1) <= Cardinality(S)
    BY <2>3, <2>4, FS_Injection, Zenon
  <2>6. Cardinality(1 .. k - 1) = k - 1
    <3>1. 1 \in Int /\ k - 1 \in Int
      BY <1>3
    <3>2. Cardinality(1 .. k - 1) = IF 1 > k - 1 THEN 0 ELSE (k - 1) - 1 + 1
      BY <3>1, FS_Interval, Zenon
    <3>. QED  BY <1>6, <3>2
  <2>7. Cardinality(Units) \in Nat
    BY ClientsAssumption, FS_CardinalityType, Zenon
  <2>8. k - 1 \in 0 .. Cardinality(Units) - 1
    BY <1>6, <2>4, <2>5, <2>6, <2>7
  <2>. QED  BY <2>8, ClientsAssumption
<1>. QED  BY <1>1, <1>2, <1>7, <1>8, <1>9

LEMMA RemoveEffect ==
    ASSUME Inv, NEW c \in Conns, RemoveCommand(c)
    PROVE  /\ req[c] \in Stops /\ unit[c] \in Units
           /\ inputs[unit[c]] = <<>> /\ \A s \in Slots : running[unit[c]][s] = None
           /\ \A j \in Jids : outputs[unit[c]][j] = None
           /\ Table[req[c].cid] = unit[c]
           /\ Table' = [Table EXCEPT ![req[c].cid] = None]
<1>. USE DEF Inv
<1>. DEFINE n == req[c].cid
<1>1. /\ pc[c] = "park" /\ commands' = [commands EXCEPT ![n + 1] = None]
  BY DEF RemoveCommand
<1>2. req[c] \in Stops /\ n \in Nat
  BY <1>1, RequestKinds DEF RequestInv
<1>3. unit[c] \in Units /\ unit[c] # None /\ LookUp(n) = unit[c]
  BY <1>1, ServerAssumption DEF HandlerUnitInv, HeldCommandStays
<1>4. Len(commands) \in Nat /\ DOMAIN commands = 1 .. Len(commands)
  BY LenProperties DEF Typed, TableTyped
<1>5. n + 1 \in DOMAIN commands
  BY <1>2, <1>3, <1>4 DEF LookUp
<1>6. /\ inputs[unit[c]] = <<>> /\ \A s \in Slots : running[unit[c]][s] = None
      /\ \A j \in Jids : outputs[unit[c]][j] = None
  <2>1. \A d \in Conns : pc[d] # "await"
    BY <1>1, ServerAssumption DEF LockInv
  <2>. QED  BY <1>3, <2>1, NoWaiterNoWork DEF Ready
<1>7. Table[n] = unit[c]
  BY <1>2, <1>3 DEF Table
<1>8. Table' = [Table EXCEPT ![n] = None]
  <2>1. /\ DOMAIN commands' = DOMAIN commands /\ commands'[n + 1] = None
        /\ \A i \in DOMAIN commands \ {n + 1} : commands'[i] = commands[i]
    BY <1>1, <1>5
  <2>2. Len(commands') = Len(commands)
    BY <1>2, <1>5, ClearedProperties, <1>1
  <2>3. \A i \in Nat : i < Len(commands) <=> i + 1 \in DOMAIN commands
    BY <1>4
  <2>4. \A i \in Nat : Table'[i] = IF i + 1 \in DOMAIN commands THEN commands'[i + 1] ELSE None
    BY <2>2, <2>3 DEF Table, LookUp
  <2>5. \A i \in Nat : Table[i] = IF i + 1 \in DOMAIN commands THEN commands[i + 1] ELSE None
    BY <2>3 DEF Table, LookUp
  <2>6. \A i \in Nat : Table'[i] = IF i = n THEN None ELSE Table[i]
    BY <1>2, <2>1, <2>4, <2>5
  <2>. QED  BY <2>6 DEF Table
<1>. QED  BY <1>2, <1>3, <1>6, <1>7, <1>8

-----------------------------------------------------------------------------
(* The invariant under the steps of the server, part by part.               *)

LEMMA ServerKeepsTypes ==
    ASSUME SystemInv, ServerStep
    PROVE  ClientTypeOK' /\ SlotsOnly' /\ IdleInv' /\ SentInv'
<1>. USE DEF SystemInv, ClientInv
<1>1. /\ Inv'
      /\ UNCHANGED <<phase, cid, todo, job, link, results, faults>>
      /\ \A d \in Conns :
            \/ Handler(d)
            \/ pc'[d] = pc[d] /\ req'[d] = req[d] /\ unit'[d] = unit[d] /\ inbox'[d] = inbox[d]
  BY ServerFrame
<1>2. sent' \in Replies \cup {None} /\ unit' \in [Conns -> Units \cup {None}]
  BY <1>1 DEF Inv, Typed, HandlersTyped
<1>3. inbox' \in [Conns -> Replies \cup {None}]
  <2>1. \/ inbox' = inbox
        \/ sent' # None /\ inbox' = [inbox EXCEPT ![sent'.to] = sent']
    BY DEF ServerStep
  <2>. QED  BY <1>2, <2>1 DEF ClientTypeOK
<1>4. own' \in [Clients -> Units \cup {None}]
  <2>1. \A k \in Clients : (IF pc'[Control(k)] = "register" THEN unit'[Control(k)] ELSE own[k])
                               \in Units \cup {None}
    BY <1>2, Connections DEF ClientTypeOK
  <2>. QED  BY <2>1 DEF ServerStep
<1>5. ClientTypeOK'
  BY <1>1, <1>3, <1>4 DEF ClientTypeOK
<1>6. SlotsOnly'
  BY <1>1 DEF SlotsOnly
<1>7. \A d \in Conns :
         \/ pc'[d] = pc[d] /\ req'[d] = req[d]
         \/ pc[d] # "idle" /\ pc'[d] # "idle" /\ req'[d] = req[d]
         \/ pc[d] # "idle" /\ pc'[d] = "idle" /\ req'[d] = None
  BY <1>1, HandlerFrame
<1>8. IdleInv'
  BY <1>7 DEF IdleInv
<1>9. SentInv'
  <2>1. \A d \in Conns :
           /\ pc'[d] # "list"
           /\ pc'[d] = "register" => req'[d] = [op |-> "com"]
    <3>1. ASSUME NEW d \in Conns, Handler(d)
          PROVE  /\ pc'[d] # "list"
                 /\ pc'[d] = "register" => req'[d] = [op |-> "com"]
      <4>0. pc \in [Conns -> {"idle", "queued", "register", "submit", "await",
                              "stop", "park", "list"}]
        BY DEF Inv, Typed, HandlersTyped
      <4>1. req[d] # [op |-> "comms"]
        BY DEF SentInv, Plain
      <4>. QED  BY <3>1, <4>0, <4>1
           DEF Handler, SpawnSlots, RegisterCommand, TakeInput, SubmitInput, RejectInput,
               AnswerInput, TakeStop, SignalKill, StopNothing, RemoveCommand, ReportCores,
               TakeList, ListCommands, Return
    <3>. QED  BY <1>1, <3>1 DEF SentInv
  <2>. QED  BY <1>1, <1>7, <2>1, RequestKinds DEF SentInv, Learned, Requests
<1>. QED  BY <1>5, <1>6, <1>8, <1>9

(* The request on a control connection of a client that reads replies, when *)
(* the handler returns, was its Command request.                            *)
LEMMA ControlReplies ==
    ASSUME SystemInv, NEW k \in Clients, Alive(k), Handler(Control(k)),
           req'[Control(k)] = None
    PROVE  RegisterCommand(Control(k)) /\ phase[k] = "register"
<1>. USE DEF SystemInv, ClientInv
<1>. DEFINE c == Control(k)
<1>1. c \in Conns /\ c[1] = k /\ Handler(c)
  BY Connections
<1>2. req[c] # None /\ req[c] \in Requests /\ req'[c] # req[c]
  BY <1>1, HandlerFrame DEF IdleInv, Inv, Typed, HandlersTyped
<1>3. req[c] = [op |-> "com"] /\ phase[k] = "register"
  BY <1>1, <1>2 DEF SentInv, Requests, Alive
<1>4. req[c] \notin Inputs /\ req[c] \notin Stops
  BY <1>3, RequestKinds
<1>5. pc[c] \notin {"submit", "await", "stop", "park", "list"}
  BY <1>1, <1>4 DEF Inv, RequestInv, SentInv
<1>. HIDE DEF c
<1>6. ~SpawnSlots(c) /\ ~TakeInput(c) /\ ~TakeStop(c) /\ ~TakeList(c) /\ ~SubmitInput(c)
      /\ ~SignalKill(c)
  BY <1>2 DEF SpawnSlots, TakeInput, TakeStop, TakeList, SubmitInput, SignalKill
<1>7. ~RejectInput(c) /\ ~AnswerInput(c) /\ ~StopNothing(c) /\ ~RemoveCommand(c)
      /\ ~ListCommands(c)
  BY <1>5 DEF RejectInput, AnswerInput, StopNothing, RemoveCommand, ListCommands
<1>8. ~ReportCores(c)
  BY <1>3 DEF ReportCores
<1>9. RegisterCommand(c)
  BY <1>1, <1>6, <1>7, <1>8, Zenon DEF Handler
<1>. QED  BY <1>3, <1>9 DEF c

(* The handler of a client that has finished returns: it served its del.    *)
LEMMA FinishedReplies ==
    ASSUME SystemInv, NEW k \in Clients, phase[k] = "finished", Handler(Control(k)),
           req'[Control(k)] = None
    PROVE  StopNothing(Control(k)) \/ RemoveCommand(Control(k))
<1>. USE DEF SystemInv, ClientInv
<1>. DEFINE c == Control(k)
<1>1. c \in Conns /\ c[1] = k /\ Handler(c)
  BY Connections
<1>2. req[c] # None /\ req[c] \in Requests /\ req'[c] # req[c]
  BY <1>1, HandlerFrame DEF IdleInv, Inv, Typed, HandlersTyped
<1>3. req[c] \in Stops
  BY <1>1, <1>2 DEF SentInv, Requests
<1>4. req[c] \notin Inputs /\ req[c] \notin Plain
  BY <1>3, RequestKinds
<1>5. pc[c] \notin {"submit", "await", "register", "list"}
  BY <1>1, <1>4, RequestKinds DEF Inv, RequestInv, SentInv
<1>. HIDE DEF c
<1>6. ~SpawnSlots(c) /\ ~TakeInput(c) /\ ~TakeStop(c) /\ ~TakeList(c) /\ ~SubmitInput(c)
      /\ ~SignalKill(c)
  BY <1>2 DEF SpawnSlots, TakeInput, TakeStop, TakeList, SubmitInput, SignalKill
<1>7. ~RejectInput(c) /\ ~AnswerInput(c) /\ ~RegisterCommand(c) /\ ~ListCommands(c)
  BY <1>5 DEF RejectInput, AnswerInput, RegisterCommand, ListCommands
<1>8. ~ReportCores(c)
  BY <1>4 DEF ReportCores, Plain
<1>9. StopNothing(c) \/ RemoveCommand(c)
  BY <1>1, <1>6, <1>7, <1>8, Zenon DEF Handler
<1>. QED  BY <1>9 DEF c

(* What arrives on the control connection of a client is its ID.            *)
LEMMA IdsArrive ==
    ASSUME SystemInv, ServerStep, NEW k \in Clients
    PROVE  /\ \/ inbox'[Control(k)] = inbox[Control(k)]
              \/ RegisterCommand(Control(k)) /\ phase[k] = "register"
           /\ RegisterCommand(Control(k)) /\ phase[k] = "register" =>
                 inbox'[Control(k)] = sent'
<1>. USE DEF SystemInv, ClientInv
<1>. DEFINE c == Control(k)
<1>1. c \in Conns /\ c[1] = k
  BY Connections
<1>2. ASSUME inbox'[c] # inbox[c] PROVE RegisterCommand(c) /\ phase[k] = "register"
  <2>1. Handler(c) /\ Alive(k) /\ sent' # None
    BY <1>1, <1>2, ServerFrame
  <2>2. req'[c] = None
    BY <1>1, <2>1, HandlerFrame
  <2>. QED  BY <2>1, <2>2, ControlReplies
<1>3. ASSUME RegisterCommand(c), phase[k] = "register" PROVE inbox'[c] = sent'
  <2>1. PICK n \in Cids : sent' = [to |-> c, kind |-> "id", cid |-> n]
    BY <1>1, <1>3, RegisterEffect
  <2>2. sent' \in Replies \cup {None}
    BY ServerFrame DEF Inv, Typed
  <2>3. sent' # None
    BY <2>1, <1>1, ReplyTypes, ServerAssumption
  <2>4. link[c] = "up" /\ Alive(k)
    BY <1>3 DEF StartInv, Alive
  <2>5. sent'.to = c
    BY <2>1
  <2>6. inbox' = [inbox EXCEPT ![c] = sent']
    BY <1>1, <2>3, <2>4, <2>5 DEF ServerStep
  <2>7. inbox \in [Conns -> Replies \cup {None}]
    BY DEF ClientTypeOK
  <2>. QED  BY <1>1, <2>6, <2>7
<1>. QED  BY <1>2, <1>3

(* A client gets a unit once: then its handler has no more to spawn.        *)
LEMMA OwnStays ==
    ASSUME SystemInv, ServerStep, NEW k \in Clients, own[k] # None \/ Holds(k)
    PROVE  own'[k] = own[k]
<1>. USE DEF SystemInv, ClientInv
<1>1. ASSUME SpawnSlots(Control(k)) PROVE FALSE
  <2>1. pc[Control(k)] = "queued" /\ req[Control(k)] = [op |-> "com"]
    BY <1>1 DEF SpawnSlots
  <2>2. own[k] = None
    BY <2>1 DEF StartInv
  <2>3. phase[k] \in {"register", "gone"} /\ req[Control(k)] # None
    BY <2>1, RequestKinds, Connections DEF SentInv
  <2>. QED  BY <2>2, <2>3 DEF Holds, StartInv
<1>. QED  BY <1>1, ServerFrame

LEMMA ServerKeepsStart == ASSUME SystemInv, ServerStep PROVE StartInv'
<1>. USE DEF SystemInv, ClientInv
<1>1. UNCHANGED <<phase, cid, link>>
  BY ServerFrame
<1>2. ASSUME NEW k \in Clients
      PROVE  LET c == Control(k) IN
             /\ phase[k] = "start" => req'[c] = None /\ own'[k] = None
             /\ phase[k] = "register" => (req'[c] = None <=> inbox'[c] # None)
             /\ inbox'[c] # None =>
                   phase[k] = "register" /\ inbox'[c].kind = "id" /\ inbox'[c].cid \in Cids
             /\ pc'[c] = "register" => unit'[c] = own'[k]
             /\ pc'[c] = "queued" /\ req'[c] = [op |-> "com"] => own'[k] = None
  <2>. DEFINE c == Control(k)
  <2>1. c \in Conns /\ c[1] = k
    BY Connections
  <2>2. own'[k] = IF pc'[c] = "register" THEN unit'[c] ELSE own[k]
    BY DEF ServerStep
  <2>3. \/ Handler(c)
        \/ /\ pc'[c] = pc[c] /\ req'[c] = req[c] /\ unit'[c] = unit[c]
           /\ inbox'[c] = inbox[c]
    BY <2>1, ServerFrame
  <2>4. Handler(c) => pc'[c] # "queued" /\ pc[c] # "idle" /\ req[c] # None
    <3>1. Handler(c) => pc'[c] # "queued"
      <4>1. pc \in [Conns -> {"idle", "queued", "register", "submit", "await",
                              "stop", "park", "list"}]
        BY DEF Inv, Typed, HandlersTyped
      <4>. HIDE DEF c
      <4>. QED  BY <2>1, <4>1
                DEF Handler, SpawnSlots, RegisterCommand, TakeInput, SubmitInput, RejectInput,
                    AnswerInput, TakeStop, SignalKill, StopNothing, RemoveCommand, ReportCores,
                    TakeList, ListCommands, Return
    <3>. QED  BY <2>1, <3>1, HandlerFrame DEF IdleInv
  <2>5. \/ inbox'[c] = inbox[c]
        \/ RegisterCommand(c) /\ phase[k] = "register"
    BY IdsArrive
  <2>6. RegisterCommand(c) /\ phase[k] = "register" =>
           /\ inbox'[c] # None /\ inbox'[c].kind = "id" /\ inbox'[c].cid \in Cids
           /\ req'[c] = None
    <3>. SUFFICES ASSUME RegisterCommand(c), phase[k] = "register"
                  PROVE  /\ inbox'[c] # None /\ inbox'[c].kind = "id" /\ inbox'[c].cid \in Cids
                         /\ req'[c] = None
      OBVIOUS
    <3>1. PICK n \in Cids : sent' = [to |-> c, kind |-> "id", cid |-> n]
      BY <2>1, RegisterEffect
    <3>2. sent' # None
      BY <2>1, <3>1, ReplyTypes, ServerAssumption
    <3>3. inbox'[c] = sent'
      BY IdsArrive
    <3>4. req'[c] = None
      BY <2>1 DEF RegisterCommand, Return, Inv, Typed, HandlersTyped
    <3>. QED  BY <3>1, <3>2, <3>3, <3>4
  <2>7. Handler(c) /\ phase[k] = "register" /\ req'[c] = None => RegisterCommand(c)
    BY ControlReplies DEF Alive
  <2>8. /\ phase[k] = "start" => req[c] = None /\ own[k] = None
        /\ phase[k] = "register" => (req[c] = None <=> inbox[c] # None)
        /\ inbox[c] # None =>
              phase[k] = "register" /\ inbox[c].kind = "id" /\ inbox[c].cid \in Cids
        /\ pc[c] = "queued" /\ req[c] = [op |-> "com"] => own[k] = None
    BY DEF StartInv
  <2>9. phase[k] = "start" => pc[c] = "idle"
    BY <2>1, <2>8 DEF IdleInv
  <2>. HIDE DEF c
  <2>10. phase[k] = "start" => req'[c] = None /\ own'[k] = None
    BY <2>2, <2>3, <2>4, <2>8, <2>9
  <2>11. phase[k] = "register" => (req'[c] = None <=> inbox'[c] # None)
    BY <2>3, <2>4, <2>5, <2>6, <2>7, <2>8
  <2>12. inbox'[c] # None =>
             phase[k] = "register" /\ inbox'[c].kind = "id" /\ inbox'[c].cid \in Cids
    BY <2>5, <2>6, <2>8
  <2>13. pc'[c] = "queued" /\ req'[c] = [op |-> "com"] => own'[k] = None
    BY <2>2, <2>3, <2>4, <2>8
  <2>. QED  BY <2>2, <2>10, <2>11, <2>12, <2>13 DEF c
<1>. QED  BY <1>1, <1>2 DEF StartInv

(* Who holds a command after a step of the server.                          *)
LEMMA ServerHolds ==
    ASSUME SystemInv, ServerStep, NEW k \in Clients
    PROVE  /\ Holds(k)' =>
                 \/ Holds(k) /\ Id(k)' = Id(k) /\ ~RemoveCommand(Control(k))
                 \/ RegisterCommand(Control(k)) /\ phase[k] = "register"
                    /\ Id(k)' = sent'.cid
           /\ Holds(k) => Holds(k)' \/ RemoveCommand(Control(k))
           /\ RegisterCommand(Control(k)) /\ phase[k] = "register" => Holds(k)'
<1>. USE DEF SystemInv, ClientInv
<1>. DEFINE c == Control(k)
<1>1. c \in Conns /\ c[1] = k
  BY Connections
<1>2. phase' = phase /\ cid' = cid
  BY ServerFrame
<1>3. Id(k)' = IF phase[k] = "register" THEN inbox'[c].cid ELSE cid[k]
  BY <1>2 DEF Id
<1>4. Holds(k)' <=> \/ phase[k] = "register" /\ inbox'[c] # None
                    \/ phase[k] = "run"
                    \/ phase[k] = "finished" /\ req'[c] # None
  BY <1>2 DEF Holds
<1>5. Holds(k) <=> \/ phase[k] = "register" /\ inbox[c] # None
                   \/ phase[k] = "run"
                   \/ phase[k] = "finished" /\ req[c] # None
  BY DEF Holds
<1>6. /\ inbox'[c] = inbox[c] \/ (RegisterCommand(c) /\ phase[k] = "register")
      /\ RegisterCommand(c) /\ phase[k] = "register" => inbox'[c] = sent'
  BY IdsArrive
<1>7. RemoveCommand(c) => phase[k] = "finished" /\ req'[c] = None
  <2>1. RemoveCommand(c) => req[c] \in Stops
    BY <1>1, RemoveEffect
  <2>2. RemoveCommand(c) => req'[c] = None
    BY <1>1 DEF RemoveCommand, Return, Inv, Typed, HandlersTyped
  <2>. QED  BY <1>1, <2>1, <2>2 DEF SentInv
<1>8. req'[c] = req[c] \/ (Handler(c) /\ req'[c] = None)
  BY <1>1, ServerFrame, HandlerFrame
<1>9. RegisterCommand(c) /\ phase[k] = "register" => sent' # None
  <2>. SUFFICES ASSUME RegisterCommand(c) PROVE sent' # None
    OBVIOUS
  <2>1. PICK n \in Cids : sent' = [to |-> c, kind |-> "id", cid |-> n]
    BY <1>1, RegisterEffect
  <2>. QED  BY <1>1, <2>1, ReplyTypes, ServerAssumption
<1>10. phase[k] = "finished" /\ req[c] # None /\ req'[c] = None => RemoveCommand(c)
  <2>. SUFFICES ASSUME phase[k] = "finished", req[c] # None, req'[c] = None, StopNothing(c)
                PROVE  FALSE
    BY <1>8, FinishedReplies
  <2>1. req[c] \in Requests
    BY <1>1 DEF Inv, Typed, HandlersTyped
  <2>2. req[c] \in Stops /\ req[c].cid = cid[k]
    BY <1>1, <2>1, RequestKinds DEF SentInv, Requests
  <2>3. LookUp(cid[k]) = None
    BY <2>2 DEF StopNothing
  <2>4. Holds(k) /\ Id(k) = cid[k]
    BY DEF Holds, Id
  <2>5. cid[k] \in Nat /\ Table[cid[k]] \in Units
    BY <2>4, ServerAssumption DEF HoldsInv
  <2>6. LookUp(cid[k]) \in Units
    BY <2>5, TableEntries
  <2>. QED  BY <2>3, <2>6, ServerAssumption
<1>11. Id(k) = IF phase[k] = "register" THEN inbox[c].cid ELSE cid[k]
  BY DEF Id
<1>. HIDE DEF c
<1>12. /\ Holds(k)' =>
             \/ Holds(k) /\ Id(k)' = Id(k) /\ ~RemoveCommand(c)
             \/ RegisterCommand(c) /\ phase[k] = "register" /\ Id(k)' = sent'.cid
       /\ Holds(k) => Holds(k)' \/ RemoveCommand(c)
       /\ RegisterCommand(c) /\ phase[k] = "register" => Holds(k)'
  BY <1>3, <1>4, <1>5, <1>6, <1>7, <1>8, <1>9, <1>10, <1>11
<1>. QED  BY <1>12 DEF c

RegisteredInTable == \A u : u \in Registered <=> u # None /\ \E i \in Nat : Table[i] = u

LEMMA RegisteredNext == Inv' => RegisteredInTable'
<1>1. Inv => RegisteredInTable
  BY TableEntries DEF RegisteredInTable
<1>. QED  BY <1>1, PTL

(* The steps of the server by what they do to the table.                    *)
LEMMA TableCases ==
    ASSUME SystemInv, ServerStep
    PROVE  \/ \E c \in Conns, n \in Cids :
                 /\ RegisterCommand(c) /\ unit[c] \in Units
                 /\ Table[n] = None /\ Table' = [Table EXCEPT ![n] = unit[c]]
                 /\ sent' = [to |-> c, kind |-> "id", cid |-> n]
           \/ \E l \in Clients :
                 /\ RemoveCommand(Control(l)) /\ Holds(l) /\ Id(l) = req[Control(l)].cid
                 /\ Table' = [Table EXCEPT ![Id(l)] = None]
                 /\ sent'.to = Control(l) /\ sent'.kind = "deleted"
           \/ /\ Table' = Table
              /\ \A c \in Conns : ~RegisterCommand(c) /\ ~RemoveCommand(c)
<1>. USE DEF SystemInv, ClientInv
<1>1. CASE \E c \in Conns : RegisterCommand(c)
  BY <1>1, RegisterEffect
<1>2. CASE \E c \in Conns : RemoveCommand(c)
  <2>1. PICK c \in Conns : RemoveCommand(c)
    BY <1>2
  <2>2. req[c] \in Stops /\ Table' = [Table EXCEPT ![req[c].cid] = None]
    BY <2>1, RemoveEffect
  <2>3. PICK l \in Clients : c = Control(l) /\ phase[l] = "finished" /\ req[c].cid = cid[l]
    BY <2>2, Connections DEF SentInv
  <2>4. Holds(l) /\ Id(l) = req[Control(l)].cid
    BY <2>2, <2>3, RequestKinds DEF Holds, Id
  <2>5. sent'.to = c /\ sent'.kind = "deleted"
    BY <2>1 DEF RemoveCommand, Return
  <2>. QED  BY <2>1, <2>2, <2>3, <2>4, <2>5
<1>3. CASE \A c \in Conns : ~RegisterCommand(c) /\ ~RemoveCommand(c)
  <2>1. commands' = commands
    BY <1>3, TableFrame
  <2>2. Table' = Table
    BY <2>1 DEF Table, LookUp
  <2>. QED  BY <1>3, <2>2
<1>. QED  BY <1>1, <1>2, <1>3

LEMMA ServerKeepsHolds == ASSUME SystemInv, ServerStep PROVE HoldsInv'
<1>. USE DEF SystemInv, ClientInv
<1>1. HoldsInv /\ Cids \subseteq Nat /\ None \notin Units /\ Table = [i \in Nat |-> Table[i]]
  BY ServerAssumption DEF Table
<1>2. \A k \in Clients : Control(k) \in Conns
  BY Connections
<1>3. \A k \in Clients : Holds(k) => own'[k] = own[k]
  BY OwnStays
<1>4. SUFFICES /\ \A k \in Clients : Holds(k)' =>
                     Id(k)' \in Cids /\ own'[k] \in Units /\ Table'[Id(k)'] = own'[k]
               /\ \A k, l \in Clients : Holds(k)' /\ Holds(l)' /\ Id(k)' = Id(l)' => k = l
  BY DEF HoldsInv
<1>5. \A k \in Clients : Holds(k) =>
         Id(k) \in Cids /\ own[k] \in Units /\ Table[Id(k)] = own[k]
  BY <1>1, Zenon DEF HoldsInv
<1>6. \A k, l \in Clients : Holds(k) /\ Holds(l) /\ Id(k) = Id(l) => k = l
  BY <1>1, Zenon DEF HoldsInv
<1>7. ASSUME NEW c \in Conns, NEW n \in Cids,
             RegisterCommand(c), unit[c] \in Units, Table[n] = None,
             Table' = [Table EXCEPT ![n] = unit[c]],
             sent' = [to |-> c, kind |-> "id", cid |-> n]
      PROVE  /\ \A k \in Clients : Holds(k)' =>
                   Id(k)' \in Cids /\ own'[k] \in Units /\ Table'[Id(k)'] = own'[k]
             /\ \A k, l \in Clients : Holds(k)' /\ Holds(l)' /\ Id(k)' = Id(l)' => k = l
  <2>1. sent'.to = c /\ sent'.cid = n /\ sent'.kind = "id"
    BY <1>7
  <2>2. \A k \in Clients : RegisterCommand(Control(k)) => Control(k) = c
    <3>1. \A k \in Clients : RegisterCommand(Control(k)) => sent'.to = Control(k)
      BY DEF RegisterCommand, Return
    <3>. QED  BY <2>1, <3>1
  <2>3. \A k \in Clients : Holds(k)' =>
           \/ Holds(k) /\ Id(k)' = Id(k)
           \/ Control(k) = c /\ Id(k)' = n
    BY <2>1, <2>2, ServerHolds
  <2>4. \A k \in Clients : Holds(k) => Id(k) # n
    BY <1>1, <1>5, <1>7
  <2>5. \A k \in Clients : Control(k) = c => own'[k] = unit[c]
    <3>. SUFFICES ASSUME NEW k \in Clients, Control(k) = c PROVE own'[k] = unit[c]
      OBVIOUS
    <3>1. pc[c] = "register"
      BY <1>7 DEF RegisterCommand
    <3>2. own[k] = unit[c]
      BY <3>1 DEF StartInv
    <3>. QED  BY <1>1, <1>7, <3>2, OwnStays
  <2>6. Table'[n] = unit[c] /\ \A i \in Cids : i # n => Table'[i] = Table[i]
    BY <1>1, <1>7
  <2>7. \A k, l \in Clients : Control(k) = Control(l) => k = l
    BY Connections
  <2>. QED  BY <1>3, <1>5, <1>6, <1>7, <2>3, <2>4, <2>5, <2>6, <2>7
<1>8. ASSUME NEW m \in Clients, RemoveCommand(Control(m)), Holds(m),
             Table' = [Table EXCEPT ![Id(m)] = None], sent'.kind = "deleted"
      PROVE  /\ \A k \in Clients : Holds(k)' =>
                   Id(k)' \in Cids /\ own'[k] \in Units /\ Table'[Id(k)'] = own'[k]
             /\ \A k, l \in Clients : Holds(k)' /\ Holds(l)' /\ Id(k)' = Id(l)' => k = l
  <2>1. \A k \in Clients : ~RegisterCommand(Control(k))
    <3>1. \A k \in Clients : RegisterCommand(Control(k)) => sent'.kind = "id"
      BY DEF RegisterCommand, Return
    <3>. QED  BY <1>8, <3>1
  <2>2. \A k \in Clients : Holds(k)' => Holds(k) /\ Id(k)' = Id(k) /\ k # m
    BY <1>8, <2>1, ServerHolds
  <2>3. \A i \in Cids : i # Id(m) => Table'[i] = Table[i]
    BY <1>1, <1>8
  <2>. QED  BY <1>3, <1>5, <1>6, <1>8, <2>2, <2>3
<1>9. ASSUME Table' = Table, \A c \in Conns : ~RegisterCommand(c)
      PROVE  /\ \A k \in Clients : Holds(k)' =>
                   Id(k)' \in Cids /\ own'[k] \in Units /\ Table'[Id(k)'] = own'[k]
             /\ \A k, l \in Clients : Holds(k)' /\ Holds(l)' /\ Id(k)' = Id(l)' => k = l
  <2>1. \A k \in Clients : Holds(k)' => Holds(k) /\ Id(k)' = Id(k)
    BY <1>2, <1>9, ServerHolds
  <2>. QED  BY <1>3, <1>5, <1>6, <1>9, <2>1
<1>. QED  BY <1>7, <1>8, <1>9, TableCases

LEMMA ServerKeepsOwners == ASSUME SystemInv, ServerStep PROVE OwnersInv'
<1>. USE DEF SystemInv, ClientInv
<1>1. Inv' /\ phase' = phase
  BY ServerFrame
<1>2. None \notin Units /\ Cids \subseteq Nat /\ Table = [i \in Nat |-> Table[i]]
  BY ServerAssumption DEF Table
<1>3. SUFFICES ASSUME NEW u \in Registered'
               PROVE  \E k \in Clients : own'[k] = u /\ (Holds(k)' \/ phase[k] = "gone")
  BY <1>1 DEF OwnersInv
<1>4. PICK i \in Nat : Table'[i] = u /\ u # None
  BY <1>1, <1>3, RegisteredNext DEF RegisteredInTable
<1>5. Table[i] = u => \E k \in Clients : own[k] = u /\ (Holds(k) \/ phase[k] = "gone")
  BY <1>4, TableEntries DEF OwnersInv
<1>6. \A k \in Clients : own[k] # None => own'[k] = own[k]
  BY OwnStays
<1>7. \A k \in Clients : Holds(k) => Holds(k)' \/ RemoveCommand(Control(k))
  BY ServerHolds
<1>8. ASSUME NEW c \in Conns, NEW n \in Cids,
             RegisterCommand(c), unit[c] \in Units, Table[n] = None,
             Table' = [Table EXCEPT ![n] = unit[c]],
             sent' = [to |-> c, kind |-> "id", cid |-> n]
      PROVE  \E k \in Clients : own'[k] = u /\ (Holds(k)' \/ phase[k] = "gone")
  <2>1. CASE i = n
    <3>1. u = unit[c] /\ pc[c] = "register"
      BY <1>2, <1>4, <1>8, <2>1 DEF RegisterCommand
    <3>2. PICK k \in Clients : c = Control(k) /\ phase[k] \in {"register", "gone"}
      <4>1. req[c] = [op |-> "com"]
        BY <3>1 DEF SentInv
      <4>. QED  BY <4>1, RequestKinds, Connections DEF SentInv
    <3>3. own[k] = unit[c]
      BY <3>1, <3>2 DEF StartInv
    <3>4. phase[k] = "register" => Holds(k)'
      BY <1>8, <3>2, ServerHolds
    <3>. QED  BY <1>2, <1>6, <1>8, <3>1, <3>2, <3>3, <3>4
  <2>2. CASE i # n
    <3>1. Table[i] = u
      BY <1>2, <1>4, <1>8, <2>2
    <3>2. \A k \in Clients : ~RemoveCommand(Control(k))
      <4>1. \A k \in Clients : RemoveCommand(Control(k)) => sent'.kind = "deleted"
        BY DEF RemoveCommand, Return
      <4>2. sent'.kind = "id"
        BY <1>8
      <4>. QED  BY <4>1, <4>2
    <3>. QED  BY <1>4, <1>5, <1>6, <1>7, <3>1, <3>2
  <2>. QED  BY <2>1, <2>2
<1>9. ASSUME NEW m \in Clients, RemoveCommand(Control(m)), Holds(m),
             Table' = [Table EXCEPT ![Id(m)] = None], sent'.to = Control(m)
      PROVE  \E k \in Clients : own'[k] = u /\ (Holds(k)' \/ phase[k] = "gone")
  <2>1. Id(m) \in Nat /\ Table[Id(m)] = own[m] /\ own[m] \in Units
    BY <1>2, <1>9 DEF HoldsInv
  <2>2. i # Id(m) /\ Table[i] = u
    BY <1>2, <1>4, <1>9, <2>1
  <2>3. own[m] # u
    BY <1>4, <2>1, <2>2, TableEntries
  <2>4. \A k \in Clients : RemoveCommand(Control(k)) => k = m
    <3>1. \A k \in Clients : RemoveCommand(Control(k)) => sent'.to = Control(k)
      BY DEF RemoveCommand, Return
    <3>. QED  BY <1>9, <3>1, Connections
  <2>5. PICK k \in Clients : own[k] = u /\ (Holds(k) \/ phase[k] = "gone")
    BY <1>5, <2>2
  <2>. QED  BY <1>4, <1>6, <1>7, <2>3, <2>4, <2>5
<1>10. ASSUME Table' = Table, \A c \in Conns : ~RemoveCommand(c)
       PROVE  \E k \in Clients : own'[k] = u /\ (Holds(k)' \/ phase[k] = "gone")
  BY <1>4, <1>5, <1>6, <1>7, <1>10, Connections
<1>. QED  BY <1>8, <1>9, <1>10, TableCases

(* Tokens move, and a new one is that of the client which has sent the      *)
(* request.                                                                 *)
LEMMA TokensAreSent ==
    ASSUME SystemInv, ServerStep, NEW u \in Units
    PROVE  /\ \A i \in DOMAIN inputs'[u] : Sender(inputs'[u][i].from, u)
           /\ \A s \in Slots : running'[u][s] # None => Sender(running'[u][s].from, u)
           /\ \A j \in Jids : outputs'[u][j] # None => Sender(outputs'[u][j].from, u)
<1>. USE DEF SystemInv, ClientInv
<1>1. /\ \A i \in DOMAIN inputs[u] : Sender(inputs[u][i].from, u)
      /\ \A s \in Slots : running[u][s] # None => Sender(running[u][s].from, u)
      /\ \A j \in Jids : outputs[u][j] # None => Sender(outputs[u][j].from, u)
  BY DEF SendersInv
<1>2. /\ inputs \in [Units -> Seq(Tasks)]
      /\ outputs \in [Units -> [Jids -> Results \cup {None}]]
      /\ running \in [Units -> [Slots -> Tasks \cup {None}]]
  BY DEF Inv, Typed, UnitsTyped
<1>3. CASE inputs' = inputs /\ running' = running /\ outputs' = outputs
  BY <1>1, <1>3
<1>4. ASSUME NEW c \in Conns, SpawnSlots(c)
      PROVE  /\ \A i \in DOMAIN inputs'[u] : Sender(inputs'[u][i].from, u)
             /\ \A s \in Slots : running'[u][s] # None => Sender(running'[u][s].from, u)
             /\ \A j \in Jids : outputs'[u][j] # None => Sender(outputs'[u][j].from, u)
  <2>1. PICK v \in Units : /\ inputs' = [inputs EXCEPT ![v] = <<>>]
                           /\ outputs' = [outputs EXCEPT ![v] = [j \in Jids |-> None]]
    BY <1>4 DEF SpawnSlots
  <2>2. running' = running
    BY <1>4 DEF SpawnSlots
  <2>. QED  BY <1>1, <1>2, <2>1, <2>2
<1>5. ASSUME NEW c \in Conns, SubmitInput(c)
      PROVE  /\ \A i \in DOMAIN inputs'[u] : Sender(inputs'[u][i].from, u)
             /\ \A s \in Slots : running'[u][s] # None => Sender(running'[u][s].from, u)
             /\ \A j \in Jids : outputs'[u][j] # None => Sender(outputs'[u][j].from, u)
  <2>. DEFINE v == LookUp(req[c].cid)
              t == [jid |-> req[c].jid, from |-> c]
  <2>1. /\ v # None /\ inputs' = [inputs EXCEPT ![v] = Append(inputs[v], t)]
        /\ running' = running /\ outputs' = outputs /\ pc[c] = "submit"
    BY <1>5 DEF SubmitInput
  <2>2. req[c] \in Inputs /\ req[c].cid \in Cids /\ req[c].cid \in Nat
    BY <2>1, ServerAssumption DEF Inv, RequestInv, Inputs
  <2>3. Sender(c, v)
    BY <2>2 DEF SentInv, Sender, Table
  <2>. HIDE DEF v
  <2>4. CASE u # v
    BY <1>1, <1>2, <2>1, <2>4
  <2>5. CASE u = v
    <3>1. inputs'[u] = Append(inputs[u], t) /\ inputs[u] \in Seq(Tasks)
      BY <1>2, <2>1, <2>5
    <3>2. /\ DOMAIN inputs[u] = 1 .. Len(inputs[u]) /\ Len(inputs[u]) \in Nat
          /\ DOMAIN Append(inputs[u], t) = 1 .. Len(inputs[u]) + 1
          /\ \A i \in 1 .. Len(inputs[u]) : Append(inputs[u], t)[i] = inputs[u][i]
          /\ Append(inputs[u], t)[Len(inputs[u]) + 1] = t
      <4>1. t \in Tasks
        BY <2>2 DEF Inputs, Tasks
      <4>. QED  BY <3>1, <4>1, LenProperties, AppendProperties
    <3>3. t.from = c
      OBVIOUS
    <3>. HIDE DEF t
    <3>4. \A i \in DOMAIN inputs'[u] : inputs'[u][i] = t \/ (i \in DOMAIN inputs[u] /\ inputs'[u][i] = inputs[u][i])
      BY <3>1, <3>2
    <3>. QED  BY <1>1, <2>1, <2>3, <2>5, <3>3, <3>4
  <2>. QED  BY <2>4, <2>5
<1>6. ASSUME NEW c \in Conns, AnswerInput(c)
      PROVE  /\ \A i \in DOMAIN inputs'[u] : Sender(inputs'[u][i].from, u)
             /\ \A s \in Slots : running'[u][s] # None => Sender(running'[u][s].from, u)
             /\ \A j \in Jids : outputs'[u][j] # None => Sender(outputs'[u][j].from, u)
  <2>1. /\ inputs' = inputs /\ running' = running
        /\ outputs' = [outputs EXCEPT ![unit[c]][req[c].jid] = None]
    BY <1>6 DEF AnswerInput
  <2>2. \A j \in Jids : outputs'[u][j] = None \/ outputs'[u][j] = outputs[u][j]
    BY <1>2, <2>1
  <2>. QED  BY <1>1, <2>1, <2>2
<1>7. ASSUME NEW v \in Units, NEW s \in Slots, SlotTake(v, s)
      PROVE  /\ \A i \in DOMAIN inputs'[u] : Sender(inputs'[u][i].from, u)
             /\ \A r \in Slots : running'[u][r] # None => Sender(running'[u][r].from, u)
             /\ \A j \in Jids : outputs'[u][j] # None => Sender(outputs'[u][j].from, u)
  <2>. DEFINE n == Len(inputs[v])
              t == inputs[v][n]
  <2>1. /\ running' = [running EXCEPT ![v][s] = t] /\ n > 0
        /\ inputs' = [inputs EXCEPT ![v] = SubSeq(inputs[v], 1, n - 1)]
        /\ outputs' = outputs
    BY <1>7 DEF SlotTake
  <2>2. inputs[v] \in Seq(Tasks) /\ n \in Nat /\ DOMAIN inputs[v] = 1 .. n
    BY <1>2, LenProperties
  <2>. HIDE DEF n
  <2>3. Sender(t.from, v)
    <3>1. n \in DOMAIN inputs[v]
      BY <2>1, <2>2
    <3>. QED  BY <3>1 DEF SendersInv
  <2>. HIDE DEF t
  <2>4. CASE u # v
    BY <1>1, <1>2, <2>1, <2>4
  <2>5. CASE u = v
    <3>1. \A r \in Slots : running'[u][r] = t \/ running'[u][r] = running[u][r]
      BY <1>2, <2>1, <2>5
    <3>2. inputs'[u] = SubSeq(inputs[v], 1, n - 1)
      BY <1>2, <2>1, <2>5
    <3>3. /\ DOMAIN SubSeq(inputs[v], 1, n - 1) = 1 .. n - 1
          /\ \A i \in 1 .. n - 1 : SubSeq(inputs[v], 1, n - 1)[i] = inputs[v][i]
      BY <2>1, <2>2, SubSeqProperties
    <3>4. \A i \in DOMAIN inputs'[u] : i \in DOMAIN inputs[u] /\ inputs'[u][i] = inputs[u][i]
      BY <2>2, <2>5, <3>2, <3>3
    <3>. QED  BY <1>1, <2>1, <2>3, <2>5, <3>1, <3>4
  <2>. QED  BY <2>4, <2>5
<1>8. ASSUME NEW v \in Units, NEW s \in Slots, SlotFinish(v, s)
      PROVE  /\ \A i \in DOMAIN inputs'[u] : Sender(inputs'[u][i].from, u)
             /\ \A r \in Slots : running'[u][r] # None => Sender(running'[u][r].from, u)
             /\ \A j \in Jids : outputs'[u][j] # None => Sender(outputs'[u][j].from, u)
  <2>. DEFINE t == running[v][s]
  <2>1. /\ running' = [running EXCEPT ![v][s] = None] /\ inputs' = inputs
        /\ slotPc[v][s] = "run"
    BY <1>8 DEF SlotFinish
  <2>2. PICK ok \in BOOLEAN :
            outputs' = [outputs EXCEPT ![v][t.jid] = [from |-> t.from, spawned |-> ok]]
    BY <1>8 DEF SlotFinish, StoreResult
  <2>3. Sender(t.from, v)
    <3>1. t # None
      BY <2>1 DEF Inv, RunInv
    <3>. QED  BY <3>1 DEF SendersInv
  <2>. HIDE DEF t
  <2>4. \A r \in Slots : running'[u][r] = None \/ running'[u][r] = running[u][r]
    BY <1>2, <2>1
  <2>5. \A j \in Jids : outputs'[u][j] = outputs[u][j] \/ (u = v /\ outputs'[u][j].from = t.from)
    BY <1>2, <2>2
  <2>. QED  BY <1>1, <2>1, <2>3, <2>4, <2>5
<1>9. ASSUME NEW c \in Conns, Handler(c), ~SpawnSlots(c), ~SubmitInput(c), ~AnswerInput(c)
      PROVE  inputs' = inputs /\ running' = running /\ outputs' = outputs
  BY <1>9 DEF Handler, RegisterCommand, TakeInput, RejectInput, TakeStop, SignalKill,
              StopNothing, RemoveCommand, ReportCores, TakeList, ListCommands, unitVars
<1>10. ASSUME NEW v \in Units, NEW s \in Slots, Slot(v, s), ~SlotTake(v, s), ~SlotFinish(v, s)
       PROVE  inputs' = inputs /\ running' = running /\ outputs' = outputs
  BY <1>10 DEF Slot, SlotContinue, SlotPark, SlotIdle
<1>. QED  BY <1>3, <1>4, <1>5, <1>6, <1>7, <1>8, <1>9, <1>10 DEF ServerStep

LEMMA ServerKeepsSenders == ASSUME SystemInv, ServerStep PROVE SendersInv'
<1>. USE DEF SystemInv, ClientInv
<1>1. phase' = phase /\ cid' = cid
  BY ServerFrame
<1>2. None \notin Units /\ Cids \subseteq Nat /\ Table = [i \in Nat |-> Table[i]]
  BY ServerAssumption DEF Table
<1>. DEFINE SenderNext(d, u) ==
              /\ phase'[d[1]] \in {"run", "finished", "gone"} /\ cid'[d[1]] \in Cids
              /\ Table'[cid'[d[1]]] = u
<1>3. ASSUME NEW u \in Units, \A i \in Cids : Table[i] = u => Table'[i] = u
      PROVE  /\ \A i \in DOMAIN inputs'[u] : SenderNext(inputs'[u][i].from, u)
             /\ \A s \in Slots : running'[u][s] # None => SenderNext(running'[u][s].from, u)
             /\ \A j \in Jids : outputs'[u][j] # None => SenderNext(outputs'[u][j].from, u)
  <2>1. \A d : Sender(d, u) => SenderNext(d, u)
    BY <1>1, <1>3 DEF Sender, Learned
  <2>. HIDE DEF SenderNext
  <2>. QED  BY <2>1, TokensAreSent
<1>4. ASSUME NEW u \in Units, \E i \in Cids : Table[i] = u /\ Table'[i] # u
      PROVE  /\ inputs'[u] = <<>>
             /\ \A s \in Slots : running'[u][s] = None
             /\ \A j \in Jids : outputs'[u][j] = None
  <2>1. PICK i \in Cids : Table[i] = u /\ Table'[i] # u
    BY <1>4
  <2>2. PICK l \in Clients : RemoveCommand(Control(l)) /\ Id(l) = req[Control(l)].cid
                               /\ Table' = [Table EXCEPT ![Id(l)] = None]
    BY <1>2, <2>1, TableCases
  <2>3. /\ unit[Control(l)] = Table[Id(l)]
        /\ inputs[unit[Control(l)]] = <<>>
        /\ \A s \in Slots : running[unit[Control(l)]][s] = None
        /\ \A j \in Jids : outputs[unit[Control(l)]][j] = None
    BY <2>2, RemoveEffect, Connections
  <2>4. unit[Control(l)] = u
    BY <1>2, <2>1, <2>2, <2>3
  <2>5. inputs' = inputs /\ running' = running /\ outputs' = outputs
    BY <2>2 DEF RemoveCommand, unitVars
  <2>. QED  BY <2>3, <2>4, <2>5
<1>5. ASSUME NEW u \in Units
      PROVE  /\ \A i \in DOMAIN inputs'[u] : SenderNext(inputs'[u][i].from, u)
             /\ \A s \in Slots : running'[u][s] # None => SenderNext(running'[u][s].from, u)
             /\ \A j \in Jids : outputs'[u][j] # None => SenderNext(outputs'[u][j].from, u)
  <2>. HIDE DEF SenderNext
  <2>. QED  BY <1>3, <1>4
<1>. QED  BY <1>5 DEF SendersInv, Sender, Learned

LEMMA ServerKeepsResults == ASSUME SystemInv, ServerStep PROVE ResultsInv'
<1>. USE DEF SystemInv, ClientInv
<1>1. phase' = phase /\ cid' = cid /\ results' = results
  BY ServerFrame
<1>2. \A k, c : OwnOrStale(k, c) =>
         \/ c[1] = k
         \/ phase'[c[1]] \in {"finished", "gone"} /\ cid'[c[1]] = cid'[k]
  BY <1>1 DEF OwnOrStale
<1>3. ASSUME NEW d \in Conns, inbox'[d] # None, inbox'[d].kind = "output"
      PROVE  Learned(d[1]) /\ OwnOrStale(d[1], inbox'[d].from)
  <2>1. CASE inbox'[d] = inbox[d]
    BY <1>3, <2>1 DEF ResultsInv
  <2>2. CASE inbox'[d] # inbox[d]
    <3>1. Handler(d) /\ Alive(d[1]) /\ inbox'[d] = sent' /\ sent' # None
      BY <2>2, ServerFrame
    <3>2. AnswerInput(d)
      <4>1. sent'.kind = "output"
        BY <1>3, <3>1
      <4>2. /\ RegisterCommand(d) => sent'.kind = "id"
            /\ RejectInput(d) => sent'.kind = "error"
            /\ StopNothing(d) \/ RemoveCommand(d) => sent'.kind = "deleted"
            /\ ReportCores(d) => sent'.kind = "cores"
            /\ ListCommands(d) => sent'.kind = "commands"
        BY DEF RegisterCommand, RejectInput, StopNothing, RemoveCommand, ReportCores,
               ListCommands, Return
      <4>3. SpawnSlots(d) \/ TakeInput(d) \/ TakeStop(d) \/ TakeList(d) \/ SubmitInput(d)
              \/ SignalKill(d) => sent' = None
        BY DEF SpawnSlots, TakeInput, TakeStop, TakeList, SubmitInput, SignalKill
      <4>. QED  BY <3>1, <4>1, <4>2, <4>3 DEF Handler
    <3>. DEFINE u == unit[d]
                j == req[d].jid
                from == outputs[u][j].from
                k == d[1]
    <3>3. pc[d] = "await" /\ outputs[u][j] # None /\ sent'.from = from
      <4>1. sent'.kind = "output"
        BY <1>3, <3>1
      <4>. QED  BY <3>2, <4>1 DEF AnswerInput, Return
    <3>4. req[d] \in Inputs /\ j \in Jids /\ req[d].cid \in Cids /\ u \in Units
      BY <3>3 DEF Inv, RequestInv, Inputs, HandlerUnitInv
    <3>5. Learned(k) /\ req[d].cid = cid[k]
      BY <3>4 DEF SentInv
    <3>6. LookUp(req[d].cid) = u
      BY <3>3 DEF Inv, HeldCommandStays
    <3>7. Sender(from, u)
      BY <3>3, <3>4 DEF SendersInv
    <3>8. cid[from[1]] = cid[k]
      <4>1. Cids \subseteq Nat /\ u # None
        BY <3>4, ServerAssumption
      <4>2. Table[cid[k]] = u /\ cid[k] \in Nat
        BY <3>4, <3>5, <3>6, <4>1 DEF Table
      <4>3. Table[cid[from[1]]] = u /\ cid[from[1]] \in Nat
        BY <3>7, <4>1 DEF Sender
      <4>4. \A a, b \in Nat : Table[a] = Table[b] /\ Table[a] # None => a = b
        BY TableEntries
      <4>. HIDE DEF u, j, from, k
      <4>. QED  BY <4>1, <4>2, <4>3, <4>4
    <3>9. k \in Clients /\ from[1] \in Clients
      <4>1. from \in Conns
        <5>1. outputs[u][j] \in Results
          BY <3>3, <3>4 DEF Inv, Typed, UnitsTyped
        <5>. QED  BY <5>1 DEF Results
      <4>. QED  BY <4>1, Connections
    <3>10. phase[k] = "run"
      BY <3>1, <3>5 DEF Alive, Learned
    <3>11. phase[from[1]] = "run" => from[1] = k
      BY <3>8, <3>9, <3>10 DEF HoldsInv, Holds, Id
    <3>12. phase[from[1]] \in {"run", "finished", "gone"}
      BY <3>7 DEF Sender, Learned
    <3>. QED  BY <3>1, <3>3, <3>5, <3>8, <3>11, <3>12 DEF OwnOrStale
  <2>. QED  BY <2>1, <2>2
<1>4. \A d \in Conns : inbox'[d] # None /\ inbox'[d].kind = "output" =>
         /\ phase'[d[1]] \in {"run", "finished", "gone"}
         /\ \/ inbox'[d].from[1] = d[1]
            \/ /\ phase'[inbox'[d].from[1]] \in {"finished", "gone"}
               /\ cid'[inbox'[d].from[1]] = cid'[d[1]]
  BY <1>1, <1>2, <1>3 DEF Learned
<1>5. \A k \in Clients, j \in Jids : results'[k][j] # None =>
         /\ phase'[k] \in {"run", "finished", "gone"}
         /\ \/ results'[k][j][1] = k
            \/ /\ phase'[results'[k][j][1]] \in {"finished", "gone"}
               /\ cid'[results'[k][j][1]] = cid'[k]
  BY <1>1, <1>2 DEF Learned, ResultsInv
<1>. QED  BY <1>4, <1>5 DEF ResultsInv, OwnOrStale, Learned

LEMMA ServerKeepsInv == ASSUME SystemInv, ServerStep PROVE SystemInv'
  BY ServerFrame, ServerKeepsTypes, ServerKeepsStart, ServerKeepsHolds, ServerKeepsOwners,
     ServerKeepsSenders, ServerKeepsResults
     DEF SystemInv, ClientInv

-----------------------------------------------------------------------------
(* The invariant under the steps of clients, and faults.                    *)

(* Clients that neither make nor forget a command.                          *)
LEMMA ClientFrame ==
    ASSUME SystemInv, UNCHANGED <<commands, inputs, outputs, running, own>>,
           \A k \in Clients :
              /\ Learned(k) => Learned(k)' /\ cid'[k] = cid[k]
              /\ phase[k] \in {"finished", "gone"} => phase'[k] = phase[k]
              /\ Holds(k)' => Holds(k) /\ Id(k)' = Id(k)
              /\ Holds(k) => Holds(k)' \/ phase'[k] = "gone",
           \A c \in Conns : inbox'[c] = inbox[c] \/ inbox'[c] = None,
           \A k \in Clients, j \in Jids :
              \/ results'[k][j] = results[k][j]
              \/ \E c \in Conns : /\ c[1] = k /\ inbox[c] # None /\ inbox[c].kind = "output"
                                  /\ results'[k][j] = inbox[c].from
    PROVE  HoldsInv' /\ OwnersInv' /\ SendersInv' /\ ResultsInv'
<1>. USE DEF SystemInv, ClientInv
<1>1. Table' = Table /\ Registered' = Registered
  BY DEF Table, LookUp, Registered
<1>2. HoldsInv'
  BY <1>1 DEF HoldsInv
<1>3. OwnersInv'
  BY <1>1 DEF OwnersInv
<1>4. SendersInv'
  <2>. DEFINE SenderNext(d, u) ==
                /\ phase'[d[1]] \in {"run", "finished", "gone"} /\ cid'[d[1]] \in Cids
                /\ Table'[cid'[d[1]]] = u
  <2>1. \A d \in Conns, u \in Units : Sender(d, u) => SenderNext(d, u)
    BY <1>1, Connections DEF Sender, Learned
  <2>2. ASSUME NEW u \in Units
        PROVE  /\ \A i \in DOMAIN inputs[u] : inputs[u][i].from \in Conns
               /\ \A s \in Slots : running[u][s] # None => running[u][s].from \in Conns
               /\ \A j \in Jids : outputs[u][j] # None => outputs[u][j].from \in Conns
    <3>1. /\ inputs[u] \in Seq(Tasks)
          /\ outputs[u] \in [Jids -> Results \cup {None}]
          /\ running[u] \in [Slots -> Tasks \cup {None}]
      BY DEF Inv, Typed, UnitsTyped
    <3>2. \A i \in DOMAIN inputs[u] : inputs[u][i] \in Tasks
      BY <3>1, ElementOfSeq, LenProperties
    <3>. QED  BY <3>1, <3>2 DEF Tasks, Results
  <2>3. ASSUME NEW u \in Units
        PROVE  /\ \A i \in DOMAIN inputs[u] : SenderNext(inputs[u][i].from, u)
               /\ \A s \in Slots : running[u][s] # None => SenderNext(running[u][s].from, u)
               /\ \A j \in Jids : outputs[u][j] # None => SenderNext(outputs[u][j].from, u)
    <3>. HIDE DEF SenderNext
    <3>. QED  BY <2>1, <2>2 DEF SendersInv
  <2>4. \A u \in Units :
           /\ \A i \in DOMAIN inputs'[u] : SenderNext(inputs'[u][i].from, u)
           /\ \A s \in Slots : running'[u][s] # None => SenderNext(running'[u][s].from, u)
           /\ \A j \in Jids : outputs'[u][j] # None => SenderNext(outputs'[u][j].from, u)
    <3>. HIDE DEF SenderNext
    <3>. QED  BY <2>3
  <2>. QED  BY <2>4, Zenon DEF SendersInv, Sender, Learned
<1>5. ASSUME NEW k \in Clients, NEW c \in Conns, Learned(k), Learned(c[1]), OwnOrStale(k, c)
      PROVE  OwnOrStale(k, c)'
  BY <1>5, Connections DEF OwnOrStale
<1>6. /\ \A c \in Conns : inbox[c] # None /\ inbox[c].kind = "output" =>
            inbox[c].from \in Conns /\ c[1] \in Clients
      /\ \A k \in Clients, j \in Jids : results[k][j] # None => results[k][j] \in Conns
  <2>1. \A r \in Replies : r.kind = "output" => r.from \in Conns
    BY DEF Replies
  <2>2. /\ \A c \in Conns : inbox[c] \in Replies \cup {None}
        /\ \A k \in Clients, j \in Jids : results[k][j] \in Conns \cup {None}
    BY DEF ClientTypeOK
  <2>. QED  BY <2>1, <2>2, Connections
<1>7. /\ \A c \in Conns : inbox[c] # None /\ inbox[c].kind = "output" =>
            Learned(c[1]) /\ Learned(c[1])' /\ OwnOrStale(c[1], inbox[c].from)
      /\ \A k \in Clients, j \in Jids : results[k][j] # None =>
            Learned(k) /\ Learned(k)' /\ OwnOrStale(k, results[k][j])
  BY <1>6 DEF ResultsInv
<1>8. \A k \in Clients, c \in Conns : Learned(k) /\ OwnOrStale(k, c) =>
         /\ phase'[k] \in {"run", "finished", "gone"}
         /\ c[1] = k \/ (phase'[c[1]] \in {"finished", "gone"} /\ cid'[c[1]] = cid'[k])
  BY <1>5 DEF Learned, OwnOrStale
<1>9. \A c \in Conns : inbox'[c] # None /\ inbox'[c].kind = "output" =>
         /\ phase'[c[1]] \in {"run", "finished", "gone"}
         /\ \/ inbox'[c].from[1] = c[1]
            \/ /\ phase'[inbox'[c].from[1]] \in {"finished", "gone"}
               /\ cid'[inbox'[c].from[1]] = cid'[c[1]]
  BY <1>6, <1>7, <1>8
<1>10. \A k \in Clients, j \in Jids : results'[k][j] # None =>
          /\ phase'[k] \in {"run", "finished", "gone"}
          /\ \/ results'[k][j][1] = k
             \/ /\ phase'[results'[k][j][1]] \in {"finished", "gone"}
                /\ cid'[results'[k][j][1]] = cid'[k]
  BY <1>6, <1>7, <1>8
<1>11. ResultsInv'
  BY <1>9, <1>10 DEF ResultsInv, OwnOrStale, Learned
<1>. QED  BY <1>2, <1>3, <1>4, <1>11

LEMMA RegisterKeepsInv == ASSUME SystemInv, NEW k \in Clients, Register(k) PROVE SystemInv'
<1>. USE DEF SystemInv, ClientInv
<1>. DEFINE c == Control(k)
            r == [op |-> "com"]
<1>1. c \in Conns /\ c[1] = k /\ \A l \in Clients : Control(l) = c => l = k
  BY Connections
<1>2. /\ phase[k] = "start" /\ link[c] = "up" /\ phase' = [phase EXCEPT ![k] = "register"]
      /\ UNCHANGED <<cid, todo, job, link, inbox, results, own, faults>>
      /\ Arrive(c, r)
  BY DEF Register, ArriveCommand
<1>3. /\ pc[c] = "idle" /\ pc' = [pc EXCEPT ![c] = "queued"] /\ req' = [req EXCEPT ![c] = r]
      /\ UNCHANGED <<tableVars, unit, unitVars>>
  BY <1>2 DEF Arrive
<1>4. r \in Requests /\ r # None /\ r \in Plain /\ r \notin Inputs /\ r \notin Stops
  BY RequestKinds
<1>5. Inv'
  BY <1>1, <1>2, <1>4, ArriveStep
<1>6. /\ phase \in [Clients -> {"start", "register", "run", "finished", "gone"}]
      /\ pc \in [Conns -> {"idle", "queued", "register", "submit", "await",
                           "stop", "park", "list"}]
      /\ req \in [Conns -> Requests \cup {None}]
  BY DEF ClientTypeOK, Inv, Typed, HandlersTyped
<1>7. /\ req[c] = None /\ own[k] = None /\ inbox[c] = None
  BY <1>1, <1>2, <1>3 DEF StartInv, IdleInv
<1>. HIDE DEF c, r
<1>8. /\ \A l \in Clients \ {k} : phase'[l] = phase[l]
      /\ phase'[k] = "register"
      /\ pc'[c] = "queued" /\ req'[c] = r
      /\ \A d \in Conns \ {c} : pc'[d] = pc[d] /\ req'[d] = req[d]
  BY <1>1, <1>2, <1>3, <1>6
<1>9. ClientTypeOK' /\ SlotsOnly' /\ IdleInv'
  <2>1. ClientTypeOK'
    BY <1>2 DEF ClientTypeOK
  <2>2. SlotsOnly'
    BY <1>2 DEF SlotsOnly
  <2>3. IdleInv'
    BY <1>4, <1>8 DEF IdleInv
  <2>. QED  BY <2>1, <2>2, <2>3
<1>10. SentInv'
  <2>1. r = [op |-> "com"] /\ c = Control(k)
    BY DEF c, r
  <2>. QED  BY <1>1, <1>2, <1>4, <1>8, <2>1 DEF SentInv, Learned
<1>11. StartInv'
  <2>1. \A l \in Clients \ {k} : Control(l) \in Conns \ {c}
    BY <1>1, Connections
  <2>2. c = Control(k)
    BY DEF c
  <2>. QED  BY <1>1, <1>2, <1>3, <1>4, <1>7, <1>8, <2>1, <2>2 DEF StartInv
<1>12. \A l \in Clients :
          /\ Learned(l) => Learned(l)' /\ cid'[l] = cid[l]
          /\ phase[l] \in {"finished", "gone"} => phase'[l] = phase[l]
          /\ Holds(l)' => Holds(l) /\ Id(l)' = Id(l)
          /\ Holds(l) => Holds(l)' \/ phase'[l] = "gone"
  <2>1. \A l \in Clients \ {k} : Control(l) \in Conns \ {c}
    BY <1>1, Connections
  <2>2. c = Control(k)
    BY DEF c
  <2>. QED  BY <1>2, <1>7, <1>8, <2>1, <2>2 DEF Learned, Holds, Id
<1>13. commands' = commands /\ inputs' = inputs /\ outputs' = outputs /\ running' = running
  BY <1>3 DEF tableVars, unitVars
<1>14. HoldsInv' /\ OwnersInv' /\ SendersInv' /\ ResultsInv'
  BY <1>2, <1>12, <1>13, ClientFrame
<1>. QED  BY <1>5, <1>9, <1>10, <1>11, <1>14

LEMMA LearnIdKeepsInv == ASSUME SystemInv, NEW k \in Clients, LearnId(k) PROVE SystemInv'
<1>. USE DEF SystemInv, ClientInv
<1>. DEFINE c == Control(k)
<1>1. c \in Conns /\ c[1] = k /\ \A l \in Clients : Control(l) = c => l = k
  BY Connections
<1>2. /\ phase[k] = "register" /\ inbox[c] # None
      /\ cid' = [cid EXCEPT ![k] = inbox[c].cid]
      /\ inbox' = [inbox EXCEPT ![c] = None]
      /\ phase' = [phase EXCEPT ![k] = "run"]
      /\ UNCHANGED <<vars, todo, job, link, results, own, faults>>
  BY DEF LearnId
<1>3. /\ phase \in [Clients -> {"start", "register", "run", "finished", "gone"}]
      /\ cid \in [Clients -> Nat \cup {None}]
      /\ inbox \in [Conns -> Replies \cup {None}]
  BY DEF ClientTypeOK
<1>4. /\ inbox[c].cid \in Cids /\ Cids \subseteq Nat /\ req[c] = None
  BY <1>1, <1>2, ServerAssumption DEF StartInv
<1>5. Inv'
  BY <1>2, InvStutter
<1>6. pc' = pc /\ req' = req /\ unit' = unit /\ commands' = commands
      /\ inputs' = inputs /\ outputs' = outputs /\ running' = running
  BY <1>2 DEF vars, tableVars, handlerVars, unitVars
<1>. HIDE DEF c
<1>7. /\ \A l \in Clients \ {k} : phase'[l] = phase[l] /\ cid'[l] = cid[l]
      /\ phase'[k] = "run" /\ cid'[k] = inbox[c].cid
      /\ \A d \in Conns \ {c} : inbox'[d] = inbox[d]
      /\ inbox'[c] = None
      /\ \A l \in Clients \ {k} : Control(l) \in Conns \ {c}
  BY <1>1, <1>2, <1>3, Connections
<1>8. c = Control(k)
  BY DEF c
<1>9. ClientTypeOK'
  <2>1. /\ phase' \in [Clients -> {"start", "register", "run", "finished", "gone"}]
        /\ cid' \in [Clients -> Nat \cup {None}]
        /\ inbox' \in [Conns -> Replies \cup {None}]
    BY <1>2, <1>3, <1>4
  <2>. QED  BY <1>2, <2>1 DEF ClientTypeOK
<1>10. SlotsOnly' /\ IdleInv'
  BY <1>2, <1>6 DEF SlotsOnly, IdleInv
<1>11. SentInv'
  <2>1. \A l \in Clients : Learned(l) => l # k
    BY <1>2 DEF Learned
  <2>2. \A d \in Conns : /\ d[1] \in Clients
                         /\ d = Control(d[1]) /\ d[1] = k => d = c
    BY <1>8, Connections
  <2>3. req[c] \notin Plain
    BY <1>4, RequestKinds DEF Requests
  <2>. QED  BY <1>2, <1>6, <1>7, <2>1, <2>2, <2>3 DEF SentInv, Learned
<1>12. StartInv'
  BY <1>2, <1>4, <1>6, <1>7, <1>8 DEF StartInv
<1>13. \A l \in Clients :
          /\ Learned(l) => Learned(l)' /\ cid'[l] = cid[l]
          /\ phase[l] \in {"finished", "gone"} => phase'[l] = phase[l]
          /\ Holds(l)' => Holds(l) /\ Id(l)' = Id(l)
          /\ Holds(l) => Holds(l)' \/ phase'[l] = "gone"
  BY <1>2, <1>6, <1>7, <1>8 DEF Learned, Holds, Id
<1>14. HoldsInv' /\ OwnersInv' /\ SendersInv' /\ ResultsInv'
  BY <1>2, <1>6, <1>7, <1>13, ClientFrame
<1>. QED  BY <1>5, <1>9, <1>10, <1>11, <1>12, <1>14

LEMMA SubmitKeepsInv ==
    ASSUME SystemInv, NEW k \in Clients, NEW c \in StreamsOf(k), Submit(c)
    PROVE  SystemInv'
<1>. USE DEF SystemInv, ClientInv
<1>1. c \in Conns /\ c[1] = k /\ c # Control(k) /\ \A l \in Clients : Control(l) # c
  BY Connections DEF StreamsOf, Submit, SlotsOf
<1>2. PICK j \in todo[k] : /\ ~Taken(k, j)
                           /\ Arrive(c, [op |-> "inp", cid |-> cid[k], jid |-> j])
                           /\ job' = [job EXCEPT ![c] = j]
  BY <1>1 DEF Submit
<1>. DEFINE r == [op |-> "inp", cid |-> cid[k], jid |-> j]
<1>3. /\ phase[k] = "run" /\ job[c] = None
      /\ UNCHANGED <<phase, cid, todo, link, inbox, results, own, faults>>
  BY <1>1 DEF Submit
<1>4. /\ pc[c] = "idle" /\ pc' = [pc EXCEPT ![c] = "queued"] /\ req' = [req EXCEPT ![c] = r]
      /\ UNCHANGED <<tableVars, unit, unitVars>>
  BY <1>2 DEF Arrive
<1>5. j \in Jids /\ cid[k] \in Cids
  BY <1>3 DEF ClientTypeOK, StartInv
<1>6. r \in Inputs /\ r.cid = cid[k]
  BY <1>5 DEF Inputs
<1>. HIDE DEF r
<1>7. r \in Requests /\ r # None /\ r \notin Plain /\ r \notin Stops /\ r # [op |-> "com"]
  BY <1>6, RequestKinds
<1>8. Inv'
  BY <1>1, <1>2, <1>7, ArriveStep DEF r
<1>9. /\ pc \in [Conns -> {"idle", "queued", "register", "submit", "await",
                           "stop", "park", "list"}]
      /\ req \in [Conns -> Requests \cup {None}]
      /\ job \in [Conns -> Jids \cup {None}]
  BY DEF ClientTypeOK, Inv, Typed, HandlersTyped
<1>10. /\ pc'[c] = "queued" /\ req'[c] = r /\ job'[c] = j
       /\ \A d \in Conns \ {c} : pc'[d] = pc[d] /\ req'[d] = req[d] /\ job'[d] = job[d]
  BY <1>1, <1>2, <1>4, <1>9
<1>11. ClientTypeOK'
  <2>1. job' \in [Conns -> Jids \cup {None}]
    BY <1>2, <1>5, <1>9
  <2>2. \A d \in StreamsOf(k) \ {c} : job[d] # j
    <3>1. \A d \in SlotsOf(k) : job[d] # j
      BY <1>2 DEF Taken
    <3>2. job[Control(k)] # j
      BY <1>1, <1>3, <3>1 DEF SlotsOnly, SlotsOf
    <3>. QED  BY <3>1, <3>2 DEF SlotsOf
  <2>3. ASSUME NEW d \in Conns, job'[d] # None
        PROVE  /\ job'[d] \in todo[d[1]]
               /\ \A e \in StreamsOf(d[1]) \ {d} : job'[e] # job'[d]
    <3>1. \A e \in StreamsOf(d[1]) : e \in Conns /\ e[1] = d[1]
      BY DEF StreamsOf
    <3>2. CASE d = c
      BY <1>1, <1>10, <2>2, <3>1, <3>2 DEF StreamsOf
    <3>3. CASE d # c
      <4>1. job'[d] = job[d] /\ job[d] \in todo[d[1]]
            /\ \A e \in StreamsOf(d[1]) \ {d} : job[e] # job[d]
        BY <1>10, <2>3, <3>3 DEF ClientTypeOK
      <4>2. c \in StreamsOf(d[1]) => d \in StreamsOf(k) \ {c}
        BY <1>1, <3>3 DEF StreamsOf
      <4>. QED  BY <1>10, <2>2, <3>1, <4>1, <4>2
    <3>. QED  BY <3>2, <3>3
  <2>. QED  BY <1>3, <2>1, <2>3 DEF ClientTypeOK
<1>12. SlotsOnly'
  BY <1>1, <1>10, Connections DEF SlotsOnly
<1>13. IdleInv'
  BY <1>7, <1>10 DEF IdleInv
<1>14. SentInv'
  BY <1>1, <1>3, <1>6, <1>7, <1>10 DEF SentInv, Learned
<1>15. StartInv'
  BY <1>1, <1>3, <1>4, <1>10, Connections DEF StartInv
<1>16. \A l \in Clients : req'[Control(l)] = req[Control(l)]
  BY <1>1, <1>10, Connections
<1>17. \A l \in Clients :
          /\ Learned(l) => Learned(l)' /\ cid'[l] = cid[l]
          /\ phase[l] \in {"finished", "gone"} => phase'[l] = phase[l]
          /\ Holds(l)' => Holds(l) /\ Id(l)' = Id(l)
          /\ Holds(l) => Holds(l)' \/ phase'[l] = "gone"
  BY <1>3, <1>16 DEF Learned, Holds, Id
<1>18. commands' = commands /\ inputs' = inputs /\ outputs' = outputs /\ running' = running
  BY <1>4 DEF tableVars, unitVars
<1>19. HoldsInv' /\ OwnersInv' /\ SendersInv' /\ ResultsInv'
  BY <1>3, <1>17, <1>18, ClientFrame
<1>. QED  BY <1>8, <1>11, <1>12, <1>13, <1>14, <1>15, <1>19

LEMMA AcceptKeepsInv ==
    ASSUME SystemInv, NEW k \in Clients, NEW c \in StreamsOf(k), Accept(c)
    PROVE  SystemInv'
<1>. USE DEF SystemInv, ClientInv
<1>1. c \in Conns /\ c[1] = k
  BY DEF StreamsOf
<1>2. /\ job[c] # None /\ inbox[c] # None /\ inbox[c].kind = "output"
      /\ results' = [results EXCEPT ![k][job[c]] = inbox[c].from]
      /\ todo' = [todo EXCEPT ![k] = todo[k] \ {job[c]}]
      /\ job' = [job EXCEPT ![c] = None]
      /\ inbox' = [inbox EXCEPT ![c] = None]
      /\ UNCHANGED <<vars, phase, cid, link, own, faults>>
  BY <1>1 DEF Accept
<1>3. /\ todo \in [Clients -> SUBSET Jids]
      /\ job \in [Conns -> Jids \cup {None}]
      /\ inbox \in [Conns -> Replies \cup {None}]
      /\ results \in [Clients -> [Jids -> Conns \cup {None}]]
      /\ \A d \in Conns : job[d] # None =>
            job[d] \in todo[d[1]] /\ \A e \in StreamsOf(d[1]) \ {d} : job[e] # job[d]
  BY DEF ClientTypeOK
<1>4. inbox[c].from \in Conns /\ job[c] \in Jids
  BY <1>1, <1>2, <1>3 DEF Replies
<1>5. Inv'
  BY <1>2, InvStutter
<1>6. pc' = pc /\ req' = req /\ unit' = unit /\ commands' = commands
      /\ inputs' = inputs /\ outputs' = outputs /\ running' = running
  BY <1>2 DEF vars, tableVars, handlerVars, unitVars
<1>7. /\ \A d \in Conns \ {c} : job'[d] = job[d] /\ inbox'[d] = inbox[d]
      /\ job'[c] = None /\ inbox'[c] = None
      /\ \A l \in Clients \ {k} : todo'[l] = todo[l]
      /\ todo'[k] = todo[k] \ {job[c]}
      /\ \A l \in Clients, j \in Jids :
            results'[l][j] = results[l][j] \/ (l = k /\ results'[l][j] = inbox[c].from)
  BY <1>1, <1>2, <1>3
<1>8. ClientTypeOK'
  <2>1. /\ todo' \in [Clients -> SUBSET Jids]
        /\ job' \in [Conns -> Jids \cup {None}]
        /\ inbox' \in [Conns -> Replies \cup {None}]
    BY <1>2, <1>3
  <2>2. results' \in [Clients -> [Jids -> Conns \cup {None}]]
    BY <1>2, <1>3, <1>4
  <2>3. ASSUME NEW d \in Conns, job'[d] # None
        PROVE  /\ job'[d] \in todo'[d[1]]
               /\ \A e \in StreamsOf(d[1]) \ {d} : job'[e] # job'[d]
    <3>1. d # c /\ job'[d] = job[d] /\ d[1] \in Clients
      BY <1>7, <2>3, Connections
    <3>2. job[d] \in todo[d[1]] /\ \A e \in StreamsOf(d[1]) \ {d} : job[e] # job[d]
      BY <1>3, <2>3, <3>1
    <3>3. d[1] = k => job[d] # job[c]
      BY <1>1, <3>1, <3>2 DEF StreamsOf
    <3>4. \A e \in StreamsOf(d[1]) \ {d} : e \in Conns
      BY DEF StreamsOf
    <3>. QED  BY <1>7, <2>3, <3>1, <3>2, <3>3, <3>4
  <2>. QED  BY <1>2, <2>1, <2>2, <2>3 DEF ClientTypeOK
<1>9. SlotsOnly' /\ IdleInv' /\ SentInv'
  <2>1. SlotsOnly'
    BY <1>7, Connections DEF SlotsOnly
  <2>2. IdleInv' /\ SentInv'
    BY <1>2, <1>6 DEF IdleInv, SentInv, Learned
  <2>. QED  BY <2>1, <2>2
<1>10. \A l \in Clients : inbox'[Control(l)] = inbox[Control(l)]
  <2>1. \A l \in Clients : Control(l) # c
    BY <1>2 DEF SlotsOnly
  <2>. QED  BY <1>7, <2>1, Connections
<1>11. StartInv'
  BY <1>2, <1>6, <1>10 DEF StartInv
<1>12. \A l \in Clients :
          /\ Learned(l) => Learned(l)' /\ cid'[l] = cid[l]
          /\ phase[l] \in {"finished", "gone"} => phase'[l] = phase[l]
          /\ Holds(l)' => Holds(l) /\ Id(l)' = Id(l)
          /\ Holds(l) => Holds(l)' \/ phase'[l] = "gone"
  BY <1>2, <1>6, <1>10 DEF Learned, Holds, Id
<1>13. HoldsInv' /\ OwnersInv' /\ SendersInv' /\ ResultsInv'
  BY <1>1, <1>2, <1>6, <1>7, <1>12, ClientFrame
<1>. QED  BY <1>5, <1>8, <1>9, <1>11, <1>13

LEMMA FinishKeepsInv == ASSUME SystemInv, NEW k \in Clients, Finish(k) PROVE SystemInv'
<1>. USE DEF SystemInv, ClientInv
<1>. DEFINE c == Control(k)
            r == [op |-> "del", cid |-> cid[k]]
<1>1. c \in Conns /\ c[1] = k /\ \A l \in Clients : Control(l) = c => l = k
  BY Connections
<1>2. phase[k] = "run" /\ UNCHANGED <<cid, todo, job, link, inbox, results, own, faults>>
  BY DEF Finish
<1>3. /\ phase \in [Clients -> {"start", "register", "run", "finished", "gone"}]
      /\ pc \in [Conns -> {"idle", "queued", "register", "submit", "await",
                           "stop", "park", "list"}]
      /\ req \in [Conns -> Requests \cup {None}]
  BY DEF ClientTypeOK, Inv, Typed, HandlersTyped
<1>4. cid[k] \in Cids /\ inbox[c] = None
  BY <1>2 DEF StartInv
<1>5. r \in Stops /\ r.cid = cid[k]
  BY <1>4 DEF Stops
<1>. HIDE DEF c, r
<1>6. r \in Requests /\ r # None /\ r \notin Plain /\ r \notin Inputs /\ r # [op |-> "com"]
  BY <1>5, RequestKinds
<1>7. c = Control(k) /\ \A l \in Clients \ {k} : Control(l) \in Conns \ {c}
  BY <1>1, Connections DEF c
<1>8. CASE Arrive(c, r) /\ phase' = [phase EXCEPT ![k] = "finished"]
  <2>1. Inv'
    BY <1>1, <1>6, <1>8, ArriveStep
  <2>2. /\ pc[c] = "idle" /\ pc' = [pc EXCEPT ![c] = "queued"] /\ req' = [req EXCEPT ![c] = r]
        /\ UNCHANGED <<tableVars, unit, unitVars>>
    BY <1>8 DEF Arrive
  <2>3. /\ pc'[c] = "queued" /\ req'[c] = r /\ req[c] = None
        /\ \A d \in Conns \ {c} : pc'[d] = pc[d] /\ req'[d] = req[d]
        /\ phase'[k] = "finished" /\ \A l \in Clients \ {k} : phase'[l] = phase[l]
    BY <1>1, <1>3, <1>8, <2>2 DEF IdleInv
  <2>4. ClientTypeOK'
    <3>1. phase' \in [Clients -> {"start", "register", "run", "finished", "gone"}]
      BY <1>3, <1>8
    <3>. QED  BY <1>2, <3>1 DEF ClientTypeOK
  <2>5. SlotsOnly' /\ IdleInv'
    BY <1>2, <1>6, <2>3 DEF SlotsOnly, IdleInv
  <2>6. SentInv'
    BY <1>1, <1>2, <1>5, <1>6, <1>7, <2>3, Connections DEF SentInv, Learned
  <2>7. StartInv'
    BY <1>1, <1>2, <1>4, <1>6, <1>7, <2>2, <2>3 DEF StartInv
  <2>8. \A l \in Clients :
          /\ Learned(l) => Learned(l)' /\ cid'[l] = cid[l]
          /\ phase[l] \in {"finished", "gone"} => phase'[l] = phase[l]
          /\ Holds(l)' => Holds(l) /\ Id(l)' = Id(l)
          /\ Holds(l) => Holds(l)' \/ phase'[l] = "gone"
    BY <1>2, <1>6, <1>7, <2>3 DEF Learned, Holds, Id
  <2>9. commands' = commands /\ inputs' = inputs /\ outputs' = outputs /\ running' = running
    BY <2>2 DEF tableVars, unitVars
  <2>10. HoldsInv' /\ OwnersInv' /\ SendersInv' /\ ResultsInv'
    BY <1>2, <2>8, <2>9, ClientFrame
  <2>. QED  BY <2>1, <2>4, <2>5, <2>6, <2>7, <2>10
<1>9. CASE UNCHANGED vars /\ phase' = [phase EXCEPT ![k] = "gone"]
  <2>1. Inv'
    BY <1>9, InvStutter
  <2>2. pc' = pc /\ req' = req /\ unit' = unit /\ commands' = commands
        /\ inputs' = inputs /\ outputs' = outputs /\ running' = running
    BY <1>9 DEF vars, tableVars, handlerVars, unitVars
  <2>3. phase'[k] = "gone" /\ \A l \in Clients \ {k} : phase'[l] = phase[l]
    BY <1>3, <1>9
  <2>4. ClientTypeOK'
    <3>1. phase' \in [Clients -> {"start", "register", "run", "finished", "gone"}]
      BY <1>3, <1>9
    <3>. QED  BY <1>2, <3>1 DEF ClientTypeOK
  <2>5. SlotsOnly' /\ IdleInv'
    BY <1>2, <2>2 DEF SlotsOnly, IdleInv
  <2>6. SentInv'
    BY <1>2, <2>2, <2>3, Connections DEF SentInv, Learned
  <2>7. StartInv'
    BY <1>2, <1>4, <1>7, <2>2, <2>3 DEF StartInv
  <2>8. \A l \in Clients :
          /\ Learned(l) => Learned(l)' /\ cid'[l] = cid[l]
          /\ phase[l] \in {"finished", "gone"} => phase'[l] = phase[l]
          /\ Holds(l)' => Holds(l) /\ Id(l)' = Id(l)
          /\ Holds(l) => Holds(l)' \/ phase'[l] = "gone"
    BY <1>2, <2>2, <2>3 DEF Learned, Holds, Id
  <2>9. HoldsInv' /\ OwnersInv' /\ SendersInv' /\ ResultsInv'
    BY <1>2, <2>2, <2>8, ClientFrame
  <2>. QED  BY <2>1, <2>4, <2>5, <2>6, <2>7, <2>9
<1>. QED  BY <1>8, <1>9 DEF Finish, c, r

(* The streams in C belong to clients that run; one of them that is the     *)
(* control stream of a client about to read its ID takes the client along.  *)
LEMMA LoseKeepsInv ==
    ASSUME SystemInv, NEW C \in SUBSET Conns, Lose(C),
           \A c \in C : Alive(c[1]),
           phase' \in [Clients -> {"start", "register", "run", "finished", "gone"}],
           \A k \in Clients :
              \/ phase'[k] = phase[k] /\ (Control(k) \in C => phase[k] # "register")
              \/ phase'[k] = "gone" /\ Control(k) \in C
    PROVE  SystemInv'
<1>. USE DEF SystemInv, ClientInv
<1>1. /\ link' = [c \in Conns |-> IF c \in C THEN "broken" ELSE link[c]]
      /\ inbox' = [c \in Conns |-> IF c \in C THEN None ELSE inbox[c]]
      /\ job' = [c \in Conns |-> IF c \in C THEN None ELSE job[c]]
      /\ UNCHANGED <<cid, todo, results, own>>
      /\ faults < MaxFaults /\ faults' = faults + 1
  BY DEF Lose
<1>2. PICK lost \in SUBSET {c \in C : pc[c] = "queued"} :
          /\ pc' = [c \in Conns |-> IF c \in lost THEN "idle" ELSE pc[c]]
          /\ req' = [c \in Conns |-> IF c \in lost THEN None ELSE req[c]]
  BY LoseStep
<1>3. Inv' /\ UNCHANGED <<tableVars, unit, unitVars>>
  BY LoseStep
<1>4. \A c \in Conns :
         /\ link'[c] = IF c \in C THEN "broken" ELSE link[c]
         /\ inbox'[c] = IF c \in C THEN None ELSE inbox[c]
         /\ job'[c] = IF c \in C THEN None ELSE job[c]
         /\ pc'[c] = IF c \in lost THEN "idle" ELSE pc[c]
         /\ req'[c] = IF c \in lost THEN None ELSE req[c]
         /\ c \in lost => c \in C
  BY <1>1, <1>2
<1>5. \A k \in Clients : Control(k) \in Conns /\ (Control(k) \in C => Alive(k))
  BY Connections
<1>6. ClientTypeOK'
  <2>1. /\ link' \in [Conns -> {"up", "broken"}]
        /\ inbox' \in [Conns -> Replies \cup {None}]
        /\ job' \in [Conns -> Jids \cup {None}]
    BY <1>1 DEF ClientTypeOK
  <2>2. faults' \in 0 .. MaxFaults
    BY <1>1, ClientsAssumption DEF ClientTypeOK
  <2>3. \A c \in Conns : job'[c] # None =>
            job'[c] \in todo'[c[1]] /\ \A d \in StreamsOf(c[1]) \ {c} : job'[d] # job'[c]
    <3>1. \A c \in Conns : \A d \in StreamsOf(c[1]) : d \in Conns
      BY DEF StreamsOf
    <3>. QED  BY <1>1, <1>4, <3>1 DEF ClientTypeOK
  <2>. QED  BY <1>1, <2>1, <2>2, <2>3 DEF ClientTypeOK
<1>7. SlotsOnly' /\ IdleInv'
  BY <1>4, <1>5 DEF SlotsOnly, IdleInv
<1>8. SentInv'
  <2>1. \A k \in Clients : /\ Learned(k) => phase'[k] \in {"run", "finished", "gone"}
                           /\ phase[k] = "finished" => phase'[k] = "finished"
                           /\ phase[k] \in {"register", "gone"} =>
                                 phase'[k] \in {"register", "gone"}
    BY <1>5 DEF Learned, Alive
  <2>2. \A c \in Conns : c[1] \in Clients
    BY Connections
  <2>3. None \notin Inputs /\ None \notin Stops /\ None \notin Plain
    BY RequestKinds DEF Requests
  <2>. QED  BY <1>1, <1>4, <2>1, <2>2, <2>3 DEF SentInv, Learned
<1>9. StartInv'
  <2>1. ASSUME NEW k \in Clients
        PROVE  LET c == Control(k) IN
               /\ phase'[k] = "start" => req'[c] = None /\ own'[k] = None
               /\ phase'[k] = "register" => link'[c] = "up" /\ (req'[c] = None <=> inbox'[c] # None)
               /\ inbox'[c] # None =>
                     phase'[k] = "register" /\ inbox'[c].kind = "id" /\ inbox'[c].cid \in Cids
               /\ pc'[c] = "register" => unit'[c] = own'[k]
               /\ pc'[c] = "queued" /\ req'[c] = [op |-> "com"] => own'[k] = None
               /\ phase'[k] \in {"run", "finished"} => cid'[k] \in Cids
    <3>. DEFINE c == Control(k)
    <3>1. /\ phase[k] = "start" => req[c] = None /\ own[k] = None
          /\ phase[k] = "register" => link[c] = "up" /\ (req[c] = None <=> inbox[c] # None)
          /\ inbox[c] # None =>
                phase[k] = "register" /\ inbox[c].kind = "id" /\ inbox[c].cid \in Cids
          /\ pc[c] = "register" => unit[c] = own[k]
          /\ pc[c] = "queued" /\ req[c] = [op |-> "com"] => own[k] = None
          /\ phase[k] \in {"run", "finished"} => cid[k] \in Cids
      BY DEF StartInv
    <3>2. c \in Conns
      BY <1>5
    <3>3. unit' = unit /\ own' = own /\ cid' = cid
      BY <1>1, <1>3
    <3>4. \/ phase'[k] = phase[k] /\ (c \in C => phase[k] # "register")
          \/ phase'[k] = "gone" /\ c \in C
      BY <1>5
    <3>. HIDE DEF c
    <3>. QED  BY <1>4, <3>1, <3>2, <3>3, <3>4 DEF c
  <2>. QED  BY <2>1 DEF StartInv
<1>10. \A l \in Clients :
          /\ Learned(l) => Learned(l)' /\ cid'[l] = cid[l]
          /\ phase[l] \in {"finished", "gone"} => phase'[l] = phase[l]
          /\ Holds(l)' => Holds(l) /\ Id(l)' = Id(l)
          /\ Holds(l) => Holds(l)' \/ phase'[l] = "gone"
  BY <1>1, <1>4, <1>5 DEF Learned, Holds, Id, Alive
<1>11. commands' = commands /\ inputs' = inputs /\ outputs' = outputs /\ running' = running
  BY <1>3 DEF tableVars, unitVars
<1>12. HoldsInv' /\ OwnersInv' /\ SendersInv' /\ ResultsInv'
  BY <1>1, <1>4, <1>10, <1>11, ClientFrame
<1>. QED  BY <1>3, <1>6, <1>7, <1>8, <1>9, <1>12


LEMMA FaultKeepsInv == ASSUME SystemInv, Fault PROVE SystemInv'
<1>. USE DEF SystemInv, ClientInv
<1>1. phase \in [Clients -> {"start", "register", "run", "finished", "gone"}]
  BY DEF ClientTypeOK
<1>2. ASSUME NEW c \in Conns, StreamLost(c) PROVE SystemInv'
  <2>1. Alive(c[1]) /\ Lose({c}) /\ c[1] \in Clients
    BY <1>2, Connections DEF StreamLost
  <2>2. phase' = IF c = Control(c[1]) /\ phase[c[1]] = "register"
                 THEN [phase EXCEPT ![c[1]] = "gone"] ELSE phase
    BY <1>2 DEF StreamLost
  <2>3. phase' \in [Clients -> {"start", "register", "run", "finished", "gone"}]
    BY <1>1, <2>1, <2>2
  <2>4. \A k \in Clients :
           \/ phase'[k] = phase[k] /\ (Control(k) \in {c} => phase[k] # "register")
           \/ phase'[k] = "gone" /\ Control(k) \in {c}
    BY <1>1, <2>1, <2>2, Connections
  <2>. QED  BY <2>1, <2>3, <2>4, LoseKeepsInv
<1>3. ASSUME NEW k \in Clients, Crash(k) PROVE SystemInv'
  <2>1. Alive(k) /\ Lose(StreamsOf(k)) /\ phase' = [phase EXCEPT ![k] = "gone"]
    BY <1>3 DEF Crash
  <2>2. phase' \in [Clients -> {"start", "register", "run", "finished", "gone"}]
    BY <1>1, <2>1
  <2>3. StreamsOf(k) \in SUBSET Conns /\ \A c \in StreamsOf(k) : c[1] = k
    BY DEF StreamsOf
  <2>4. \A l \in Clients :
           \/ phase'[l] = phase[l] /\ (Control(l) \in StreamsOf(k) => phase[l] # "register")
           \/ phase'[l] = "gone" /\ Control(l) \in StreamsOf(k)
    BY <1>1, <2>1, <2>3, Connections
  <2>5. \A c \in StreamsOf(k) : Alive(c[1])
    BY <2>1, <2>3
  <2>. QED  BY <2>1, <2>2, <2>3, <2>4, <2>5, LoseKeepsInv
<1>. QED  BY <1>2, <1>3 DEF Fault

LEMMA SystemStutter == ASSUME SystemInv, UNCHANGED allVars PROVE SystemInv'
<1>. USE DEF SystemInv, ClientInv
<1>1. UNCHANGED vars /\ UNCHANGED <<phase, cid, todo, job, link, inbox, results, own, faults>>
  BY DEF allVars, clientVars
<1>2. pc' = pc /\ req' = req /\ unit' = unit /\ commands' = commands
      /\ inputs' = inputs /\ outputs' = outputs /\ running' = running
  BY <1>1 DEF vars, tableVars, handlerVars, unitVars
<1>3. Inv'
  BY <1>1, InvStutter
<1>4. ClientTypeOK' /\ SlotsOnly' /\ IdleInv' /\ SentInv' /\ StartInv'
  BY <1>1, <1>2 DEF ClientTypeOK, SlotsOnly, IdleInv, SentInv, StartInv, Learned
<1>5. \A l \in Clients :
          /\ Learned(l) => Learned(l)' /\ cid'[l] = cid[l]
          /\ phase[l] \in {"finished", "gone"} => phase'[l] = phase[l]
          /\ Holds(l)' => Holds(l) /\ Id(l)' = Id(l)
          /\ Holds(l) => Holds(l)' \/ phase'[l] = "gone"
  BY <1>1, <1>2 DEF Learned, Holds, Id
<1>. QED  BY <1>1, <1>2, <1>3, <1>4, <1>5, ClientFrame

LEMMA SystemStep == ASSUME SystemInv, SystemNext PROVE SystemInv'
<1>1. ASSUME NEW k \in Clients, ClientStep(k) PROVE SystemInv'
  BY <1>1, RegisterKeepsInv, LearnIdKeepsInv, SubmitKeepsInv, AcceptKeepsInv, FinishKeepsInv
     DEF ClientStep
<1>. QED  BY <1>1, ServerKeepsInv, FaultKeepsInv DEF SystemNext

(* In every state of every behaviour of clients and server the server keeps *)
(* its own invariant, and the clients theirs.                               *)
THEOREM SystemInvariance == SystemSpec => []SystemInv
<1>1. SystemInit => SystemInv
  BY SystemInitInv
<1>2. SystemInv /\ [SystemNext]_allVars => SystemInv'
  BY SystemStep, SystemStutter
<1>. QED  BY <1>1, <1>2, PTL DEF SystemSpec

-----------------------------------------------------------------------------
(* What the runs check of it.                                               *)

(* The clients' variables keep their types, and a slot waits for a job that *)
(* has no result yet and that no other slot waits for.                      *)
THEOREM ClientTypeCorrect == SystemSpec => []ClientTypeOK
<1>1. SystemInv => ClientTypeOK
  BY DEF SystemInv, ClientInv
<1>. QED  BY <1>1, SystemInvariance, PTL

(* As long as a client runs, its ID names the command it has registered,    *)
(* whatever other clients do and wherever connections break.                *)
THEOREM IdsNameOwnCommands == SystemSpec => []IdNamesOwnCommand
<1>1. SystemInv => IdNamesOwnCommand
  <2>. SUFFICES ASSUME SystemInv, NEW k \in Clients, phase[k] = "run"
                PROVE  LookUp(cid[k]) = own[k]
    BY DEF IdNamesOwnCommand
  <2>1. cid[k] \in Cids /\ Table[cid[k]] = own[k]
    BY DEF SystemInv, ClientInv, HoldsInv, Holds, Id
  <2>. QED  BY <2>1, ServerAssumption DEF Table
<1>. QED  BY <1>1, SystemInvariance, PTL

(* The result a client stores is of an input of its own, or of a client     *)
(* that was gone before this one was given the same ID.                     *)
THEOREM OnlyStaleResultsAreForeign == SystemSpec => []ForeignResultsAreStale
<1>1. SystemInv => ForeignResultsAreStale
  BY DEF SystemInv, ClientInv, ResultsInv, OwnOrStale, ForeignResultsAreStale
<1>. QED  BY <1>1, SystemInvariance, PTL

(* The del of a client that has finished leaves no command of it behind,    *)
(* unless the same unit is by now the command of another client.            *)
THEOREM FinishedClientsAreForgotten == SystemSpec => []FinishedClientsLeaveNothing
<1>1. SystemInv => FinishedClientsLeaveNothing
  <2>. SUFFICES ASSUME SystemInv, NEW k \in Clients, phase[k] = "finished",
                       pc[Control(k)] = "idle", own[k] \in Registered
                PROVE  \E other \in Clients \ {k} : own[other] = own[k]
    BY DEF FinishedClientsLeaveNothing
  <2>1. PICK other \in Clients : own[other] = own[k] /\ (Holds(other) \/ phase[other] = "gone")
    BY DEF SystemInv, ClientInv, OwnersInv
  <2>2. req[Control(k)] = None
    BY Connections DEF SystemInv, ClientInv, IdleInv
  <2>3. other # k
    BY <2>1, <2>2 DEF Holds
  <2>. QED  BY <2>1, <2>3
<1>. QED  BY <1>1, SystemInvariance, PTL

(* With clients that break off and send jobs again: a command whose StopJob *)
(* has raised the kill flag has no work and nobody who waits.               *)
THEOREM StopsDiscardNothing == SystemSpec => []KilledUnitIsQuiet
<1>1. SystemInv => KilledUnitIsQuiet
  BY KilledUnitsAreQuiet DEF SystemInv
<1>. QED  BY <1>1, SystemInvariance, PTL

(* And no unit ever has more work than handlers that wait for it.           *)
THEOREM RetriesStrandNoWork == SystemSpec => []NoWorkWithoutWaiter
<1>1. SystemInv => NoWorkWithoutWaiter
  BY DEF SystemInv, Inv
<1>. QED  BY <1>1, SystemInvariance, PTL

-----------------------------------------------------------------------------
(* Without faults: the clients are an environment in which no request       *)
(* overlaps another.                                                        *)

(* A slot waits for the answer to the one request it has sent, and a client *)
(* that has finished has all its results.                                   *)
ExchangeInv ==
    /\ \A k \in Clients : phase[k] \in {"finished", "gone"} => todo[k] = {}
    /\ \A c \in Conns :
          /\ req[c] \in Inputs => job[c] = req[c].jid /\ inbox[c] = None
          /\ c # Control(c[1]) /\ job[c] = None => req[c] = None /\ inbox[c] = None

LEMMA NoFault == ASSUME SystemInv, MaxFaults = 0, Fault PROVE FALSE
<1>1. faults = 0
  BY DEF SystemInv, ClientInv, ClientTypeOK
<1>2. faults < MaxFaults
  BY DEF Fault, StreamLost, Crash, Lose
<1>. QED  BY <1>1, <1>2

LEMMA ServerKeepsExchange == ASSUME SystemInv, ExchangeInv, ServerStep PROVE ExchangeInv'
<1>1. UNCHANGED <<phase, todo, job>>
  BY ServerFrame
<1>2. None \notin Inputs
  BY RequestKinds
<1>3. ASSUME NEW d \in Conns
      PROVE  /\ req'[d] \in Inputs => job[d] = req'[d].jid /\ inbox'[d] = None
             /\ d # Control(d[1]) /\ job[d] = None => req'[d] = None /\ inbox'[d] = None
  <2>1. CASE Handler(d)
    <3>1. /\ pc[d] # "idle"
          /\ \/ req'[d] = None
             \/ req'[d] = req[d] /\ sent' = None
      BY <2>1, HandlerFrame DEF SystemInv
    <3>2. inbox'[d] = inbox[d] \/ sent' # None
      BY ServerFrame
    <3>3. req[d] # None
      BY <3>1 DEF SystemInv, ClientInv, IdleInv
    <3>. QED  BY <1>2, <3>1, <3>2, <3>3 DEF ExchangeInv
  <2>2. CASE ~Handler(d)
    <3>1. req'[d] = req[d] /\ inbox'[d] = inbox[d]
      BY <2>2, ServerFrame
    <3>. QED  BY <3>1 DEF ExchangeInv
  <2>. QED  BY <2>1, <2>2
<1>4. \A k \in Clients : phase'[k] \in {"finished", "gone"} => todo'[k] = {}
  BY <1>1 DEF ExchangeInv
<1>. QED  BY <1>1, <1>3, <1>4 DEF ExchangeInv

LEMMA ClientKeepsExchange ==
    ASSUME SystemInv, ExchangeInv, NEW k \in Clients, ClientStep(k)
    PROVE  ExchangeInv'
<1>. USE DEF ExchangeInv
<1>1. /\ phase \in [Clients -> {"start", "register", "run", "finished", "gone"}]
      /\ todo \in [Clients -> SUBSET Jids] /\ job \in [Conns -> Jids \cup {None}]
      /\ inbox \in [Conns -> Replies \cup {None}] /\ req \in [Conns -> Requests \cup {None}]
  BY DEF SystemInv, ClientInv, ClientTypeOK, Inv, Typed, HandlersTyped
<1>2. Control(k) \in Conns /\ Control(k)[1] = k
  BY Connections
<1>3. CASE Register(k)
  <2>1. /\ phase' = [phase EXCEPT ![k] = "register"]
        /\ req' = [req EXCEPT ![Control(k)] = [op |-> "com"]]
        /\ UNCHANGED <<todo, job, inbox>>
    BY <1>3 DEF Register, ArriveCommand, Arrive
  <2>2. [op |-> "com"] \notin Inputs
    BY RequestKinds
  <2>. QED  BY <1>1, <1>2, <2>1, <2>2
<1>4. CASE LearnId(k)
  <2>1. /\ phase' = [phase EXCEPT ![k] = "run"]
        /\ inbox' = [inbox EXCEPT ![Control(k)] = None]
        /\ UNCHANGED <<req, todo, job>>
    BY <1>4 DEF LearnId, vars, handlerVars
  <2>. QED  BY <1>1, <1>2, <2>1
<1>5. ASSUME NEW c \in StreamsOf(k), Submit(c) PROVE ExchangeInv'
  <2>1. c \in Conns /\ c[1] = k /\ c # Control(k)
    BY <1>5 DEF StreamsOf, Submit, SlotsOf
  <2>2. PICK j \in todo[k] : /\ Arrive(c, [op |-> "inp", cid |-> cid[k], jid |-> j])
                             /\ job' = [job EXCEPT ![c] = j]
    BY <1>5, <2>1 DEF Submit
  <2>. DEFINE r == [op |-> "inp", cid |-> cid[k], jid |-> j]
  <2>3. /\ job[c] = None /\ req' = [req EXCEPT ![c] = r]
        /\ UNCHANGED <<phase, todo, inbox>>
    BY <1>5, <2>2 DEF Submit, Arrive
  <2>4. j # None /\ r.jid = j
    BY <1>1, <2>2, ClientsAssumption
  <2>5. inbox[c] = None
    BY <2>1, <2>3
  <2>. HIDE DEF r
  <2>6. ASSUME NEW d \in Conns
        PROVE  /\ req'[d] \in Inputs => job'[d] = req'[d].jid /\ inbox'[d] = None
               /\ d # Control(d[1]) /\ job'[d] = None => req'[d] = None /\ inbox'[d] = None
    BY <1>1, <2>1, <2>2, <2>3, <2>4, <2>5
  <2>. QED  BY <2>3, <2>6
<1>6. ASSUME NEW c \in StreamsOf(k), Accept(c) PROVE ExchangeInv'
  <2>1. c \in Conns /\ c[1] = k
    BY DEF StreamsOf
  <2>2. /\ job[c] # None /\ inbox[c] # None
        /\ todo' = [todo EXCEPT ![k] = todo[k] \ {job[c]}]
        /\ job' = [job EXCEPT ![c] = None]
        /\ inbox' = [inbox EXCEPT ![c] = None]
        /\ UNCHANGED <<req, phase>>
    BY <1>6, <2>1 DEF Accept, vars, handlerVars
  <2>3. c # Control(k)
    BY <2>1, <2>2 DEF SystemInv, ClientInv, SlotsOnly
  <2>4. req[c] = None
    <3>1. req[c] \notin Inputs
      BY <2>1, <2>2
    <3>2. req[c] \notin Stops /\ req[c] \notin Plain
      BY <2>1, <2>3 DEF SystemInv, ClientInv, SentInv
    <3>3. req[c] \in Requests \cup {None}
      BY <1>1, <2>1
    <3>. QED  BY <3>1, <3>2, <3>3 DEF Requests
  <2>5. None \notin Inputs
    BY RequestKinds
  <2>6. ASSUME NEW d \in Conns
        PROVE  /\ req'[d] \in Inputs => job'[d] = req'[d].jid /\ inbox'[d] = None
               /\ d # Control(d[1]) /\ job'[d] = None => req'[d] = None /\ inbox'[d] = None
    BY <1>1, <2>1, <2>2, <2>4, <2>5
  <2>7. ASSUME NEW l \in Clients, phase'[l] \in {"finished", "gone"} PROVE todo'[l] = {}
    BY <1>1, <2>2, <2>7
  <2>. QED  BY <2>6, <2>7
<1>7. CASE Finish(k)
  <2>1. /\ todo[k] = {} /\ phase' \in {[phase EXCEPT ![k] = "finished"], [phase EXCEPT ![k] = "gone"]}
        /\ UNCHANGED <<todo, job, inbox>>
    BY <1>7 DEF Finish
  <2>2. req' = req \/ req' = [req EXCEPT ![Control(k)] = [op |-> "del", cid |-> cid[k]]]
    BY <1>7 DEF Finish, Arrive, vars, handlerVars
  <2>3. [op |-> "del", cid |-> cid[k]] \notin Inputs
    BY DEF Inputs
  <2>4. ASSUME NEW l \in Clients, phase'[l] \in {"finished", "gone"} PROVE todo[l] = {}
    BY <1>1, <2>1, <2>4
  <2>5. ASSUME NEW d \in Conns
        PROVE  /\ req'[d] \in Inputs => job[d] = req'[d].jid /\ inbox[d] = None
               /\ d # Control(d[1]) /\ job[d] = None => req'[d] = None /\ inbox[d] = None
    BY <1>1, <1>2, <2>2, <2>3
  <2>. QED  BY <2>1, <2>4, <2>5
<1>. QED  BY <1>3, <1>4, <1>5, <1>6, <1>7 DEF ClientStep

LEMMA ExchangeNext ==
    ASSUME SystemInv, ExchangeInv, MaxFaults = 0, [SystemNext]_allVars
    PROVE  ExchangeInv'
<1>1. CASE UNCHANGED allVars
  <2>1. UNCHANGED <<phase, todo, job, req, inbox>>
    BY <1>1 DEF allVars, clientVars, vars, handlerVars
  <2>. QED  BY <2>1 DEF ExchangeInv
<1>. QED  BY <1>1, NoFault, ServerKeepsExchange, ClientKeepsExchange DEF SystemNext

(* No two requests for the same job of a command are under way.             *)
LEMMA RequestsAreExclusive == ASSUME SystemInv, ExchangeInv PROVE Exclusive
<1>. SUFFICES ASSUME NEW c \in Conns, NEW d \in Conns, req[c] \in Inputs, req[c] = req[d]
              PROVE  c = d
  BY DEF Exclusive
<1>1. /\ job[c] = req[c].jid /\ job[d] = req[c].jid /\ req[c].jid \in Jids
      /\ req[c].jid # None
  BY ClientsAssumption DEF ExchangeInv, Inputs
<1>2. /\ job[c] \in todo[c[1]] /\ job[d] \in todo[d[1]]
      /\ \A e \in StreamsOf(c[1]) \ {c} : job[e] # job[c]
  BY <1>1 DEF SystemInv, ClientInv, ClientTypeOK
<1>3. /\ Learned(c[1]) /\ Learned(d[1])
      /\ req[c].cid = cid[c[1]] /\ req[c].cid = cid[d[1]]
  BY DEF SystemInv, ClientInv, SentInv
<1>4. c[1] \in Clients /\ d[1] \in Clients /\ d \in StreamsOf(d[1])
  BY Connections
<1>5. phase[c[1]] = "run" /\ phase[d[1]] = "run"
  BY <1>2, <1>3, <1>4 DEF ExchangeInv, Learned
<1>6. Holds(c[1]) /\ Holds(d[1]) /\ Id(c[1]) = Id(d[1])
  BY <1>3, <1>5 DEF Holds, Id
<1>7. c[1] = d[1]
  BY <1>4, <1>6 DEF SystemInv, ClientInv, HoldsInv
<1>. QED  BY <1>1, <1>2, <1>4, <1>7

(* A step of the system is a step of the job server in an environment that  *)
(* sends no job again.                                                      *)
LEMMA EnvironmentStep ==
    ASSUME SystemInv, MaxFaults = 0, Exclusive', [SystemNext]_allVars
    PROVE  [Next]_vars
<1>1. CASE UNCHANGED allVars
  BY <1>1 DEF allVars
<1>2. CASE ServerStep
  BY <1>2 DEF ServerStep, Next
<1>3. ASSUME NEW k \in Clients, Register(k) PROVE Next
  <2>1. ArriveCommand(Control(k)) /\ Control(k) \in Conns
    BY <1>3, Connections DEF Register
  <2>. QED  BY <2>1 DEF Next, Arrivals
<1>4. ASSUME NEW k \in Clients, LearnId(k) PROVE UNCHANGED vars
  BY <1>4 DEF LearnId
<1>5. ASSUME NEW k \in Clients, NEW c \in StreamsOf(k), Submit(c) PROVE Next
  <2>1. c \in Conns /\ c[1] = k /\ phase[k] = "run"
    BY <1>5 DEF StreamsOf, Submit
  <2>2. PICK j \in todo[k] : Arrive(c, [op |-> "inp", cid |-> cid[k], jid |-> j])
    BY <1>5, <2>1 DEF Submit
  <2>. DEFINE r == [op |-> "inp", cid |-> cid[k], jid |-> j]
  <2>3. r \in Inputs
    <3>1. j \in Jids /\ cid[k] \in Cids
      BY <2>1 DEF SystemInv, ClientInv, ClientTypeOK, StartInv
    <3>. QED  BY <3>1 DEF Inputs
  <2>. HIDE DEF r
  <2>4. pc[c] = "idle" /\ req' = [req EXCEPT ![c] = r] /\ Arrive(c, r)
    BY <2>2 DEF Arrive, r
  <2>5. req \in [Conns -> Requests \cup {None}] /\ req[c] = None /\ r # None
    BY <2>1, <2>3, <2>4, RequestKinds
       DEF SystemInv, Inv, Typed, HandlersTyped, ClientInv, IdleInv
  <2>6. ASSUME NEW d \in Conns PROVE req[d] # r
    <3>1. CASE d = c
      BY <2>5, <3>1
    <3>2. CASE d # c
      BY <2>1, <2>3, <2>4, <2>5, <3>2 DEF Exclusive
    <3>. QED  BY <3>1, <3>2
  <2>7. ArriveInput(c)
    BY <2>3, <2>4, <2>6 DEF ArriveInput, Distinct
  <2>. QED  BY <2>1, <2>7 DEF Next, Arrivals
<1>6. ASSUME NEW k \in Clients, NEW c \in StreamsOf(k), Accept(c) PROVE UNCHANGED vars
  BY <1>6 DEF Accept
<1>7. ASSUME NEW k \in Clients, Finish(k) PROVE Next \/ UNCHANGED vars
  <2>1. Control(k) \in Conns /\ cid[k] \in Cids
    BY <1>7, Connections DEF Finish, SystemInv, ClientInv, StartInv
  <2>2. [op |-> "del", cid |-> cid[k]] \in Stops
    BY <2>1 DEF Stops
  <2>3. \/ Arrive(Control(k), [op |-> "del", cid |-> cid[k]])
        \/ UNCHANGED vars
    BY <1>7 DEF Finish
  <2>4. ArriveStop(Control(k)) \/ UNCHANGED vars
    BY <2>2, <2>3 DEF ArriveStop
  <2>. QED  BY <2>1, <2>4 DEF Next, Arrivals
<1>8. ASSUME NEW k \in Clients, ClientStep(k) PROVE Next \/ UNCHANGED vars
  BY <1>3, <1>4, <1>5, <1>6, <1>7, <1>8 DEF ClientStep
<1>. QED  BY <1>1, <1>2, <1>8, NoFault DEF SystemNext

(* As long as no stream is lost and no client crashes, the clients are an   *)
(* environment the job server is made for: the whole is a behaviour of      *)
(* JobServer in which no two requests for a job are under way, and every    *)
(* waiting handler has the token of its own request.                        *)
THEOREM FaultFreeClients == MaxFaults = 0 => (SystemSpec => Spec /\ [](Inv /\ TokenInv))
<1>. SUFFICES ASSUME MaxFaults = 0 PROVE SystemSpec => Spec /\ [](Inv /\ TokenInv)
  OBVIOUS
<1>1. SystemInit => Init /\ TokenInv /\ ExchangeInv
  <2>. SUFFICES ASSUME SystemInit PROVE Init /\ TokenInv /\ ExchangeInv
    OBVIOUS
  <2>1. Init
    BY DEF SystemInit
  <2>2. \A c \in Conns : req[c] = None /\ inbox[c] = None
    BY <2>1 DEF SystemInit, Init
  <2>3. \A k \in Clients : phase[k] = "start"
    BY DEF SystemInit
  <2>4. None \notin Inputs
    BY RequestKinds
  <2>. QED  BY <2>1, <2>2, <2>3, <2>4, TokenInvInit DEF ExchangeInv
<1>2. SystemInv /\ ExchangeInv /\ [SystemNext]_allVars => ExchangeInv'
  BY ExchangeNext
<1>3. SystemInv /\ ExchangeInv => Exclusive
  BY RequestsAreExclusive
<1>4. SystemInv /\ Exclusive' /\ [SystemNext]_allVars => [Next]_vars
  BY EnvironmentStep
<1>5. Inv /\ TokenInv /\ Exclusive' /\ [Next]_vars => TokenInv'
  BY TokenInvNext, TokenInvStutter
<1>6. SystemInv => Inv
  BY DEF SystemInv
<1>. QED  BY <1>1, <1>2, <1>3, <1>4, <1>5, <1>6, SystemInvariance, PTL DEF SystemSpec, Spec

(* Then each handler that waits has exactly one token, its own.             *)
THEOREM FaultFreeTokens == MaxFaults = 0 => (SystemSpec => []WaiterHasItsOneToken)
<1>1. Inv /\ TokenInv => WaiterHasItsOneToken
  BY OneTokenIs
<1>. QED  BY <1>1, FaultFreeClients, PTL

(* And clients and server together implement the abstract service.          *)
THEOREM SystemImplementsService == MaxFaults = 0 => (SystemSpec => ImplementsService)
<1>. SUFFICES ASSUME MaxFaults = 0 PROVE SystemSpec => Service!Spec
  BY DEF ImplementsService
<1>1. Init => Service!Init /\ PlainInv
  BY ServiceInit
<1>2. Inv /\ PlainInv /\ [Next]_vars => PlainInv'
  BY PlainInvNext
<1>3. Inv /\ PlainInv /\ TokenInv /\ [Next]_vars => [Service!Next]_Service!vars
  BY ServiceStep, ServiceStutter
<1>. QED  BY <1>1, <1>2, <1>3, FaultFreeClients, PTL DEF Spec, Service!Spec

=============================================================================
