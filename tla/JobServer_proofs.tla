--------------------------- MODULE JobServer_proofs ---------------------------
(***************************************************************************)
(* Safety of the job server, for every number of connections, event-loop   *)
(* threads, commands, slots and jobs, whether or not clients send jobs     *)
(* again: the inductive invariant Inv, and what follows from it.  When no  *)
(* client sends a job again while the server is still running it           *)
(* (~Overlap), every waiting handler has exactly one token, its own, and   *)
(* the job server implements JobService.                                   *)
(***************************************************************************)
EXTENDS JobServerRefines, Lemmas

-----------------------------------------------------------------------------
(* The inductive invariant, by parts.                                       *)

TableTyped ==
    /\ commands \in Seq(Units \cup {None})
    /\ readers \subseteq Conns
    /\ writer \in Conns \cup {None}
    /\ workerOf \in [Conns -> Workers]

HandlersTyped ==
    /\ pc \in [Conns -> {"idle", "queued", "register", "submit", "await",
                         "stop", "park", "list"}]
    /\ req \in [Conns -> Requests \cup {None}]
    /\ unit \in [Conns -> Units \cup {None}]

UnitsTyped ==
    /\ inputs \in [Units -> Seq(Tasks)]
    /\ outputs \in [Units -> [Jids -> Results \cup {None}]]
    /\ kill \in [Units -> BOOLEAN]
    /\ parked \in [Units -> Nat]
    /\ slotPc \in [Units -> [Slots -> {"off", "check", "poll", "run"}]]
    /\ running \in [Units -> [Slots -> Tasks \cup {None}]]

Typed == TableTyped /\ HandlersTyped /\ UnitsTyped /\ sent \in Replies \cup {None}

(* A handler holds the lock exactly while it waits under it.                *)
LockInv ==
    /\ \A c \in Conns : c \in readers <=> pc[c] = "await"
    /\ \A c \in Conns : writer = c <=> pc[c] = "park"
    /\ writer # None => readers = {}

(* A handler is where its request leads it.                                 *)
RequestInv ==
    \A c \in Conns :
        /\ pc[c] = "idle" => req[c] = None
        /\ pc[c] \in {"submit", "await"} => req[c] \in Inputs
        /\ pc[c] \in {"stop", "park"} => req[c] \in Stops

(* A handler that registers a unit is the only one that knows it.           *)
HandlerUnitInv ==
    \A c \in Conns :
        /\ pc[c] \in {"register", "await", "park"} <=> unit[c] \in Units
        /\ pc[c] = "register" =>
              unit[c] \notin Registered /\ \A d \in Conns \ {c} : unit[d] # unit[c]

TableInv ==
    \A i, k \in DOMAIN commands :
        (commands[i] = commands[k] /\ commands[i] # None) => i = k

Live(u) == u \in Registered \/ \E c \in Conns : unit[c] = u

Off(u) == {s \in Slots : slotPc[u][s] = "off"}

(* Of a live unit, parked counts the slots that have stopped; they stop only *)
(* when killed, and a killed unit has a StopJob that waits for them.        *)
ThreadInv ==
    \A u \in Units :
        /\ Live(u) => /\ parked[u] = Cardinality(Off(u))
                      /\ Off(u) # {} => kill[u]
                      /\ kill[u] => \E c \in Conns : pc[c] = "park" /\ unit[c] = u
        /\ ~Live(u) => Off(u) = Slots

(* A unit that is not live has counted its slots at most once.              *)
ParkedInv == \A u \in Units : parked[u] <= Cores

RunInv == \A u \in Units, s \in Slots : slotPc[u][s] = "run" <=> running[u][s] # None

Inv ==
    /\ Typed /\ LockInv /\ RequestInv /\ HandlerUnitInv /\ HeldCommandStays
    /\ TableInv /\ ThreadInv /\ ParkedInv /\ RunInv /\ NoWorkWithoutWaiter

-----------------------------------------------------------------------------
(* Types.                                                                   *)

(* Storing a unit keeps the table a sequence, and writes only the entry     *)
(* named.                                                                   *)
LEMMA StoredProperties ==
    ASSUME TableTyped, NEW u \in Units, NEW k \in 1 .. Len(commands) + 1
    PROVE  /\ Stored(k, u) \in Seq(Units \cup {None})
           /\ Stored(k, u)[k] = u
           /\ DOMAIN Stored(k, u) = DOMAIN commands \cup {k}
           /\ \A i \in DOMAIN commands \ {k} : Stored(k, u)[i] = commands[i]
<1>. DEFINE S == Units \cup {None}
            n == Len(commands)
<1>1. commands \in Seq(S) /\ n \in Nat /\ DOMAIN commands = 1 .. n /\ u \in S
  BY LenProperties DEF TableTyped
<1>. HIDE DEF S
<1>2. CASE k <= n
  <2>1. Stored(k, u) = [commands EXCEPT ![k] = u]
    BY <1>2 DEF Stored
  <2>2. k \in 1 .. n
    BY <1>1, <1>2
  <2>3. Stored(k, u) \in Seq(S)
    BY <1>1, <2>1, <2>2, ExceptSeq
  <2>4. DOMAIN Stored(k, u) = DOMAIN commands
    BY <2>1
  <2>5. Stored(k, u)[k] = u /\ \A i \in DOMAIN commands \ {k} : Stored(k, u)[i] = commands[i]
    BY <1>1, <2>1, <2>2
  <2>. QED  BY <1>1, <2>2, <2>3, <2>4, <2>5 DEF S
<1>3. CASE k = n + 1
  <2>0. ~(k <= n)
    BY <1>1, <1>3
  <2>1. Stored(k, u) = Append(commands, u)
    BY <2>0, Zenon DEF Stored
  <2>2. Append(commands, u) \in Seq(S)
    BY <1>1, AppendProperties
  <2>3. Len(Append(commands, u)) = n + 1
    BY <1>1, AppendProperties
  <2>4. DOMAIN Append(commands, u) = 1 .. n + 1
    BY <2>2, <2>3, LenProperties
  <2>5. \A i \in 1 .. n : Append(commands, u)[i] = commands[i]
    BY <1>1, AppendProperties
  <2>6. Append(commands, u)[n + 1] = u
    BY <1>1, AppendProperties
  <2>7. DOMAIN Stored(k, u) = DOMAIN commands \cup {k}
    <3>1. 1 .. n + 1 = (1 .. n) \cup {n + 1}
      BY <1>1
    <3>. QED  BY <1>1, <1>3, <2>1, <2>4, <3>1, Zenon
  <2>8. \A i \in DOMAIN commands \ {k} : Stored(k, u)[i] = commands[i]
    BY <1>1, <2>1, <2>5
  <2>. QED  BY <1>3, <2>1, <2>2, <2>6, <2>7, <2>8 DEF S
<1>. QED  BY <1>1, <1>2, <1>3

(* Clearing an entry, as StopJob does.                                      *)
LEMMA ClearedProperties ==
    ASSUME TableTyped, NEW k \in DOMAIN commands
    PROVE  LET new == [commands EXCEPT ![k] = None] IN
           /\ new \in Seq(Units \cup {None})
           /\ new[k] = None
           /\ DOMAIN new = DOMAIN commands
           /\ \A i \in DOMAIN commands \ {k} : new[i] = commands[i]
  BY ExceptSeq, LenProperties DEF TableTyped

(* A lookup that finds a command finds a registered unit.                   *)
LEMMA LookUpRegistered ==
    ASSUME TableTyped, NEW cid \in Nat, LookUp(cid) # None
    PROVE  /\ LookUp(cid) \in Units
           /\ LookUp(cid) \in Registered
           /\ cid + 1 \in DOMAIN commands
           /\ commands[cid + 1] = LookUp(cid)
<1>1. cid + 1 \in 1 .. Len(commands) /\ LookUp(cid) = commands[cid + 1]
  BY LenProperties DEF TableTyped, LookUp
<1>2. cid + 1 \in DOMAIN commands
  BY <1>1, LenProperties DEF TableTyped
<1>3. commands[cid + 1] \in Units \cup {None}
  BY <1>1, ElementOfSeq DEF TableTyped
<1>. QED  BY <1>1, <1>2, <1>3 DEF Registered

LEMMA TypedInit == ASSUME Init PROVE Typed
<1>. USE ServerAssumption
<1>1. TableTyped
  BY EmptySeq DEF Init, TableTyped
<1>2. HandlersTyped
  BY DEF Init, HandlersTyped
<1>3. UnitsTyped
  BY EmptySeq DEF Init, UnitsTyped
<1>. QED  BY <1>1, <1>2, <1>3 DEF Init, Typed

LEMMA ReplyTypes ==
    ASSUME NEW c \in Conns
    PROVE  /\ \A k \in Nat : [to |-> c, kind |-> "id", cid |-> k] \in Replies
           /\ \A k \in Nat : [to |-> c, kind |-> "deleted", cid |-> k] \in Replies
           /\ \A j \in Jids, d \in Conns :
                 [to |-> c, kind |-> "output", jid |-> j, from |-> d] \in Replies
           /\ \A j \in Jids : [to |-> c, kind |-> "error", jid |-> j] \in Replies
           /\ \A K \in SUBSET Nat :
                 [to |-> c, kind |-> "commands", cids |-> K] \in Replies
           /\ [to |-> c, kind |-> "cores", cores |-> Cores] \in Replies
  BY ServerAssumption DEF Replies

-----------------------------------------------------------------------------
(* The work of a unit, counted.                                             *)

LEMMA WorkIsFinite ==
    ASSUME Typed, NEW u \in Units, NEW j \in Jids
    PROVE  /\ IsFiniteSet(Queued(u, j)) /\ Cardinality(Queued(u, j)) \in Nat
           /\ IsFiniteSet(Busy(u, j)) /\ Cardinality(Busy(u, j)) \in Nat
           /\ IsFiniteSet(Waiting(u, j)) /\ Cardinality(Waiting(u, j)) \in Nat
           /\ TokenCount(u, j) \in Nat
<1>1. IsFiniteSet(Queued(u, j))
  <2>1. DOMAIN inputs[u] = 1 .. Len(inputs[u]) /\ Len(inputs[u]) \in Nat
    BY LenProperties DEF Typed, UnitsTyped
  <2>2. Queued(u, j) \in SUBSET (1 .. Len(inputs[u]))
    BY <2>1 DEF Queued
  <2>3. IsFiniteSet(1 .. Len(inputs[u]))
    <3>1. 1 \in Int /\ Len(inputs[u]) \in Int
      BY <2>1
    <3>. QED  BY <3>1, FS_Interval, Zenon
  <2>. QED  BY <2>2, <2>3, FS_Subset, Zenon
<1>2. IsFiniteSet(Busy(u, j))
  <2>1. Busy(u, j) \in SUBSET (0 .. Cores - 1)
    BY DEF Busy, Slots
  <2>2. IsFiniteSet(0 .. Cores - 1)
    <3>1. 0 \in Int /\ Cores - 1 \in Int
      BY ServerAssumption
    <3>. QED  BY <3>1, FS_Interval, Zenon
  <2>. QED  BY <2>1, <2>2, FS_Subset, Zenon
<1>3. IsFiniteSet(Waiting(u, j))
  <2>1. Waiting(u, j) \in SUBSET Conns
    BY DEF Waiting
  <2>. QED  BY <2>1, FS_Subset, ServerAssumption
<1>4. /\ Cardinality(Queued(u, j)) \in Nat
      /\ Cardinality(Busy(u, j)) \in Nat
      /\ Cardinality(Waiting(u, j)) \in Nat
  BY <1>1, <1>2, <1>3, FS_CardinalityType
<1>. QED  BY <1>1, <1>2, <1>3, <1>4 DEF TokenCount

(* A unit nobody waits for has no work.                                     *)
LEMMA NoWaiterNoWork ==
    ASSUME Typed, NoWorkWithoutWaiter, NEW u \in Units,
           \A c \in Conns : pc[c] = "await" => unit[c] # u
    PROVE  /\ inputs[u] = <<>>
           /\ \A s \in Slots : running[u][s] = None
           /\ \A j \in Jids : Waiting(u, j) = {} /\ ~Ready(u, j)
<1>1. \A j \in Jids : Waiting(u, j) = {}
  BY DEF Waiting
<1>2. ASSUME NEW j \in Jids PROVE Queued(u, j) = {} /\ Busy(u, j) = {} /\ ~Ready(u, j)
  <2>1. Cardinality(Queued(u, j)) + Cardinality(Busy(u, j)) + (IF Ready(u, j) THEN 1 ELSE 0) <= 0
    BY <1>1, FS_EmptySet DEF NoWorkWithoutWaiter, TokenCount
  <2>2. Cardinality(Queued(u, j)) = 0 /\ Cardinality(Busy(u, j)) = 0 /\ ~Ready(u, j)
    BY <2>1, WorkIsFinite
  <2>. QED  BY <2>2, WorkIsFinite, FS_EmptySet
<1>3. inputs[u] \in Seq(Tasks)
  BY DEF Typed, UnitsTyped
<1>4. inputs[u] = <<>>
  <2>1. SUFFICES ASSUME inputs[u] # <<>> PROVE FALSE
    OBVIOUS
  <2>2. Len(inputs[u]) \in Nat \ {0} /\ DOMAIN inputs[u] = 1 .. Len(inputs[u])
    BY <1>3, <2>1, EmptySeq, LenProperties
  <2>3. 1 \in DOMAIN inputs[u] /\ inputs[u][1] \in Tasks
    BY <1>3, <2>2, ElementOfSeq
  <2>4. inputs[u][1].jid \in Jids
    BY <2>3 DEF Tasks
  <2>. QED  BY <1>2, <2>3, <2>4 DEF Queued
<1>5. ASSUME NEW s \in Slots PROVE running[u][s] = None
  <2>1. running[u][s] \in Tasks \cup {None}
    BY DEF Typed, UnitsTyped
  <2>2. running[u][s] \in Tasks => running[u][s].jid \in Jids
    BY DEF Tasks
  <2>. QED  BY <1>2, <2>1, <2>2 DEF Busy
<1>. QED  BY <1>1, <1>2, <1>4, <1>5

(* The slots that have stopped, counted.                                    *)
LEMMA OffIsFinite ==
    ASSUME NEW u \in Units
    PROVE  /\ Off(u) \subseteq Slots
           /\ IsFiniteSet(Slots) /\ Cardinality(Slots) = Cores
           /\ IsFiniteSet(Off(u)) /\ Cardinality(Off(u)) \in Nat
           /\ Cardinality(Off(u)) <= Cores
           /\ Cardinality(Off(u)) = Cores => Off(u) = Slots
<1>1. Off(u) \in SUBSET Slots
  BY DEF Off
<1>2. IsFiniteSet(Slots) /\ Cardinality(Slots) = Cores
  BY FS_Interval, ServerAssumption DEF Slots
<1>. QED  BY <1>1, <1>2, FS_Subset, FS_CardinalityType

-----------------------------------------------------------------------------
(* The initial states.                                                      *)

LEMMA InvInit == ASSUME Init PROVE Inv
<1>. USE ServerAssumption
<1>1. Typed
  BY TypedInit
<1>2. LockInv /\ RequestInv /\ HandlerUnitInv /\ HeldCommandStays /\ TableInv
  BY DEF Init, LockInv, RequestInv, HandlerUnitInv, HeldCommandStays, TableInv
<1>3. ThreadInv /\ ParkedInv
  BY DEF Init, ThreadInv, ParkedInv, Live, Registered, Off
<1>4. RunInv
  BY DEF Init, RunInv
<1>5. NoWorkWithoutWaiter
  <2>1. ASSUME NEW u \in Units, NEW j \in Jids PROVE TokenCount(u, j) = 0
    <3>1. Queued(u, j) = {} /\ Busy(u, j) = {} /\ ~Ready(u, j)
      BY DEF Init, Queued, Busy, Ready
    <3>. QED  BY <3>1, FS_EmptySet DEF TokenCount
  <2>. QED  BY <1>1, <2>1, WorkIsFinite DEF NoWorkWithoutWaiter
<1>. QED  BY <1>1, <1>2, <1>3, <1>4, <1>5 DEF Inv

-----------------------------------------------------------------------------
(* Steps of a handler that touch neither the table, nor a unit, nor what    *)
(* the handler holds.                                                       *)

Free == {"idle", "queued", "submit", "stop", "list"}

LEMMA QuietStep ==
    ASSUME Inv, NEW c \in Conns, NEW p \in Free, NEW r \in Requests \cup {None},
           pc[c] \in Free,
           pc' = [pc EXCEPT ![c] = p],
           req' = [req EXCEPT ![c] = r],
           p = "idle" => r = None,
           p = "submit" => r \in Inputs,
           p = "stop" => r \in Stops,
           unit' = unit,
           sent' \in Replies \cup {None},
           UNCHANGED <<tableVars, workerOf, unitVars>>
    PROVE  Inv'
<1>. USE DEF Inv, Free
<1>1. Typed'
  BY DEF Typed, TableTyped, HandlersTyped, UnitsTyped, tableVars, unitVars
<1>2. \A d \in Conns : d # c => pc'[d] = pc[d] /\ req'[d] = req[d]
  BY DEF Typed, HandlersTyped
<1>3. pc'[c] = p /\ req'[c] = r /\ pc'[c] \notin {"register", "await", "park"}
  BY DEF Typed, HandlersTyped
<1>4. commands' = commands /\ readers' = readers /\ writer' = writer /\ unit' = unit
  BY DEF tableVars
<1>5. inputs' = inputs /\ outputs' = outputs /\ kill' = kill /\ parked' = parked
      /\ slotPc' = slotPc /\ running' = running
  BY DEF unitVars
<1>6. LockInv'
  BY <1>2, <1>3, <1>4 DEF LockInv
<1>7. RequestInv'
  BY <1>2, <1>3 DEF RequestInv
<1>8. HandlerUnitInv'
  BY <1>2, <1>3, <1>4 DEF HandlerUnitInv, Registered
<1>9. HeldCommandStays'
  BY <1>2, <1>3, <1>4 DEF HeldCommandStays, LookUp
<1>10. TableInv'
  BY <1>4 DEF TableInv
<1>11. ThreadInv' /\ ParkedInv' /\ RunInv'
  <2>1. \A u \in Units : Live(u)' = Live(u) /\ Off(u)' = Off(u)
    BY <1>4, <1>5 DEF Live, Registered, Off
  <2>2. \A u \in Units :
            (\E d \in Conns : pc[d] = "park" /\ unit[d] = u)
                => \E d \in Conns : pc'[d] = "park" /\ unit'[d] = u
    BY <1>2, <1>4
  <2>. QED  BY <1>5, <2>1, <2>2 DEF ThreadInv, ParkedInv, RunInv
<1>12. NoWorkWithoutWaiter'
  <2>1. ASSUME NEW u \in Units, NEW j \in Jids
        PROVE  TokenCount(u, j)' = TokenCount(u, j) /\ Waiting(u, j)' = Waiting(u, j)
    <3>1. TokenCount(u, j)' = TokenCount(u, j)
      BY <1>5 DEF TokenCount, Queued, Busy, Ready
    <3>2. Waiting(u, j)' = Waiting(u, j)
      BY <1>2, <1>3, <1>4 DEF Waiting
    <3>. QED  BY <3>1, <3>2
  <2>. QED  BY <2>1 DEF NoWorkWithoutWaiter
<1>. QED  BY <1>1, <1>6, <1>7, <1>8, <1>9, <1>10, <1>11, <1>12

LEMMA ReturnQuietly ==
    ASSUME Inv, NEW c \in Conns, NEW r \in Replies, pc[c] \in Free, Return(c, r),
           UNCHANGED <<tableVars, workerOf, unitVars>>
    PROVE  Inv'
<1>1. unit[c] = None
  BY ServerAssumption DEF Inv, HandlerUnitInv, Free, Typed, HandlersTyped
<1>2. unit' = unit
  BY <1>1 DEF Return, Inv, Typed, HandlersTyped
<1>3. /\ pc' = [pc EXCEPT ![c] = "idle"]
      /\ req' = [req EXCEPT ![c] = None]
      /\ sent' = r
  BY DEF Return
<1>. QED  BY <1>2, <1>3, QuietStep DEF Free

LEMMA ArrivalStep == ASSUME Inv, NEW c \in Conns, Arrivals(c) PROVE Inv'
<1>1. ASSUME NEW r \in Requests, Arrive(c, r) PROVE Inv'
  <2>1. /\ pc[c] \in Free /\ pc' = [pc EXCEPT ![c] = "queued"]
        /\ req' = [req EXCEPT ![c] = r] /\ unit' = unit /\ sent' = None
        /\ UNCHANGED <<tableVars, workerOf, unitVars>>
    BY <1>1 DEF Arrive, Free
  <2>. QED  BY <2>1, QuietStep DEF Free
<1>2. CASE ArriveCommand(c) \/ ArriveQuery(c)
  BY <1>1, <1>2 DEF ArriveCommand, ArriveQuery, Requests, Plain
<1>3. CASE ArriveInput(c) \/ ArriveStop(c)
  BY <1>1, <1>3 DEF ArriveInput, ArriveStop, Requests
<1>. QED  BY <1>2, <1>3 DEF Arrivals

LEMMA TakeStep ==
    ASSUME Inv, NEW c \in Conns, TakeInput(c) \/ TakeStop(c) \/ TakeList(c)
    PROVE  Inv'
<1>1. PICK p \in {"submit", "stop", "list"} :
          /\ pc[c] = "queued" /\ pc' = [pc EXCEPT ![c] = p]
          /\ p = "submit" => req[c] \in Inputs
          /\ p = "stop" => req[c] \in Stops
          /\ req' = req /\ unit' = unit /\ sent' = None
          /\ UNCHANGED <<tableVars, workerOf, unitVars>>
  BY DEF TakeInput, TakeStop, TakeList
<1>2. req' = [req EXCEPT ![c] = req[c]] /\ req[c] \in Requests \cup {None}
  BY <1>1 DEF Inv, Typed, HandlersTyped
<1>. QED  BY <1>1, <1>2, QuietStep DEF Free

LEMMA AnswerAtOnceStep ==
    ASSUME Inv, NEW c \in Conns,
           RejectInput(c) \/ StopNothing(c) \/ ReportCores(c) \/ ListCommands(c)
    PROVE  Inv'
<1>1. CASE RejectInput(c)
  <2>1. req[c].jid \in Jids
    BY <1>1 DEF RejectInput, Inv, RequestInv, Inputs
  <2>. QED  BY <1>1, <2>1, ReplyTypes, ReturnQuietly DEF RejectInput, Free
<1>2. CASE StopNothing(c)
  <2>1. req[c].cid \in Nat
    BY <1>2, ServerAssumption DEF StopNothing, Inv, RequestInv, Stops
  <2>. QED  BY <1>2, <2>1, ReplyTypes, ReturnQuietly DEF StopNothing, Free
<1>3. CASE ReportCores(c)
  BY <1>3, ReplyTypes, ReturnQuietly DEF ReportCores, Free
<1>4. CASE ListCommands(c)
  <2>1. {k - 1 : k \in {i \in DOMAIN commands : commands[i] # None}} \in SUBSET Nat
    <3>1. DOMAIN commands = 1 .. Len(commands) /\ Len(commands) \in Nat
      BY LenProperties DEF Inv, Typed, TableTyped
    <3>. QED  BY <3>1
  <2>. QED  BY <1>4, <2>1, ReplyTypes, ReturnQuietly DEF ListCommands, Free
<1>. QED  BY <1>1, <1>2, <1>3, <1>4

-----------------------------------------------------------------------------
(* Steps of a handler that change what is shared.                           *)

LEMMA SpawnSlotsStep == ASSUME Inv, NEW c \in Conns, SpawnSlots(c) PROVE Inv'
<1>. USE DEF Inv
<1>1. PICK u \in Units :
          /\ Unused(u)
          /\ unit' = [unit EXCEPT ![c] = u]
          /\ inputs' = [inputs EXCEPT ![u] = <<>>]
          /\ outputs' = [outputs EXCEPT ![u] = [j \in Jids |-> None]]
          /\ kill' = [kill EXCEPT ![u] = FALSE]
          /\ parked' = [parked EXCEPT ![u] = 0]
          /\ slotPc' = [slotPc EXCEPT ![u] = [s \in Slots |-> "check"]]
  BY DEF SpawnSlots
<1>2. /\ pc[c] = "queued" /\ pc' = [pc EXCEPT ![c] = "register"]
      /\ sent' = None /\ req' = req /\ workerOf' = workerOf /\ running' = running
      /\ commands' = commands /\ readers' = readers /\ writer' = writer
  BY DEF SpawnSlots, tableVars
<1>3. /\ pc'[c] = "register" /\ unit'[c] = u
      /\ \A d \in Conns : d # c => pc'[d] = pc[d] /\ unit'[d] = unit[d]
  BY <1>1, <1>2 DEF Typed, HandlersTyped
<1>4. Registered' = Registered
  BY <1>2 DEF Registered
<1>5. Typed'
  BY <1>1, <1>2, EmptySeq DEF Typed, TableTyped, HandlersTyped, UnitsTyped
<1>6. LockInv'
  BY <1>2, <1>3 DEF LockInv
<1>7. RequestInv'
  BY <1>2, <1>3 DEF RequestInv
<1>8. HandlerUnitInv'
  BY <1>1, <1>2, <1>3, <1>4 DEF HandlerUnitInv, Unused
<1>9. HeldCommandStays'
  BY <1>2, <1>3 DEF HeldCommandStays, LookUp
<1>10. TableInv'
  BY <1>2 DEF TableInv
<1>11. ThreadInv'
  <2>1. unit[c] \notin Units
    BY <1>2 DEF HandlerUnitInv
  <2>2. ASSUME NEW v \in Units, v # u
        PROVE  /\ Live(v)' = Live(v) /\ Off(v)' = Off(v)
               /\ kill'[v] = kill[v] /\ parked'[v] = parked[v]
    <3>1. Live(v)' = Live(v)
      BY <1>3, <1>4, <2>1, <2>2 DEF Live
    <3>2. Off(v)' = Off(v)
      BY <1>1, <2>2 DEF Off
    <3>. QED  BY <1>1, <2>2, <3>1, <3>2
  <2>3. \A v \in Units :
            (\E d \in Conns : pc[d] = "park" /\ unit[d] = v)
                => \E d \in Conns : pc'[d] = "park" /\ unit'[d] = v
    BY <1>2, <1>3
  <2>4. Live(u)' /\ Off(u)' = {} /\ ~kill'[u] /\ parked'[u] = 0
    BY <1>1, <1>3 DEF Live, Off, Typed, UnitsTyped
  <2>. QED  BY <2>2, <2>3, <2>4, FS_EmptySet DEF ThreadInv
<1>12. ParkedInv'
  BY <1>1, ServerAssumption DEF ParkedInv, Typed, UnitsTyped
<1>13. RunInv'
  BY <1>1, <1>2 DEF RunInv, Unused, Typed, UnitsTyped
<1>14. NoWorkWithoutWaiter'
  <2>1. /\ inputs[u] = <<>>
        /\ \A s \in Slots : running[u][s] = None
        /\ \A j \in Jids : Waiting(u, j) = {} /\ ~Ready(u, j)
    BY <1>1, NoWaiterNoWork DEF Unused
  <2>2. \A j \in Jids : outputs[u][j] = None
    BY <2>1 DEF Ready
  <2>3. inputs' = inputs /\ outputs' = outputs
    BY <1>1, <2>1, <2>2 DEF Typed, UnitsTyped
  <2>4. ASSUME NEW v \in Units, NEW j \in Jids
        PROVE  TokenCount(v, j)' = TokenCount(v, j) /\ Waiting(v, j)' = Waiting(v, j)
    <3>1. TokenCount(v, j)' = TokenCount(v, j)
      BY <1>2, <2>3 DEF TokenCount, Queued, Busy, Ready
    <3>2. Waiting(v, j)' = Waiting(v, j)
      BY <1>2, <1>3 DEF Waiting
    <3>. QED  BY <3>1, <3>2
  <2>. QED  BY <2>4 DEF NoWorkWithoutWaiter
<1>. QED  BY <1>5, <1>6, <1>7, <1>8, <1>9, <1>10, <1>11, <1>12, <1>13, <1>14

LEMMA RegisterCommandStep == ASSUME Inv, NEW c \in Conns, RegisterCommand(c) PROVE Inv'
<1>. USE DEF Inv
<1>. DEFINE u == unit[c]
<1>1. PICK k \in 1 .. Len(commands) + 1 :
          /\ FirstVacant(k)
          /\ commands' = Stored(k, u)
          /\ Return(c, [to |-> c, kind |-> "id", cid |-> k - 1])
  BY DEF RegisterCommand
<1>2. /\ pc[c] = "register" /\ readers = {} /\ writer = None
      /\ readers' = readers /\ writer' = writer /\ workerOf' = workerOf
      /\ inputs' = inputs /\ outputs' = outputs /\ kill' = kill /\ parked' = parked
      /\ slotPc' = slotPc /\ running' = running
  BY DEF RegisterCommand, CanWrite, unitVars
<1>3. /\ pc'[c] = "idle" /\ unit'[c] = None /\ req'[c] = None
      /\ \A d \in Conns : d # c => pc'[d] = pc[d] /\ unit'[d] = unit[d] /\ req'[d] = req[d]
      /\ pc' = [pc EXCEPT ![c] = "idle"] /\ unit' = [unit EXCEPT ![c] = None]
      /\ req' = [req EXCEPT ![c] = None]
      /\ sent' = [to |-> c, kind |-> "id", cid |-> k - 1]
  BY <1>1 DEF Return, Typed, HandlersTyped
<1>4. /\ u \in Units /\ u # None /\ u \notin Registered
      /\ \A d \in Conns \ {c} : unit[d] # u
  BY <1>2, ServerAssumption DEF HandlerUnitInv
<1>5. Len(commands) \in Nat /\ DOMAIN commands = 1 .. Len(commands)
  BY LenProperties DEF Typed, TableTyped
<1>6. /\ commands' \in Seq(Units \cup {None})
      /\ commands'[k] = u
      /\ DOMAIN commands' = DOMAIN commands \cup {k}
      /\ \A i \in DOMAIN commands \ {k} : commands'[i] = commands[i]
  <2>1. TableTyped /\ u \in Units
    BY <1>4 DEF Typed
  <2>2. /\ Stored(k, u) \in Seq(Units \cup {None})
        /\ Stored(k, u)[k] = u
        /\ DOMAIN Stored(k, u) = DOMAIN commands \cup {k}
        /\ \A i \in DOMAIN commands \ {k} : Stored(k, u)[i] = commands[i]
    BY <2>1, StoredProperties, Zenon
  <2>. QED  BY <1>1, <2>2, Zenon
<1>7. k \in DOMAIN commands => commands[k] = None
  BY <1>1, <1>5 DEF FirstVacant
<1>8. Registered' = Registered \cup {u}
  <2>1. ASSUME NEW v PROVE v \in Registered' <=> v \in Registered \cup {u}
    BY <1>4, <1>6, <1>7 DEF Registered
  <2>. QED  BY <2>1
<1>9. Typed'
  <2>1. TableTyped'
    BY <1>2, <1>6 DEF Typed, TableTyped
  <2>2. HandlersTyped' /\ UnitsTyped'
    BY <1>2, <1>3 DEF Typed, HandlersTyped, UnitsTyped
  <2>3. k - 1 \in Nat
    BY <1>5
  <2>4. [to |-> c, kind |-> "id", cid |-> k - 1] \in Replies
    BY <2>3, ReplyTypes, Zenon
  <2>. QED  BY <1>3, <2>1, <2>2, <2>4 DEF Typed
<1>10. \A d \in Conns : pc[d] # "await" /\ pc[d] # "park"
  BY <1>2, ServerAssumption DEF LockInv
<1>11. LockInv'
  BY <1>2, <1>3 DEF LockInv
<1>12. RequestInv'
  BY <1>3 DEF RequestInv
<1>13. HandlerUnitInv'
  <2>1. \A d \in Conns : d # c /\ pc[d] = "register" => unit[d] \notin Registered'
    BY <1>4, <1>8 DEF HandlerUnitInv
  <2>2. None \notin Units
    BY ServerAssumption
  <2>. QED  BY <1>3, <2>1, <2>2 DEF HandlerUnitInv
<1>14. HeldCommandStays'
  BY <1>3, <1>10 DEF HeldCommandStays
<1>15. TableInv'
  <2>1. \A i \in DOMAIN commands : commands[i] # u
    BY <1>4 DEF Registered
  <2>. QED  BY <1>6, <2>1 DEF TableInv
<1>16. ThreadInv' /\ ParkedInv' /\ RunInv'
  <2>1. \A v \in Units : Live(v)' = Live(v)
    BY <1>3, <1>4, <1>8, ServerAssumption DEF Live
  <2>2. \A v \in Units : Off(v)' = Off(v)
    BY <1>2 DEF Off
  <2>. QED  BY <1>2, <1>3, <1>10, <2>1, <2>2 DEF ThreadInv, ParkedInv, RunInv
<1>17. NoWorkWithoutWaiter'
  <2>1. ASSUME NEW v \in Units, NEW j \in Jids
        PROVE  TokenCount(v, j)' = TokenCount(v, j) /\ Waiting(v, j)' = Waiting(v, j)
    <3>1. TokenCount(v, j)' = TokenCount(v, j)
      BY <1>2 DEF TokenCount, Queued, Busy, Ready
    <3>2. Waiting(v, j)' = Waiting(v, j)
      BY <1>3, <1>10 DEF Waiting
    <3>. QED  BY <3>1, <3>2
  <2>. QED  BY <2>1 DEF NoWorkWithoutWaiter
<1>. QED  BY <1>9, <1>11, <1>12, <1>13, <1>14, <1>15, <1>16, <1>17

LEMMA SubmitInputStep == ASSUME Inv, NEW c \in Conns, SubmitInput(c) PROVE Inv'
<1>. USE DEF Inv
<1>. DEFINE u == LookUp(req[c].cid)
            t == [jid |-> req[c].jid, from |-> c]
<1>1. /\ pc[c] = "submit" /\ writer = None /\ u # None
      /\ readers' = readers \cup {c}
      /\ inputs' = [inputs EXCEPT ![u] = Append(inputs[u], t)]
      /\ unit' = [unit EXCEPT ![c] = u] /\ pc' = [pc EXCEPT ![c] = "await"]
      /\ sent' = None /\ commands' = commands /\ writer' = writer
      /\ workerOf' = workerOf /\ req' = req /\ outputs' = outputs /\ kill' = kill
      /\ parked' = parked /\ slotPc' = slotPc /\ running' = running
  BY DEF SubmitInput, CanRead, KeepReadLock
<1>2. req[c] \in Inputs /\ req[c].cid \in Nat /\ req[c].jid \in Jids
  BY <1>1, ServerAssumption DEF RequestInv, Inputs
<1>3. u \in Units /\ u \in Registered /\ t \in Tasks
  BY <1>1, <1>2, LookUpRegistered DEF Typed, Tasks
<1>. HIDE DEF u
<1>4. /\ pc'[c] = "await" /\ unit'[c] = u
      /\ \A d \in Conns : d # c => pc'[d] = pc[d] /\ unit'[d] = unit[d]
  BY <1>1 DEF Typed, HandlersTyped
<1>5. inputs[u] \in Seq(Tasks)
  BY <1>3 DEF Typed, UnitsTyped
<1>6. Append(inputs[u], t) \in Seq(Tasks)
  BY <1>3, <1>5, AppendProperties
<1>7. Typed'
  <2>1. TableTyped' /\ HandlersTyped'
    BY <1>1, <1>3 DEF Typed, TableTyped, HandlersTyped
  <2>2. UnitsTyped'
    BY <1>1, <1>6 DEF Typed, UnitsTyped
  <2>. QED  BY <1>1, <2>1, <2>2 DEF Typed
<1>8. LockInv'
  BY <1>1, <1>4 DEF LockInv
<1>9. RequestInv'
  BY <1>1, <1>2, <1>4 DEF RequestInv
<1>10. HandlerUnitInv'
  BY <1>1, <1>3, <1>4 DEF HandlerUnitInv, Registered
<1>11. HeldCommandStays'
  BY <1>1, <1>4 DEF HeldCommandStays, LookUp, u
<1>12. TableInv'
  BY <1>1 DEF TableInv
<1>13. ThreadInv' /\ ParkedInv' /\ RunInv'
  <2>1. unit[c] \notin Units
    BY <1>1 DEF HandlerUnitInv
  <2>2. \A v \in Units : Live(v)' = Live(v)
    BY <1>1, <1>3, <1>4, <2>1 DEF Live, Registered
  <2>3. \A v \in Units : Off(v)' = Off(v)
    BY <1>1 DEF Off
  <2>4. \A v \in Units :
            (\E d \in Conns : pc[d] = "park" /\ unit[d] = v)
                => \E d \in Conns : pc'[d] = "park" /\ unit'[d] = v
    BY <1>1, <1>4
  <2>. QED  BY <1>1, <2>2, <2>3, <2>4 DEF ThreadInv, ParkedInv, RunInv
<1>14. NoWorkWithoutWaiter'
  <2>. SUFFICES ASSUME NEW v \in Units, NEW j \in Jids
                PROVE  TokenCount(v, j)' <= Cardinality(Waiting(v, j))'
    BY DEF NoWorkWithoutWaiter
  <2>0. /\ Len(inputs[u]) \in Nat /\ DOMAIN inputs[u] = 1 .. Len(inputs[u])
        /\ DOMAIN Append(inputs[u], t) = 1 .. Len(inputs[u]) + 1
        /\ \A i \in 1 .. Len(inputs[u]) : Append(inputs[u], t)[i] = inputs[u][i]
        /\ Append(inputs[u], t)[Len(inputs[u]) + 1] = t
    <3>1. Len(Append(inputs[u], t)) = Len(inputs[u]) + 1
      BY <1>3, <1>5, AppendProperties
    <3>. QED  BY <1>3, <1>5, <1>6, <3>1, AppendProperties, LenProperties
  <2>1. TokenCount(v, j) <= Cardinality(Waiting(v, j))
    BY DEF NoWorkWithoutWaiter
  <2>2. Busy(v, j)' = Busy(v, j) /\ Ready(v, j)' = Ready(v, j)
    BY <1>1 DEF Busy, Ready
  <2>3. CASE v = u /\ j = req[c].jid
    <3>1. Queued(v, j)' = Queued(v, j) \cup {Len(inputs[u]) + 1}
      <4>1. inputs'[v] = Append(inputs[u], t) /\ t.jid = j
        BY <1>1, <1>3, <2>3 DEF Typed, UnitsTyped
      <4>. HIDE DEF t
      <4>. QED  BY <2>0, <4>1, <2>3 DEF Queued
    <3>2. Len(inputs[u]) + 1 \notin Queued(v, j)
      BY <1>5, <2>3, LenProperties DEF Queued
    <3>3. Cardinality(Queued(v, j))' = Cardinality(Queued(v, j)) + 1
      <4>1. IsFiniteSet(Queued(v, j))
        BY WorkIsFinite, Zenon
      <4>. QED  BY <3>1, <3>2, <4>1, WithOneMore, Zenon
    <3>4. Waiting(v, j)' = Waiting(v, j) \cup {c} /\ c \notin Waiting(v, j)
      BY <1>1, <1>4, <2>3 DEF Waiting
    <3>5. Cardinality(Waiting(v, j))' = Cardinality(Waiting(v, j)) + 1
      <4>1. IsFiniteSet(Waiting(v, j))
        BY WorkIsFinite, Zenon
      <4>. QED  BY <3>4, <4>1, WithOneMore, Zenon
    <3>. QED  BY <2>1, <2>2, <3>3, <3>5, WorkIsFinite DEF TokenCount
  <2>4. CASE ~(v = u /\ j = req[c].jid)
    <3>1. Waiting(v, j)' = Waiting(v, j)
      BY <1>1, <1>4, <2>4 DEF Waiting
    <3>2. Queued(v, j)' = Queued(v, j)
      <4>1. CASE v # u
        BY <1>1, <1>3, <4>1 DEF Queued, Typed, UnitsTyped
      <4>2. CASE v = u
        <5>1. inputs'[v] = Append(inputs[u], t) /\ t.jid # j
          BY <1>1, <1>3, <2>4, <4>2 DEF Typed, UnitsTyped
        <5>. HIDE DEF t
        <5>. QED  BY <2>0, <4>2, <5>1 DEF Queued
      <4>. QED  BY <4>1, <4>2
    <3>. QED  BY <2>1, <2>2, <3>1, <3>2 DEF TokenCount
  <2>. QED  BY <2>3, <2>4
<1>. QED  BY <1>7, <1>8, <1>9, <1>10, <1>11, <1>12, <1>13, <1>14

LEMMA AnswerInputStep == ASSUME Inv, NEW c \in Conns, AnswerInput(c) PROVE Inv'
<1>. USE DEF Inv
<1>. DEFINE u == unit[c]
            j == req[c].jid
<1>1. /\ pc[c] = "await" /\ outputs[u][j] # None
      /\ outputs' = [outputs EXCEPT ![u][j] = None]
      /\ readers' = readers \ {c}
      /\ commands' = commands /\ writer' = writer /\ workerOf' = workerOf
      /\ inputs' = inputs /\ kill' = kill /\ parked' = parked
      /\ slotPc' = slotPc /\ running' = running
  BY DEF AnswerInput
<1>2. /\ pc'[c] = "idle" /\ unit'[c] = None /\ req'[c] = None
      /\ \A d \in Conns : d # c => pc'[d] = pc[d] /\ unit'[d] = unit[d] /\ req'[d] = req[d]
      /\ pc' = [pc EXCEPT ![c] = "idle"] /\ unit' = [unit EXCEPT ![c] = None]
      /\ req' = [req EXCEPT ![c] = None]
  BY DEF AnswerInput, Return, Typed, HandlersTyped
<1>3. /\ u \in Units /\ u # None /\ j \in Jids /\ req[c].cid \in Nat
      /\ LookUp(req[c].cid) = u
  BY <1>1, ServerAssumption DEF HandlerUnitInv, RequestInv, HeldCommandStays, Inputs
<1>4. u \in Registered
  BY <1>3, LookUpRegistered DEF Typed
<1>5. outputs[u][j] \in Results
  BY <1>1, <1>3 DEF Typed, UnitsTyped
<1>6. sent' \in Replies
  <2>1. outputs[u][j].from \in Conns
    BY <1>5 DEF Results
  <2>2. /\ [to |-> c, kind |-> "output", jid |-> j, from |-> outputs[u][j].from] \in Replies
        /\ [to |-> c, kind |-> "error", jid |-> j] \in Replies
    BY <1>3, <2>1, ReplyTypes, Zenon
  <2>. QED  BY <2>2 DEF AnswerInput, Return
<1>7. Typed'
  <2>1. TableTyped'
    BY <1>1 DEF Typed, TableTyped
  <2>2. HandlersTyped' /\ UnitsTyped'
    BY <1>1, <1>2 DEF Typed, HandlersTyped, UnitsTyped
  <2>. QED  BY <1>6, <2>1, <2>2 DEF Typed
<1>. HIDE DEF u, j
<1>8. LockInv'
  BY <1>1, <1>2 DEF LockInv
<1>9. RequestInv'
  BY <1>2 DEF RequestInv
<1>10. HandlerUnitInv'
  BY <1>1, <1>2, ServerAssumption DEF HandlerUnitInv, Registered
<1>11. HeldCommandStays'
  BY <1>1, <1>2 DEF HeldCommandStays, LookUp
<1>12. TableInv'
  BY <1>1 DEF TableInv
<1>13. ThreadInv' /\ ParkedInv' /\ RunInv'
  <2>1. \A v \in Units : Live(v)' = Live(v)
    BY <1>1, <1>2, <1>4, ServerAssumption DEF Live, Registered, u
  <2>2. \A v \in Units : Off(v)' = Off(v)
    BY <1>1 DEF Off
  <2>3. \A v \in Units :
            (\E d \in Conns : pc[d] = "park" /\ unit[d] = v)
                => \E d \in Conns : pc'[d] = "park" /\ unit'[d] = v
    BY <1>1, <1>2
  <2>. QED  BY <1>1, <2>1, <2>2, <2>3 DEF ThreadInv, ParkedInv, RunInv
<1>14. NoWorkWithoutWaiter'
  <2>. SUFFICES ASSUME NEW v \in Units, NEW i \in Jids
                PROVE  TokenCount(v, i)' <= Cardinality(Waiting(v, i))'
    BY DEF NoWorkWithoutWaiter
  <2>1. TokenCount(v, i) <= Cardinality(Waiting(v, i))
    BY DEF NoWorkWithoutWaiter
  <2>2. Busy(v, i)' = Busy(v, i) /\ Queued(v, i)' = Queued(v, i)
    BY <1>1 DEF Busy, Queued
  <2>3. CASE v = u /\ i = j
    <3>1. Ready(v, i) /\ ~Ready(v, i)'
      BY <1>1, <1>3, <2>3 DEF Ready, Typed, UnitsTyped
    <3>2. Waiting(v, i)' = Waiting(v, i) \ {c} /\ c \in Waiting(v, i)
      BY <1>1, <1>2, <2>3 DEF Waiting, u, j
    <3>3. Cardinality(Waiting(v, i))' = Cardinality(Waiting(v, i)) - 1
      <4>1. IsFiniteSet(Waiting(v, i))
        BY WorkIsFinite, Zenon
      <4>. QED  BY <3>2, <4>1, WithOneLess, Zenon
    <3>. QED  BY <2>1, <2>2, <3>1, <3>3, WorkIsFinite DEF TokenCount
  <2>4. CASE ~(v = u /\ i = j)
    <3>1. Ready(v, i)' = Ready(v, i)
      BY <1>1, <1>3, <2>4 DEF Ready, Typed, UnitsTyped
    <3>2. Waiting(v, i)' = Waiting(v, i)
      BY <1>1, <1>2, <2>4 DEF Waiting, u, j
    <3>. QED  BY <2>1, <2>2, <3>1, <3>2 DEF TokenCount
  <2>. QED  BY <2>3, <2>4
<1>. QED  BY <1>7, <1>8, <1>9, <1>10, <1>11, <1>12, <1>13, <1>14

LEMMA SignalKillStep == ASSUME Inv, NEW c \in Conns, SignalKill(c) PROVE Inv'
<1>. USE DEF Inv
<1>. DEFINE u == LookUp(req[c].cid)
<1>1. /\ pc[c] = "stop" /\ readers = {} /\ writer = None /\ u # None
      /\ writer' = c /\ kill' = [kill EXCEPT ![u] = TRUE]
      /\ unit' = [unit EXCEPT ![c] = u] /\ pc' = [pc EXCEPT ![c] = "park"]
      /\ sent' = None /\ commands' = commands /\ readers' = readers
      /\ workerOf' = workerOf /\ req' = req /\ inputs' = inputs /\ outputs' = outputs
      /\ parked' = parked /\ slotPc' = slotPc /\ running' = running
  BY DEF SignalKill, CanWrite
<1>2. req[c] \in Stops /\ req[c].cid \in Nat
  BY <1>1, ServerAssumption DEF RequestInv, Stops
<1>3. u \in Units /\ u \in Registered
  BY <1>1, <1>2, LookUpRegistered DEF Typed
<1>. HIDE DEF u
<1>4. /\ pc'[c] = "park" /\ unit'[c] = u
      /\ \A d \in Conns : d # c => pc'[d] = pc[d] /\ unit'[d] = unit[d]
  BY <1>1 DEF Typed, HandlersTyped
<1>5. \A d \in Conns : pc[d] # "await" /\ pc[d] # "park"
  BY <1>1, ServerAssumption DEF LockInv
<1>6. Typed'
  BY <1>1, <1>3 DEF Typed, TableTyped, HandlersTyped, UnitsTyped
<1>7. LockInv'
  BY <1>1, <1>4, <1>5 DEF LockInv
<1>8. RequestInv'
  BY <1>1, <1>2, <1>4 DEF RequestInv
<1>9. HandlerUnitInv'
  BY <1>1, <1>3, <1>4 DEF HandlerUnitInv, Registered
<1>10. HeldCommandStays'
  BY <1>1, <1>4, <1>5 DEF HeldCommandStays, LookUp, u
<1>11. TableInv'
  BY <1>1 DEF TableInv
<1>12. ThreadInv' /\ ParkedInv' /\ RunInv'
  <2>1. unit[c] \notin Units
    BY <1>1 DEF HandlerUnitInv
  <2>2. \A v \in Units : Live(v)' = Live(v)
    BY <1>1, <1>3, <1>4, <2>1 DEF Live, Registered
  <2>3. \A v \in Units : Off(v)' = Off(v)
    BY <1>1 DEF Off
  <2>4. kill'[u] /\ \A v \in Units : v # u => kill'[v] = kill[v]
    BY <1>1, <1>3 DEF Typed, UnitsTyped
  <2>. QED  BY <1>1, <1>4, <1>5, <2>2, <2>3, <2>4 DEF ThreadInv, ParkedInv, RunInv
<1>13. NoWorkWithoutWaiter'
  <2>1. ASSUME NEW v \in Units, NEW j \in Jids
        PROVE  TokenCount(v, j)' = TokenCount(v, j) /\ Waiting(v, j)' = Waiting(v, j)
    <3>1. TokenCount(v, j)' = TokenCount(v, j)
      BY <1>1 DEF TokenCount, Queued, Busy, Ready
    <3>2. Waiting(v, j)' = Waiting(v, j)
      BY <1>1, <1>4 DEF Waiting
    <3>. QED  BY <3>1, <3>2
  <2>. QED  BY <2>1 DEF NoWorkWithoutWaiter
<1>. QED  BY <1>6, <1>7, <1>8, <1>9, <1>10, <1>11, <1>12, <1>13

LEMMA RemoveCommandStep == ASSUME Inv, NEW c \in Conns, RemoveCommand(c) PROVE Inv'
<1>. USE DEF Inv
<1>. DEFINE u == unit[c]
            k == req[c].cid + 1
<1>1. /\ pc[c] = "park" /\ parked[u] = Cores
      /\ commands' = [commands EXCEPT ![k] = None]
      /\ writer' = None /\ readers' = readers /\ workerOf' = workerOf
      /\ inputs' = inputs /\ outputs' = outputs /\ kill' = kill /\ parked' = parked
      /\ slotPc' = slotPc /\ running' = running
  BY DEF RemoveCommand, AllParked, unitVars
<1>2. /\ pc'[c] = "idle" /\ unit'[c] = None /\ req'[c] = None
      /\ \A d \in Conns : d # c => pc'[d] = pc[d] /\ unit'[d] = unit[d] /\ req'[d] = req[d]
      /\ pc' = [pc EXCEPT ![c] = "idle"] /\ unit' = [unit EXCEPT ![c] = None]
      /\ req' = [req EXCEPT ![c] = None]
      /\ sent' = [to |-> c, kind |-> "deleted", cid |-> req[c].cid]
  BY DEF RemoveCommand, Return, Typed, HandlersTyped
<1>3. /\ u \in Units /\ u # None /\ req[c].cid \in Nat /\ LookUp(req[c].cid) = u
  BY <1>1, ServerAssumption DEF HandlerUnitInv, RequestInv, HeldCommandStays, Stops
<1>4. u \in Registered /\ k \in DOMAIN commands /\ commands[k] = u
  BY <1>3, LookUpRegistered DEF Typed
<1>5. /\ writer = c /\ readers = {}
      /\ \A d \in Conns : pc[d] # "await" /\ (pc[d] = "park" => d = c)
  BY <1>1, ServerAssumption DEF LockInv
<1>6. /\ commands' \in Seq(Units \cup {None})
      /\ commands'[k] = None
      /\ DOMAIN commands' = DOMAIN commands
      /\ \A i \in DOMAIN commands \ {k} : commands'[i] = commands[i]
  BY <1>1, <1>4, ClearedProperties DEF Typed
<1>7. Registered' = Registered \ {u}
  <2>1. ASSUME NEW v PROVE v \in Registered' <=> v \in Registered \ {u}
    BY <1>3, <1>4, <1>6 DEF Registered, TableInv
  <2>. QED  BY <2>1
<1>8. Typed'
  <2>1. TableTyped'
    BY <1>1, <1>6 DEF Typed, TableTyped
  <2>2. HandlersTyped' /\ UnitsTyped'
    BY <1>1, <1>2 DEF Typed, HandlersTyped, UnitsTyped
  <2>3. sent' \in Replies
    BY <1>2, <1>3, ReplyTypes, Zenon
  <2>. QED  BY <2>1, <2>2, <2>3 DEF Typed
<1>9. LockInv'
  BY <1>1, <1>2, <1>5, ServerAssumption DEF LockInv
<1>10. RequestInv'
  BY <1>2 DEF RequestInv
<1>11. HandlerUnitInv'
  BY <1>2, <1>7, ServerAssumption DEF HandlerUnitInv
<1>12. HeldCommandStays'
  BY <1>2, <1>5 DEF HeldCommandStays
<1>13. TableInv'
  BY <1>6 DEF TableInv
<1>14. ThreadInv' /\ ParkedInv' /\ RunInv'
  <2>1. ASSUME NEW v \in Units, v # u PROVE Live(v)' = Live(v)
    BY <1>2, <1>7, <2>1, ServerAssumption DEF Live
  <2>2. ASSUME NEW v \in Units, v = u PROVE ~Live(v)' /\ Off(v) = Slots
    <3>1. \A d \in Conns : d # c => unit[d] # v
      BY <1>3, <1>4, <1>5, <2>2 DEF HandlerUnitInv
    <3>2. ~Live(v)'
      BY <1>2, <1>3, <1>7, <2>2, <3>1 DEF Live
    <3>3. parked[v] = Cores /\ parked[v] = Cardinality(Off(v))
      BY <1>1, <1>4, <2>2 DEF ThreadInv, Live
    <3>. QED  BY <3>2, <3>3, OffIsFinite
  <2>3. \A v \in Units : Off(v)' = Off(v)
    BY <1>1 DEF Off
  <2>4. ASSUME NEW v \in Units, v # u, Live(v) PROVE ~kill[v] /\ Off(v) = {}
    BY <1>5, <2>4 DEF ThreadInv
  <2>5. ThreadInv'
    BY <1>1, <2>1, <2>2, <2>3, <2>4 DEF ThreadInv
  <2>6. ParkedInv' /\ RunInv'
    BY <1>1 DEF ParkedInv, RunInv
  <2>. QED  BY <2>5, <2>6
<1>15. NoWorkWithoutWaiter'
  <2>1. ASSUME NEW v \in Units, NEW j \in Jids
        PROVE  TokenCount(v, j)' = TokenCount(v, j) /\ Waiting(v, j)' = Waiting(v, j)
    <3>1. TokenCount(v, j)' = TokenCount(v, j)
      BY <1>1 DEF TokenCount, Queued, Busy, Ready
    <3>2. Waiting(v, j)' = Waiting(v, j)
      BY <1>1, <1>2 DEF Waiting
    <3>. QED  BY <3>1, <3>2
  <2>. QED  BY <2>1 DEF NoWorkWithoutWaiter
<1>. QED  BY <1>8, <1>9, <1>10, <1>11, <1>12, <1>13, <1>14, <1>15

-----------------------------------------------------------------------------
(* Steps of a slot.                                                         *)

LEMMA HandlersUnchanged ==
    ASSUME Inv, UNCHANGED <<tableVars, workerOf, handlerVars>>
    PROVE  /\ TableTyped' /\ HandlersTyped' /\ LockInv' /\ RequestInv'
           /\ HandlerUnitInv' /\ HeldCommandStays' /\ TableInv'
           /\ \A u : Live(u)' = Live(u)
           /\ \A u \in Units, j \in Jids : Waiting(u, j)' = Waiting(u, j)
           /\ pc' = pc /\ unit' = unit
<1>1. /\ commands' = commands /\ readers' = readers /\ writer' = writer
      /\ workerOf' = workerOf /\ pc' = pc /\ req' = req /\ unit' = unit
  BY DEF tableVars, handlerVars
<1>2. TableTyped' /\ HandlersTyped' /\ LockInv' /\ RequestInv' /\ TableInv'
  BY <1>1 DEF Inv, Typed, TableTyped, HandlersTyped, LockInv, RequestInv, TableInv
<1>3. HandlerUnitInv' /\ HeldCommandStays' /\ \A u : Live(u)' = Live(u)
  BY <1>1 DEF Inv, HandlerUnitInv, HeldCommandStays, Registered, LookUp, Live
<1>4. \A u \in Units, j \in Jids : Waiting(u, j)' = Waiting(u, j)
  BY <1>1 DEF Waiting
<1>. QED  BY <1>1, <1>2, <1>3, <1>4

(* A slot thread that has not stopped belongs to a live unit.               *)
LEMMA ThreadsAreLive ==
    ASSUME Inv, NEW u \in Units, NEW s \in Slots, slotPc[u][s] # "off"
    PROVE  Live(u) /\ s \notin Off(u)
<1>1. s \notin Off(u)
  BY DEF Off
<1>2. ~Live(u) => Off(u) = Slots
  BY DEF Inv, ThreadInv
<1>3. Live(u)
  BY <1>1, <1>2, Zenon
<1>. QED  BY <1>1, <1>3, Zenon

LEMMA SlotLoopStep ==
    ASSUME Inv, NEW u \in Units, NEW s \in Slots, SlotContinue(u, s) \/ SlotIdle(u, s)
    PROVE  Inv'
<1>. USE DEF Inv
<1>1. PICK p \in {"check", "poll"} :
          /\ slotPc[u][s] \in {"check", "poll"}
          /\ slotPc' = [slotPc EXCEPT ![u][s] = p]
          /\ sent' = None /\ inputs' = inputs /\ outputs' = outputs /\ kill' = kill
          /\ parked' = parked /\ running' = running
          /\ UNCHANGED <<tableVars, workerOf, handlerVars>>
  BY DEF SlotContinue, SlotIdle
<1>2. Typed'
  BY <1>1, HandlersUnchanged DEF Typed, UnitsTyped
<1>3. ThreadInv' /\ ParkedInv'
  <2>1. \A v \in Units : Off(v)' = Off(v)
    BY <1>1 DEF Off, Typed, UnitsTyped
  <2>. QED  BY <1>1, <2>1, HandlersUnchanged DEF ThreadInv, ParkedInv
<1>4. RunInv'
  BY <1>1 DEF RunInv, Typed, UnitsTyped
<1>5. NoWorkWithoutWaiter'
  <2>1. ASSUME NEW v \in Units, NEW j \in Jids
        PROVE  TokenCount(v, j)' = TokenCount(v, j)
    BY <1>1 DEF TokenCount, Queued, Busy, Ready
  <2>. QED  BY <1>1, <2>1, HandlersUnchanged DEF NoWorkWithoutWaiter
<1>. QED  BY <1>1, <1>2, <1>3, <1>4, <1>5, HandlersUnchanged

LEMMA SlotParkStep ==
    ASSUME Inv, NEW u \in Units, NEW s \in Slots, SlotPark(u, s)
    PROVE  Inv'
<1>. USE DEF Inv
<1>1. /\ slotPc[u][s] = "check" /\ kill[u]
      /\ slotPc' = [slotPc EXCEPT ![u][s] = "off"]
      /\ parked' = [parked EXCEPT ![u] = parked[u] + 1]
      /\ sent' = None /\ inputs' = inputs /\ outputs' = outputs /\ kill' = kill
      /\ running' = running
      /\ UNCHANGED <<tableVars, workerOf, handlerVars>>
  BY DEF SlotPark
<1>2. Typed'
  BY <1>1, HandlersUnchanged DEF Typed, UnitsTyped
<1>3. Live(u) /\ s \notin Off(u)
  BY <1>1, ThreadsAreLive
<1>4. \A v \in Units : Off(v)' = IF v = u THEN Off(v) \cup {s} ELSE Off(v)
  BY <1>1 DEF Off, Typed, UnitsTyped
<1>5. \A v \in Units : parked'[v] = IF v = u THEN parked[v] + 1 ELSE parked[v]
  BY <1>1 DEF Typed, UnitsTyped
<1>6. ASSUME NEW v \in Units, v = u
      PROVE  /\ parked'[v] = Cardinality(Off(v))'
             /\ Cardinality(Off(v))' <= Cores
             /\ Live(v)' /\ kill'[v]
             /\ \E c \in Conns : pc'[c] = "park" /\ unit'[c] = v
  <2>1. Off(v)' = Off(v) \cup {s} /\ s \notin Off(v)
    BY <1>3, <1>4, <1>6
  <2>2. Cardinality(Off(v))' = Cardinality(Off(v)) + 1
    <3>1. IsFiniteSet(Off(v))
      BY OffIsFinite, Zenon
    <3>. QED  BY <2>1, <3>1, WithOneMore, Zenon
  <2>3. parked'[v] = Cardinality(Off(v)) + 1
    BY <1>3, <1>5, <1>6 DEF ThreadInv
  <2>4. Cardinality(Off(v))' <= Cores
    <3>1. Off(v)' \in SUBSET Slots
      BY <2>1, OffIsFinite
    <3>. QED  BY <3>1, OffIsFinite, FS_Subset
  <2>5. \E c \in Conns : pc'[c] = "park" /\ unit'[c] = v
    BY <1>1, <1>3, <1>6, HandlersUnchanged DEF ThreadInv
  <2>6. Live(v)' /\ kill'[v]
    BY <1>1, <1>3, <1>6, HandlersUnchanged
  <2>. QED  BY <2>2, <2>3, <2>4, <2>5, <2>6
<1>8. ThreadInv'
  <2>. SUFFICES ASSUME NEW v \in Units
                PROVE  /\ Live(v)' => /\ parked'[v] = Cardinality(Off(v))'
                                      /\ Off(v)' # {} => kill'[v]
                                      /\ kill'[v] => \E c \in Conns : pc'[c] = "park" /\ unit'[c] = v
                       /\ ~Live(v)' => Off(v)' = Slots
    BY DEF ThreadInv
  <2>1. CASE v = u
    BY <1>6, <2>1
  <2>2. CASE v # u
    BY <1>1, <1>4, <1>5, <2>2, HandlersUnchanged DEF ThreadInv
  <2>. QED  BY <2>1, <2>2
<1>9. ParkedInv'
  <2>. SUFFICES ASSUME NEW v \in Units PROVE parked'[v] <= Cores
    BY DEF ParkedInv
  <2>1. CASE v = u
    BY <1>6, <2>1
  <2>2. CASE v # u
    BY <1>5, <2>2 DEF ParkedInv
  <2>. QED  BY <2>1, <2>2
<1>10. RunInv'
  BY <1>1 DEF RunInv, Typed, UnitsTyped
<1>11. NoWorkWithoutWaiter'
  <2>1. ASSUME NEW v \in Units, NEW j \in Jids
        PROVE  TokenCount(v, j)' = TokenCount(v, j)
    BY <1>1 DEF TokenCount, Queued, Busy, Ready
  <2>. QED  BY <1>1, <2>1, HandlersUnchanged DEF NoWorkWithoutWaiter
<1>. QED  BY <1>1, <1>2, <1>8, <1>9, <1>10, <1>11, HandlersUnchanged

LEMMA SlotTakeStep ==
    ASSUME Inv, NEW u \in Units, NEW s \in Slots, SlotTake(u, s)
    PROVE  Inv'
<1>. USE DEF Inv
<1>. DEFINE n == Len(inputs[u])
            t == inputs[u][n]
            rest == SubSeq(inputs[u], 1, n - 1)
<1>1. /\ slotPc[u][s] = "poll" /\ n > 0
      /\ running' = [running EXCEPT ![u][s] = t]
      /\ inputs' = [inputs EXCEPT ![u] = rest]
      /\ slotPc' = [slotPc EXCEPT ![u][s] = "run"]
      /\ sent' = None /\ outputs' = outputs /\ kill' = kill /\ parked' = parked
      /\ UNCHANGED <<tableVars, workerOf, handlerVars>>
  BY DEF SlotTake
<1>2. inputs[u] \in Seq(Tasks) /\ n \in Nat /\ DOMAIN inputs[u] = 1 .. n
  BY LenProperties DEF Typed, UnitsTyped
<1>3. t \in Tasks /\ t # None
  <2>1. n \in 1 .. n
    BY <1>1, <1>2
  <2>. QED  BY <1>2, <2>1, ElementOfSeq, ServerAssumption
<1>4. /\ rest \in Seq(Tasks)
      /\ DOMAIN rest = 1 .. n - 1
      /\ \A i \in 1 .. n - 1 : rest[i] = inputs[u][i]
  <2>1. \A i \in 1 .. n - 1 : inputs[u][i] \in Tasks
    BY <1>2, ElementOfSeq
  <2>2. /\ rest \in Seq(Tasks)
        /\ Len(rest) = IF 1 <= n - 1 THEN n - 1 - 1 + 1 ELSE 0
        /\ \A i \in 1 .. n - 1 - 1 + 1 : rest[i] = inputs[u][1 + i - 1]
    BY <1>2, <2>1, SubSeqProperties
  <2>3. Len(rest) = n - 1
    BY <1>1, <1>2, <2>2
  <2>4. DOMAIN rest = 1 .. n - 1
    BY <2>2, <2>3, LenProperties
  <2>. QED  BY <1>2, <2>2, <2>4
<1>. HIDE DEF rest, t
<1>5. Typed'
  BY <1>1, <1>3, <1>4, HandlersUnchanged DEF Typed, UnitsTyped
<1>6. ThreadInv' /\ ParkedInv'
  <2>1. \A v \in Units : Off(v)' = Off(v)
    BY <1>1 DEF Off, Typed, UnitsTyped
  <2>. QED  BY <1>1, <2>1, HandlersUnchanged DEF ThreadInv, ParkedInv
<1>7. RunInv'
  BY <1>1, <1>3 DEF RunInv, Typed, UnitsTyped
<1>8. NoWorkWithoutWaiter'
  <2>. SUFFICES ASSUME NEW v \in Units, NEW j \in Jids
                PROVE  TokenCount(v, j)' <= Cardinality(Waiting(v, j))
    BY HandlersUnchanged, <1>1 DEF NoWorkWithoutWaiter
  <2>1. TokenCount(v, j) <= Cardinality(Waiting(v, j)) /\ Ready(v, j)' = Ready(v, j)
    BY <1>1 DEF NoWorkWithoutWaiter, Ready
  <2>2. CASE v = u /\ j = t.jid
    <3>1. Queued(v, j)' = Queued(v, j) \ {n} /\ n \in Queued(v, j)
      <4>1. inputs'[v] = rest
        BY <1>1, <2>2 DEF Typed, UnitsTyped
      <4>2. Queued(v, j) = {i \in 1 .. n : inputs[u][i].jid = j}
        BY <1>2, <2>2 DEF Queued
      <4>3. Queued(v, j)' = {i \in 1 .. n - 1 : inputs[u][i].jid = j}
        BY <1>4, <4>1 DEF Queued
      <4>4. n \in 1 .. n /\ 1 .. n - 1 = (1 .. n) \ {n}
        BY <1>1, <1>2
      <4>5. inputs[u][n].jid = j
        BY <2>2 DEF t
      <4>. QED  BY <4>2, <4>3, <4>4, <4>5
    <3>2. Busy(v, j)' = Busy(v, j) \cup {s} /\ s \notin Busy(v, j)
      <4>1. running[u][s] = None
        BY <1>1 DEF RunInv
      <4>2. /\ running'[u][s] = t
            /\ \A r \in Slots : r # s => running'[u][r] = running[u][r]
        BY <1>1 DEF Typed, UnitsTyped
      <4>3. \A r : r \in Busy(v, j)' <=> r \in Busy(v, j) \cup {s}
        BY <1>3, <2>2, <4>2 DEF Busy
      <4>4. s \notin Busy(v, j)
        BY <2>2, <4>1 DEF Busy
      <4>. QED  BY <4>3, <4>4
    <3>3. Cardinality(Queued(v, j))' = Cardinality(Queued(v, j)) - 1
      <4>1. IsFiniteSet(Queued(v, j))
        BY WorkIsFinite, Zenon
      <4>. QED  BY <3>1, <4>1, WithOneLess, Zenon
    <3>4. Cardinality(Busy(v, j))' = Cardinality(Busy(v, j)) + 1
      <4>1. IsFiniteSet(Busy(v, j))
        BY WorkIsFinite, Zenon
      <4>. QED  BY <3>2, <4>1, WithOneMore, Zenon
    <3>. QED  BY <2>1, <3>3, <3>4, WorkIsFinite DEF TokenCount
  <2>3. CASE ~(v = u /\ j = t.jid)
    <3>1. Queued(v, j)' = Queued(v, j)
      <4>1. CASE v # u
        BY <1>1, <4>1 DEF Queued, Typed, UnitsTyped
      <4>2. CASE v = u
        <5>1. inputs'[v] = rest /\ inputs[u][n].jid # j
          BY <1>1, <2>3, <4>2 DEF Typed, UnitsTyped, t
        <5>2. Queued(v, j) = {i \in 1 .. n : inputs[u][i].jid = j}
          BY <1>2, <4>2 DEF Queued
        <5>3. Queued(v, j)' = {i \in 1 .. n - 1 : inputs[u][i].jid = j}
          BY <1>4, <5>1 DEF Queued
        <5>4. 1 .. n - 1 = (1 .. n) \ {n}
          BY <1>1, <1>2
        <5>. QED  BY <5>1, <5>2, <5>3, <5>4
      <4>. QED  BY <4>1, <4>2
    <3>2. Busy(v, j)' = Busy(v, j)
      <4>1. running[u][s] = None
        BY <1>1 DEF RunInv
      <4>2. /\ running'[u][s] = t
            /\ \A w \in Units, r \in Slots :
                  ~(w = u /\ r = s) => running'[w][r] = running[w][r]
        BY <1>1 DEF Typed, UnitsTyped
      <4>. QED  BY <2>3, <4>1, <4>2 DEF Busy
    <3>. QED  BY <2>1, <3>1, <3>2 DEF TokenCount
  <2>. QED  BY <2>2, <2>3
<1>. QED  BY <1>1, <1>5, <1>6, <1>7, <1>8, HandlersUnchanged

LEMMA SlotFinishStep ==
    ASSUME Inv, NEW u \in Units, NEW s \in Slots, SlotFinish(u, s)
    PROVE  Inv'
<1>. USE DEF Inv
<1>. DEFINE t == running[u][s]
<1>1. PICK ok \in BOOLEAN :
          outputs' = [outputs EXCEPT ![u][t.jid] = [from |-> t.from, spawned |-> ok]]
  BY DEF SlotFinish, StoreResult
<1>2. /\ slotPc[u][s] = "run"
      /\ running' = [running EXCEPT ![u][s] = None]
      /\ slotPc' = [slotPc EXCEPT ![u][s] = "check"]
      /\ sent' = None /\ inputs' = inputs /\ kill' = kill /\ parked' = parked
      /\ UNCHANGED <<tableVars, workerOf, handlerVars>>
  BY DEF SlotFinish
<1>3. t \in Tasks /\ t # None /\ t.jid \in Jids
  BY <1>2 DEF RunInv, Typed, UnitsTyped, Tasks
<1>4. [from |-> t.from, spawned |-> ok] \in Results /\ [from |-> t.from, spawned |-> ok] # None
  BY <1>3, ServerAssumption DEF Tasks, Results
<1>5. Typed'
  BY <1>1, <1>2, <1>4, HandlersUnchanged DEF Typed, UnitsTyped
<1>. HIDE DEF t
<1>6. ThreadInv' /\ ParkedInv'
  <2>1. \A v \in Units : Off(v)' = Off(v)
    BY <1>2 DEF Off, Typed, UnitsTyped
  <2>. QED  BY <1>2, <2>1, HandlersUnchanged DEF ThreadInv, ParkedInv
<1>7. RunInv'
  BY <1>2 DEF RunInv, Typed, UnitsTyped
<1>8. NoWorkWithoutWaiter'
  <2>. SUFFICES ASSUME NEW v \in Units, NEW j \in Jids
                PROVE  TokenCount(v, j)' <= Cardinality(Waiting(v, j))
    BY HandlersUnchanged, <1>1, <1>2 DEF NoWorkWithoutWaiter
  <2>1. TokenCount(v, j) <= Cardinality(Waiting(v, j)) /\ Queued(v, j)' = Queued(v, j)
    BY <1>2 DEF NoWorkWithoutWaiter, Queued
  <2>2. CASE v = u /\ j = t.jid
    <3>1. Busy(v, j)' = Busy(v, j) \ {s} /\ s \in Busy(v, j)
      <4>1. /\ running'[u][s] = None
            /\ \A r \in Slots : r # s => running'[u][r] = running[u][r]
        BY <1>2 DEF Typed, UnitsTyped
      <4>. QED  BY <1>3, <2>2, <4>1 DEF Busy, t
    <3>2. Cardinality(Busy(v, j))' = Cardinality(Busy(v, j)) - 1
      <4>1. IsFiniteSet(Busy(v, j))
        BY WorkIsFinite, Zenon
      <4>. QED  BY <3>1, <4>1, WithOneLess, Zenon
    <3>. QED  BY <2>1, <3>2, WorkIsFinite DEF TokenCount
  <2>3. CASE ~(v = u /\ j = t.jid)
    <3>1. Busy(v, j)' = Busy(v, j)
      <4>1. /\ running'[u][s] = None
            /\ \A w \in Units, r \in Slots :
                  ~(w = u /\ r = s) => running'[w][r] = running[w][r]
        BY <1>2 DEF Typed, UnitsTyped
      <4>. QED  BY <2>3, <4>1 DEF Busy, t
    <3>2. Ready(v, j)' = Ready(v, j)
      BY <1>1, <1>3, <2>3 DEF Ready, Typed, UnitsTyped
    <3>. QED  BY <2>1, <3>1, <3>2 DEF TokenCount
  <2>. QED  BY <2>2, <2>3
<1>. QED  BY <1>2, <1>5, <1>6, <1>7, <1>8, HandlersUnchanged

-----------------------------------------------------------------------------
(* The inductive argument.                                                  *)

LEMMA InvStutter == ASSUME Inv, UNCHANGED vars PROVE Inv'
<1>1. UNCHANGED <<tableVars, workerOf, handlerVars>> /\ sent' = sent /\ inputs' = inputs
      /\ outputs' = outputs /\ kill' = kill /\ parked' = parked /\ slotPc' = slotPc
      /\ running' = running
  BY DEF vars, unitVars
<1>2. Typed' /\ RunInv' /\ ParkedInv'
  BY <1>1, HandlersUnchanged DEF Inv, Typed, UnitsTyped, RunInv, ParkedInv
<1>3. ThreadInv'
  <2>1. \A v \in Units : Off(v)' = Off(v)
    BY <1>1 DEF Off
  <2>. QED  BY <1>1, <2>1, HandlersUnchanged DEF Inv, ThreadInv
<1>4. NoWorkWithoutWaiter'
  <2>1. ASSUME NEW v \in Units, NEW j \in Jids PROVE TokenCount(v, j)' = TokenCount(v, j)
    BY <1>1 DEF TokenCount, Queued, Busy, Ready
  <2>. QED  BY <1>1, <2>1, HandlersUnchanged DEF Inv, NoWorkWithoutWaiter
<1>. QED  BY <1>1, <1>2, <1>3, <1>4, HandlersUnchanged DEF Inv

LEMMA InvNext == ASSUME Inv, Next PROVE Inv'
<1>1. ASSUME NEW c \in Conns, Handler(c) PROVE Inv'
  BY <1>1, TakeStep, AnswerAtOnceStep, SpawnSlotsStep, RegisterCommandStep, SubmitInputStep,
     AnswerInputStep, SignalKillStep, RemoveCommandStep
     DEF Handler
<1>2. ASSUME NEW u \in Units, NEW s \in Slots, Slot(u, s) PROVE Inv'
  BY <1>2, SlotLoopStep, SlotParkStep, SlotTakeStep, SlotFinishStep DEF Slot
<1>. QED  BY <1>1, <1>2, ArrivalStep DEF Next

(* The invariant holds in every state of every behaviour.                   *)
THEOREM Invariance == Spec => []Inv
<1>1. Init => Inv
  BY InvInit
<1>2. Inv /\ [Next]_vars => Inv'
  BY InvNext, InvStutter
<1>. QED  BY <1>1, <1>2, PTL DEF Spec

(* Every variable keeps its type, and no unit ever counts more stopped      *)
(* slots than it has.                                                       *)
THEOREM TypeCorrect == Spec => []TypeOK
<1>1. Inv => TypeOK
  <2>. SUFFICES ASSUME Inv PROVE TypeOK
    OBVIOUS
  <2>1. parked \in [Units -> 0 .. Cores]
    BY ServerAssumption DEF Inv, Typed, UnitsTyped, ParkedInv
  <2>. QED  BY <2>1 DEF Inv, Typed, TableTyped, HandlersTyped, UnitsTyped, TypeOK
<1>. QED  BY <1>1, Invariance, PTL

LEMMA KilledUnitsAreQuiet == ASSUME Inv PROVE KilledUnitIsQuiet
<1>. SUFFICES ASSUME NEW u \in Units, kill[u]
              PROVE  /\ inputs[u] = <<>>
                     /\ \A s \in Slots : running[u][s] = None
                     /\ \A j \in Jids : Waiting(u, j) = {} /\ ~Ready(u, j)
  BY DEF KilledUnitIsQuiet
<1>1. \A c \in Conns : pc[c] = "await" => unit[c] # u
  <2>1. SUFFICES ASSUME NEW c \in Conns, pc[c] = "await", unit[c] = u PROVE FALSE
    OBVIOUS
  <2>2. Live(u)
    BY <2>1 DEF Live
  <2>3. PICK d \in Conns : pc[d] = "park"
    BY <2>2 DEF Inv, ThreadInv
  <2>4. writer = d /\ writer # None /\ c \in readers
    BY <2>1, <2>3, ServerAssumption DEF Inv, LockInv
  <2>. QED  BY <2>4 DEF Inv, LockInv
<1>. QED  BY <1>1, NoWaiterNoWork DEF Inv

(* A command that has been told to stop has no work and nobody waits for    *)
(* its work, with any number of clients and whatever they send again.       *)
THEOREM KilledIsQuiet == Spec => []KilledUnitIsQuiet
<1>1. Inv => KilledUnitIsQuiet
  BY KilledUnitsAreQuiet
<1>. QED  BY <1>1, Invariance, PTL

(* No delete leaves a slot thread behind that nobody can stop.              *)
THEOREM ThreadsAreReachable == Spec => []NoOrphanThreads
<1>1. Inv => NoOrphanThreads
  <2>. SUFFICES ASSUME Inv, NEW u \in Units, u \notin Registered,
                       \A c \in Conns : unit[c] # u
                PROVE  \A s \in Slots : slotPc[u][s] = "off"
    BY DEF NoOrphanThreads
  <2>1. ~Live(u)
    BY DEF Live
  <2>2. Off(u) = Slots
    BY <2>1 DEF Inv, ThreadInv
  <2>. QED  BY <2>2 DEF Off
<1>. QED  BY <1>1, Invariance, PTL

(* What a handler waits for stays at the ID its request named.              *)
THEOREM HeldCommandsStay == Spec => []HeldCommandStays
  BY Invariance, PTL DEF Inv

(* There is never more work for a job than there are handlers waiting.      *)
THEOREM WorkHasWaiters == Spec => []NoWorkWithoutWaiter
  BY Invariance, PTL DEF Inv

-----------------------------------------------------------------------------
(* What a step may do to the table.                                         *)

LEMMA OtherStepsKeepTable ==
    ASSUME Next PROVE \/ commands' = commands
                      \/ \E c \in Conns : RegisterCommand(c) \/ RemoveCommand(c)
<1>1. ASSUME NEW c \in Conns, Arrivals(c) PROVE commands' = commands
  BY <1>1 DEF Arrivals, ArriveCommand, ArriveInput, ArriveStop, ArriveQuery, Arrive, tableVars
<1>2. ASSUME NEW c \in Conns, Handler(c), ~RegisterCommand(c), ~RemoveCommand(c)
      PROVE  commands' = commands
  BY <1>2 DEF Handler, SpawnSlots, TakeInput, SubmitInput, RejectInput, AnswerInput, TakeStop,
              SignalKill, StopNothing, ReportCores, TakeList, ListCommands, tableVars
<1>3. ASSUME NEW u \in Units, NEW s \in Slots, Slot(u, s) PROVE commands' = commands
  BY <1>3 DEF Slot, SlotContinue, SlotPark, SlotIdle, SlotTake, SlotFinish, tableVars
<1>. QED  BY <1>1, <1>2, <1>3 DEF Next

(* An ID names its command until a StopJob of that ID clears it, after the  *)
(* command's slots have stopped.                                            *)
THEOREM IdsAreStable == Spec => LiveIdsAreStable
<1>1. ASSUME Inv, NEW c \in Conns, RegisterCommand(c) PROVE IdsStayOrAreStopped
  <2>1. PICK k \in 1 .. Len(commands) + 1 : FirstVacant(k) /\ commands' = Stored(k, unit[c])
    BY <1>1 DEF RegisterCommand
  <2>2. unit[c] \in Units
    BY <1>1 DEF RegisterCommand, Inv, HandlerUnitInv
  <2>3. /\ DOMAIN commands' = DOMAIN commands \cup {k}
        /\ \A i \in DOMAIN commands \ {k} : commands'[i] = commands[i]
    <3>1. TableTyped
      BY <1>1 DEF Inv, Typed
    <3>2. /\ DOMAIN Stored(k, unit[c]) = DOMAIN commands \cup {k}
          /\ \A i \in DOMAIN commands \ {k} : Stored(k, unit[c])[i] = commands[i]
      BY <2>2, <3>1, StoredProperties, Zenon
    <3>. QED  BY <2>1, <3>2, Zenon
  <2>4. DOMAIN commands = 1 .. Len(commands)
    BY <1>1, LenProperties DEF Inv, Typed, TableTyped
  <2>5. k \in DOMAIN commands => commands[k] = None
    BY <2>1, <2>4 DEF FirstVacant
  <2>. QED  BY <2>3, <2>5 DEF IdsStayOrAreStopped
<1>2. ASSUME Inv, NEW c \in Conns, RemoveCommand(c) PROVE IdsStayOrAreStopped
  <2>. DEFINE k == req[c].cid + 1
  <2>1. /\ pc[c] = "park" /\ parked[unit[c]] = Cores /\ slotPc' = slotPc
        /\ commands' = [commands EXCEPT ![k] = None]
    BY <1>2 DEF RemoveCommand, AllParked, unitVars
  <2>2. /\ writer = c /\ unit[c] \in Units /\ unit[c] # None
        /\ req[c] \in Stops /\ req[c].cid \in Nat /\ LookUp(req[c].cid) = unit[c]
    BY <1>2, <2>1, ServerAssumption
       DEF Inv, LockInv, RequestInv, HandlerUnitInv, HeldCommandStays, Stops
  <2>3. k \in DOMAIN commands /\ commands[k] = unit[c]
    BY <1>2, <2>2, LookUpRegistered DEF Inv, Typed
  <2>4. /\ DOMAIN commands' = DOMAIN commands /\ commands'[k] = None
        /\ \A i \in DOMAIN commands \ {k} : commands'[i] = commands[i]
    BY <1>2, <2>1, <2>3, ClearedProperties DEF Inv, Typed
  <2>5. req[c] = [op |-> "del", cid |-> k - 1]
    BY <2>2, ServerAssumption DEF Stops
  <2>6. \A s \in Slots : slotPc'[commands[k]][s] = "off"
    <3>1. parked[unit[c]] = Cardinality(Off(unit[c]))
      BY <1>2, <2>2 DEF Inv, ThreadInv, Live
    <3>2. Off(unit[c]) = Slots
      BY <2>1, <2>2, <3>1, OffIsFinite
    <3>. QED  BY <2>1, <2>3, <3>2 DEF Off
  <2>. QED  BY <2>2, <2>3, <2>4, <2>5, <2>6 DEF IdsStayOrAreStopped
<1>3. Inv /\ [Next]_vars => [IdsStayOrAreStopped]_vars
  <2>. SUFFICES ASSUME Inv, Next PROVE IdsStayOrAreStopped
    BY Zenon
  <2>1. CASE commands' = commands
    BY <2>1 DEF IdsStayOrAreStopped
  <2>. QED  BY <1>1, <1>2, <2>1, OtherStepsKeepTable
<1>. QED  BY <1>3, Invariance, PTL DEF Spec, LiveIdsAreStable

(* A handler that is about to register its command goes on only by that.    *)
LEMMA OnlyRegisteringLeaves ==
    ASSUME Inv, Next, NEW c \in Conns, pc[c] = "register", pc'[c] # "register"
    PROVE  RegisterCommand(c)
<1>1. pc \in [Conns -> {"idle", "queued", "register", "submit", "await",
                        "stop", "park", "list"}]
  BY DEF Inv, Typed, HandlersTyped
<1>2. ASSUME NEW d \in Conns, Arrivals(d) PROVE pc'[c] = pc[c]
  BY <1>1, <1>2
     DEF Arrivals, ArriveCommand, ArriveInput, ArriveStop, ArriveQuery, Arrive
<1>3. ASSUME NEW d \in Conns, Handler(d), ~RegisterCommand(d) PROVE pc'[c] = pc[c]
  <2>1. pc[d] # "register"
    BY <1>3 DEF Handler, SpawnSlots, TakeInput, SubmitInput, RejectInput, AnswerInput,
                TakeStop, SignalKill, StopNothing, RemoveCommand, ReportCores, TakeList,
                ListCommands
  <2>2. d # c => pc'[c] = pc[c]
    BY <1>1, <1>3 DEF Handler, SpawnSlots, TakeInput, SubmitInput, RejectInput, AnswerInput,
                TakeStop, SignalKill, StopNothing, RemoveCommand, ReportCores, TakeList,
                ListCommands, Return
  <2>. QED  BY <1>1, <2>1, <2>2
<1>4. ASSUME NEW d \in Conns, RegisterCommand(d) PROVE d # c => pc'[c] = pc[c]
  BY <1>1, <1>4 DEF RegisterCommand, Return
<1>5. ASSUME NEW u \in Units, NEW s \in Slots, Slot(u, s) PROVE pc'[c] = pc[c]
  BY <1>5 DEF Slot, SlotContinue, SlotPark, SlotIdle, SlotTake, SlotFinish, handlerVars
<1>. QED  BY <1>2, <1>3, <1>4, <1>5 DEF Next

(* The ID that a Command request is told names its command, and nothing     *)
(* else does.                                                               *)
THEOREM RepliesNameTheCommand == Spec => IdReplyNamesTheCommand
<1>1. ASSUME Inv, NEW c \in Conns, RegisterCommand(c)
      PROVE  /\ sent'.kind = "id"
             /\ {i \in DOMAIN commands' : commands'[i] = unit[c]} = {sent'.cid + 1}
             /\ LookUp(sent'.cid) = None
  <2>1. PICK k \in 1 .. Len(commands) + 1 :
            /\ FirstVacant(k) /\ commands' = Stored(k, unit[c])
            /\ sent' = [to |-> c, kind |-> "id", cid |-> k - 1]
    BY <1>1 DEF RegisterCommand, Return
  <2>2. unit[c] \in Units /\ unit[c] # None /\ unit[c] \notin Registered
    BY <1>1, ServerAssumption DEF RegisterCommand, Inv, HandlerUnitInv
  <2>3. Len(commands) \in Nat /\ DOMAIN commands = 1 .. Len(commands)
    BY <1>1, LenProperties DEF Inv, Typed, TableTyped
  <2>4. /\ DOMAIN commands' = DOMAIN commands \cup {k} /\ commands'[k] = unit[c]
        /\ \A i \in DOMAIN commands \ {k} : commands'[i] = commands[i]
    <3>1. TableTyped
      BY <1>1 DEF Inv, Typed
    <3>2. /\ Stored(k, unit[c])[k] = unit[c]
          /\ DOMAIN Stored(k, unit[c]) = DOMAIN commands \cup {k}
          /\ \A i \in DOMAIN commands \ {k} : Stored(k, unit[c])[i] = commands[i]
      BY <2>2, <3>1, StoredProperties, Zenon
    <3>. QED  BY <2>1, <3>2, Zenon
  <2>5. \A i \in DOMAIN commands : commands[i] # unit[c]
    BY <2>2 DEF Registered
  <2>6. {i \in DOMAIN commands' : commands'[i] = unit[c]} = {k}
    BY <2>4, <2>5
  <2>7. sent'.cid = k - 1 /\ sent'.cid + 1 = k /\ sent'.kind = "id"
    BY <2>1, <2>3
  <2>8. LookUp(k - 1) = None
    <3>1. k - 1 < Len(commands) => k <= Len(commands)
      BY <2>3
    <3>2. (k - 1) + 1 = k
      BY <2>3
    <3>. QED  BY <2>1, <3>1, <3>2 DEF LookUp, FirstVacant
  <2>. QED  BY <2>6, <2>7, <2>8
<1>2. Inv /\ [Next]_vars => [ReplyNamesTheCommand]_vars
  <2>. SUFFICES ASSUME Inv, Next, NEW c \in Conns, pc[c] = "register", pc'[c] = "idle"
                PROVE  /\ sent'.kind = "id"
                       /\ {i \in DOMAIN commands' : commands'[i] = unit[c]} = {sent'.cid + 1}
                       /\ LookUp(sent'.cid) = None
    BY Zenon DEF ReplyNamesTheCommand
  <2>1. RegisterCommand(c)
    BY OnlyRegisteringLeaves
  <2>. QED  BY <1>1, <2>1
<1>. QED  BY <1>2, Invariance, PTL DEF Spec, IdReplyNamesTheCommand

-----------------------------------------------------------------------------
(* Without overlapping sends: the inductive invariant, on top of Inv.       *)

(* An input request is under way on one connection only.                    *)
Exclusive ==
    \A c, d \in Conns : (req[c] \in Inputs /\ req[c] = req[d]) => c = d

(* Every task, running job and result is that of a handler that waits for   *)
(* it.                                                                      *)
TokensAreAwaited ==
    \A u \in Units, j \in Jids :
        /\ \A i \in Queued(u, j) : inputs[u][i].from \in Waiting(u, j)
        /\ \A s \in Busy(u, j) : running[u][s].from \in Waiting(u, j)
        /\ Ready(u, j) => outputs[u][j].from \in Waiting(u, j)

HasToken(u, j) == Queued(u, j) # {} \/ Busy(u, j) # {} \/ Ready(u, j)

WaitersHaveTokens ==
    \A u \in Units, j \in Jids : Waiting(u, j) # {} => HasToken(u, j)

TokenInv == Exclusive /\ TokensAreAwaited /\ WaitersHaveTokens

(* Two handlers never wait for the same job of a unit: they would have sent *)
(* the same request.                                                        *)
LEMMA OneWaiter ==
    ASSUME Inv, Exclusive, NEW u \in Units, NEW j \in Jids,
           NEW c \in Waiting(u, j), NEW d \in Waiting(u, j)
    PROVE  c = d
<1>1. /\ c \in Conns /\ pc[c] = "await" /\ unit[c] = u /\ req[c].jid = j
      /\ d \in Conns /\ pc[d] = "await" /\ unit[d] = u /\ req[d].jid = j
  BY DEF Waiting
<1>2. /\ req[c] \in Inputs /\ req[d] \in Inputs
      /\ LookUp(req[c].cid) = u /\ LookUp(req[d].cid) = u
  BY <1>1 DEF Inv, RequestInv, HeldCommandStays
<1>3. req[c].cid \in Nat /\ req[d].cid \in Nat /\ u # None
  BY <1>2, ServerAssumption DEF Inputs
<1>4. /\ req[c].cid + 1 \in DOMAIN commands /\ commands[req[c].cid + 1] = u
      /\ req[d].cid + 1 \in DOMAIN commands /\ commands[req[d].cid + 1] = u
  BY <1>2, <1>3, LookUpRegistered DEF Inv, Typed
<1>5. req[c].cid = req[d].cid
  <2>1. req[c].cid + 1 = req[d].cid + 1
    BY <1>3, <1>4, Zenon DEF Inv, TableInv
  <2>. QED  BY <1>3, <2>1
<1>6. req[c] = req[d]
  BY <1>1, <1>2, <1>5 DEF Inputs
<1>. QED  BY <1>1, <1>2, <1>6 DEF Exclusive

-----------------------------------------------------------------------------
(* Steps that leave the work of all units, and those who wait for it, alone.*)

LEMMA TokensStay ==
    ASSUME TokenInv,
           inputs' = inputs, outputs' = outputs, running' = running,
           \A d \in Conns : pc'[d] = "await" <=> pc[d] = "await",
           \A d \in Conns : pc[d] = "await" => unit'[d] = unit[d] /\ req'[d] = req[d]
    PROVE  TokensAreAwaited' /\ WaitersHaveTokens'
<1>1. \A u, j : Waiting(u, j)' = Waiting(u, j)
  BY DEF Waiting
<1>2. \A u, j : HasToken(u, j)' = HasToken(u, j)
  BY DEF HasToken, Queued, Busy, Ready
<1>3. \A u, j : /\ Queued(u, j)' = Queued(u, j) /\ Busy(u, j)' = Busy(u, j)
                /\ Ready(u, j)' = Ready(u, j)
  BY DEF Queued, Busy, Ready
<1>4. TokensAreAwaited'
  BY <1>1, <1>3 DEF TokenInv, TokensAreAwaited
<1>5. WaitersHaveTokens'
  BY <1>1, <1>2 DEF TokenInv, WaitersHaveTokens
<1>. QED  BY <1>4, <1>5

LEMMA ExclusiveStep ==
    ASSUME Inv, Exclusive, ~Overlap, Next
    PROVE  Exclusive'
<1>1. req \in [Conns -> Requests \cup {None}] /\ None \notin Inputs
  BY ServerAssumption DEF Inv, Typed, HandlersTyped, Requests
<1>2. ASSUME NEW c \in Conns, NEW r, r \notin Inputs \/ Distinct(r),
             req' = [req EXCEPT ![c] = r]
      PROVE  Exclusive'
  BY <1>1, <1>2 DEF Exclusive, Distinct
<1>3. ASSUME NEW c \in Conns, Arrivals(c) PROVE Exclusive'
  <2>1. CASE ArriveCommand(c)
    BY <1>2, <2>1 DEF ArriveCommand, Arrive, Inputs
  <2>2. CASE ArriveInput(c)
    BY <1>2, <2>2 DEF ArriveInput, Arrive
  <2>3. CASE ArriveStop(c)
    BY <1>2, <2>3 DEF ArriveStop, Arrive, Inputs, Stops
  <2>4. CASE ArriveQuery(c)
    BY <1>2, <2>4 DEF ArriveQuery, Arrive, Inputs
  <2>. QED  BY <1>3, <2>1, <2>2, <2>3, <2>4 DEF Arrivals
<1>4. ASSUME NEW c \in Conns, Handler(c)
      PROVE  req' = req \/ req' = [req EXCEPT ![c] = None]
  BY <1>4 DEF Handler, SpawnSlots, RegisterCommand, TakeInput, SubmitInput, RejectInput,
              AnswerInput, TakeStop, SignalKill, StopNothing, RemoveCommand, ReportCores,
              TakeList, ListCommands, Return
<1>5. ASSUME NEW u \in Units, NEW s \in Slots, Slot(u, s) PROVE req' = req
  BY <1>5 DEF Slot, SlotContinue, SlotPark, SlotIdle, SlotTake, SlotFinish, handlerVars
<1>6. ASSUME req' = req PROVE Exclusive'
  BY <1>6 DEF Exclusive
<1>. QED  BY <1>1, <1>2, <1>3, <1>4, <1>5, <1>6 DEF Next

(* The steps of handlers and slots that do not move a token.                *)
LEMMA QuietTokenStep ==
    ASSUME Inv, TokenInv, Next,
           ~\E c \in Conns : SubmitInput(c) \/ AnswerInput(c),
           ~\E u \in Units, s \in Slots : SlotTake(u, s) \/ SlotFinish(u, s)
    PROVE  TokensAreAwaited' /\ WaitersHaveTokens'
<1>. DEFINE Quiet == /\ inputs' = inputs /\ outputs' = outputs /\ running' = running
                     /\ \A d \in Conns : pc'[d] = "await" <=> pc[d] = "await"
                     /\ \A d \in Conns :
                           pc[d] = "await" => unit'[d] = unit[d] /\ req'[d] = req[d]
<1>1. /\ pc \in [Conns -> {"idle", "queued", "register", "submit", "await",
                           "stop", "park", "list"}]
      /\ req \in [Conns -> Requests \cup {None}] /\ unit \in [Conns -> Units \cup {None}]
  BY DEF Inv, Typed, HandlersTyped
<1>2. ASSUME NEW c \in Conns, Arrivals(c) PROVE Quiet
  BY <1>1, <1>2 DEF Arrivals, ArriveCommand, ArriveInput, ArriveStop, ArriveQuery, Arrive,
                    unitVars
<1>3. ASSUME NEW c \in Conns, SpawnSlots(c) PROVE Quiet
  <2>1. PICK u \in Units :
            /\ Unused(u)
            /\ unit' = [unit EXCEPT ![c] = u]
            /\ inputs' = [inputs EXCEPT ![u] = <<>>]
            /\ outputs' = [outputs EXCEPT ![u] = [j \in Jids |-> None]]
    BY <1>3 DEF SpawnSlots
  <2>2. /\ pc[c] = "queued" /\ pc' = [pc EXCEPT ![c] = "register"]
        /\ req' = req /\ running' = running
    BY <1>3 DEF SpawnSlots
  <2>3. inputs[u] = <<>> /\ \A j \in Jids : outputs[u][j] = None
    BY <2>1, NoWaiterNoWork DEF Unused, Inv, Ready
  <2>4. inputs' = inputs /\ outputs' = outputs
    BY <2>1, <2>3 DEF Inv, Typed, UnitsTyped
  <2>. QED  BY <1>1, <2>1, <2>2, <2>4
<1>4. ASSUME NEW c \in Conns, TakeInput(c) \/ TakeStop(c) \/ TakeList(c) \/ SignalKill(c)
      PROVE  Quiet
  BY <1>1, <1>4 DEF TakeInput, TakeStop, TakeList, SignalKill, unitVars
<1>5. ASSUME NEW c \in Conns,
             RegisterCommand(c) \/ RejectInput(c) \/ StopNothing(c) \/ RemoveCommand(c)
                 \/ ReportCores(c) \/ ListCommands(c)
      PROVE  Quiet
  BY <1>1, <1>5 DEF RegisterCommand, RejectInput, StopNothing, RemoveCommand, ReportCores,
                    ListCommands, Return, unitVars
<1>6. ASSUME NEW u \in Units, NEW s \in Slots,
             SlotContinue(u, s) \/ SlotPark(u, s) \/ SlotIdle(u, s)
      PROVE  Quiet
  BY <1>6 DEF SlotContinue, SlotPark, SlotIdle, handlerVars
<1>7. Quiet
  BY <1>2, <1>3, <1>4, <1>5, <1>6 DEF Next, Handler, Slot
<1>. QED  BY <1>7, TokensStay

-----------------------------------------------------------------------------
(* Steps that move a token.                                                 *)

LEMMA SubmitInputToken ==
    ASSUME Inv, TokenInv, NEW c \in Conns, SubmitInput(c)
    PROVE  TokensAreAwaited' /\ WaitersHaveTokens'
<1>. DEFINE u == LookUp(req[c].cid)
            t == [jid |-> req[c].jid, from |-> c]
            n == Len(inputs[u])
<1>1. /\ pc[c] = "submit" /\ u # None
      /\ inputs' = [inputs EXCEPT ![u] = Append(inputs[u], t)]
      /\ unit' = [unit EXCEPT ![c] = u] /\ pc' = [pc EXCEPT ![c] = "await"]
      /\ req' = req /\ outputs' = outputs /\ running' = running
  BY DEF SubmitInput
<1>2. req[c] \in Inputs /\ req[c].cid \in Nat /\ req[c].jid \in Jids
  BY <1>1, ServerAssumption DEF Inv, RequestInv, Inputs
<1>3. u \in Units /\ t \in Tasks
  BY <1>1, <1>2, LookUpRegistered DEF Inv, Typed, Tasks
<1>4. inputs[u] \in Seq(Tasks) /\ inputs \in [Units -> Seq(Tasks)]
  BY <1>3 DEF Inv, Typed, UnitsTyped
<1>5. /\ n \in Nat /\ DOMAIN inputs[u] = 1 .. n
      /\ DOMAIN Append(inputs[u], t) = 1 .. n + 1
      /\ \A i \in 1 .. n : Append(inputs[u], t)[i] = inputs[u][i]
      /\ Append(inputs[u], t)[n + 1] = t
  <2>1. Append(inputs[u], t) \in Seq(Tasks) /\ Len(Append(inputs[u], t)) = n + 1
    BY <1>3, <1>4, AppendProperties
  <2>. QED  BY <1>3, <1>4, <2>1, AppendProperties, LenProperties
<1>6. /\ t.jid = req[c].jid /\ t.from = c
  OBVIOUS
<1>. HIDE DEF u, t, n
<1>7. \A v, j : Waiting(v, j)' =
          IF v = u /\ j = req[c].jid THEN Waiting(v, j) \cup {c} ELSE Waiting(v, j)
  BY <1>1 DEF Waiting, Inv, Typed, HandlersTyped
<1>8. /\ inputs'[u] = Append(inputs[u], t)
      /\ \A v \in Units : v # u => inputs'[v] = inputs[v]
  BY <1>1, <1>3, <1>4
<1>9. /\ \A v \in Units : \A j : ~(v = u /\ j = req[c].jid) => Queued(v, j)' = Queued(v, j)
      /\ \A v \in Units : \A j : v = u /\ j = req[c].jid => Queued(v, j)' = Queued(v, j) \cup {n + 1}
      /\ \A v \in Units : \A j : Queued(v, j) \subseteq DOMAIN inputs[v]
  <2>1. DOMAIN inputs'[u] = DOMAIN inputs[u] \cup {n + 1} /\ n + 1 \notin DOMAIN inputs[u]
    BY <1>5, <1>8
  <2>2. /\ inputs'[u][n + 1].jid = req[c].jid
        /\ \A i \in DOMAIN inputs[u] : inputs'[u][i] = inputs[u][i]
    BY <1>5, <1>6, <1>8
  <2>3. \A v \in Units : \A j : v # u => Queued(v, j)' = Queued(v, j)
    BY <1>8, Zenon DEF Queued
  <2>4. \A v \in Units : \A j : v = u /\ j # req[c].jid => Queued(v, j)' = Queued(v, j)
    BY <2>1, <2>2 DEF Queued
  <2>5. \A v \in Units : \A j : v = u /\ j = req[c].jid => Queued(v, j)' = Queued(v, j) \cup {n + 1}
    BY <2>1, <2>2 DEF Queued
  <2>. QED  BY <2>3, <2>4, <2>5 DEF Queued
<1>10. \A v, j : Busy(v, j)' = Busy(v, j) /\ Ready(v, j)' = Ready(v, j)
  BY <1>1 DEF Busy, Ready
<1>11. TokensAreAwaited'
  <2>. SUFFICES ASSUME NEW v \in Units, NEW j \in Jids
                PROVE  /\ \A i \in Queued(v, j)' : inputs'[v][i].from \in Waiting(v, j)'
                       /\ \A s \in Busy(v, j)' : running'[v][s].from \in Waiting(v, j)'
                       /\ Ready(v, j)' => outputs'[v][j].from \in Waiting(v, j)'
    BY DEF TokensAreAwaited
  <2>1. Waiting(v, j) \subseteq Waiting(v, j)'
    BY <1>7
  <2>2. ASSUME NEW i \in Queued(v, j)' PROVE inputs'[v][i].from \in Waiting(v, j)'
    <3>1. CASE v = u /\ i = n + 1
      <4>1. j = req[c].jid
        BY <1>5, <1>6, <1>8, <2>2, <3>1 DEF Queued
      <4>. QED  BY <1>5, <1>6, <1>7, <1>8, <3>1, <4>1
    <3>2. CASE ~(v = u /\ i = n + 1)
      <4>1. i \in Queued(v, j)
        BY <1>9, <2>2, <3>2
      <4>2. inputs'[v][i] = inputs[v][i]
        BY <1>5, <1>8, <1>9, <3>2, <4>1
      <4>. QED  BY <2>1, <4>1, <4>2 DEF TokenInv, TokensAreAwaited
    <3>. QED  BY <3>1, <3>2
  <2>3. \A s \in Busy(v, j)' : running'[v][s].from \in Waiting(v, j)'
    BY <1>1, <1>10, <2>1 DEF TokenInv, TokensAreAwaited
  <2>4. Ready(v, j)' => outputs'[v][j].from \in Waiting(v, j)'
    BY <1>1, <1>10, <2>1 DEF TokenInv, TokensAreAwaited
  <2>. QED  BY <2>2, <2>3, <2>4
<1>12. WaitersHaveTokens'
  <2>. SUFFICES ASSUME NEW v \in Units, NEW j \in Jids, Waiting(v, j)' # {}
                PROVE  HasToken(v, j)'
    BY DEF WaitersHaveTokens
  <2>1. CASE v = u /\ j = req[c].jid
    BY <1>9, <2>1 DEF HasToken
  <2>2. CASE ~(v = u /\ j = req[c].jid)
    <3>1. HasToken(v, j)
      BY <1>7, <2>2 DEF TokenInv, WaitersHaveTokens
    <3>. QED  BY <1>9, <1>10, <2>2, <3>1 DEF HasToken
  <2>. QED  BY <2>1, <2>2
<1>. QED  BY <1>11, <1>12

LEMMA AnswerInputToken ==
    ASSUME Inv, TokenInv, NEW c \in Conns, AnswerInput(c)
    PROVE  TokensAreAwaited' /\ WaitersHaveTokens'
<1>. DEFINE u == unit[c]
            j == req[c].jid
<1>1. /\ pc[c] = "await" /\ outputs[u][j] # None
      /\ outputs' = [outputs EXCEPT ![u][j] = None]
      /\ inputs' = inputs /\ running' = running
  BY DEF AnswerInput
<1>2. /\ pc'[c] = "idle"
      /\ \A d \in Conns : d # c => pc'[d] = pc[d] /\ unit'[d] = unit[d] /\ req'[d] = req[d]
  BY DEF AnswerInput, Return, Inv, Typed, HandlersTyped
<1>3. u \in Units /\ j \in Jids
  BY <1>1 DEF Inv, HandlerUnitInv, RequestInv, Inputs
<1>4. c \in Waiting(u, j) /\ Ready(u, j)
  BY <1>1 DEF Waiting, Ready
<1>5. Waiting(u, j) = {c}
  BY <1>3, <1>4, OneWaiter DEF TokenInv
<1>6. Queued(u, j) = {} /\ Busy(u, j) = {}
  <2>1. Cardinality(Waiting(u, j)) = 1
    BY <1>5, FS_Singleton
  <2>2. Cardinality(Queued(u, j)) + Cardinality(Busy(u, j)) + 1 <= 1
    BY <1>3, <1>4, <2>1 DEF Inv, NoWorkWithoutWaiter, TokenCount
  <2>3. Cardinality(Queued(u, j)) = 0 /\ Cardinality(Busy(u, j)) = 0
    BY <1>3, <2>2, WorkIsFinite DEF Inv
  <2>. QED  BY <1>3, <2>3, WorkIsFinite, FS_EmptySet DEF Inv
<1>. HIDE DEF u, j
<1>7. \A v, k : ~(v = u /\ k = j) => Waiting(v, k)' = Waiting(v, k)
  BY <1>1, <1>2 DEF Waiting, u, j
<1>8. \A v, k : v = u /\ k = j => Waiting(v, k)' = {}
  BY <1>2, <1>5 DEF Waiting
<1>9. \A v \in Units, k \in Jids :
          outputs'[v][k] = IF v = u /\ k = j THEN None ELSE outputs[v][k]
  BY <1>1, <1>3 DEF Inv, Typed, UnitsTyped
<1>10. \A v, k : Queued(v, k)' = Queued(v, k) /\ Busy(v, k)' = Busy(v, k)
  BY <1>1 DEF Queued, Busy
<1>11. \A v \in Units, k \in Jids : Ready(v, k)' <=> (Ready(v, k) /\ ~(v = u /\ k = j))
  BY <1>9 DEF Ready
<1>12. ASSUME NEW v \in Units, NEW k \in Jids, v = u, k = j
       PROVE  Queued(v, k)' = {} /\ Busy(v, k)' = {} /\ ~Ready(v, k)' /\ Waiting(v, k)' = {}
  BY <1>6, <1>8, <1>10, <1>11, <1>12
<1>13. ASSUME NEW v \in Units, NEW k \in Jids, ~(v = u /\ k = j)
       PROVE  /\ Queued(v, k)' = Queued(v, k) /\ Busy(v, k)' = Busy(v, k)
              /\ (Ready(v, k)' <=> Ready(v, k)) /\ Waiting(v, k)' = Waiting(v, k)
              /\ outputs'[v][k] = outputs[v][k]
  BY <1>7, <1>9, <1>10, <1>11, <1>13
<1>14. TokensAreAwaited'
  BY <1>1, <1>12, <1>13 DEF TokenInv, TokensAreAwaited
<1>15. WaitersHaveTokens'
  BY <1>12, <1>13 DEF TokenInv, WaitersHaveTokens, HasToken
<1>. QED  BY <1>14, <1>15

LEMMA SlotTakeToken ==
    ASSUME Inv, TokenInv, NEW u \in Units, NEW s \in Slots, SlotTake(u, s)
    PROVE  TokensAreAwaited' /\ WaitersHaveTokens'
<1>. DEFINE n == Len(inputs[u])
            t == inputs[u][n]
            rest == SubSeq(inputs[u], 1, n - 1)
<1>1. /\ slotPc[u][s] = "poll" /\ n > 0
      /\ running' = [running EXCEPT ![u][s] = t]
      /\ inputs' = [inputs EXCEPT ![u] = rest]
      /\ outputs' = outputs
      /\ UNCHANGED <<tableVars, workerOf, handlerVars>>
  BY DEF SlotTake
<1>2. inputs[u] \in Seq(Tasks) /\ n \in Nat /\ DOMAIN inputs[u] = 1 .. n
  BY LenProperties DEF Inv, Typed, UnitsTyped
<1>3. t \in Tasks /\ t # None
  <2>1. n \in 1 .. n
    BY <1>1, <1>2
  <2>. QED  BY <1>2, <2>1, ElementOfSeq, ServerAssumption
<1>4. /\ DOMAIN rest = 1 .. n - 1
      /\ \A i \in 1 .. n - 1 : rest[i] = inputs[u][i]
  <2>1. \A i \in 1 .. n - 1 : inputs[u][i] \in Tasks
    BY <1>2, ElementOfSeq
  <2>2. /\ rest \in Seq(Tasks)
        /\ Len(rest) = IF 1 <= n - 1 THEN n - 1 - 1 + 1 ELSE 0
        /\ \A i \in 1 .. n - 1 - 1 + 1 : rest[i] = inputs[u][1 + i - 1]
    BY <1>2, <2>1, SubSeqProperties
  <2>3. Len(rest) = n - 1
    BY <1>1, <1>2, <2>2
  <2>4. DOMAIN rest = 1 .. n - 1
    BY <2>2, <2>3, LenProperties
  <2>. QED  BY <1>2, <2>2, <2>4
<1>5. running[u][s] = None
  BY <1>1 DEF Inv, RunInv
<1>. HIDE DEF n, t, rest
<1>6. /\ \A v, j : Waiting(v, j)' = Waiting(v, j)
      /\ \A v, j : Ready(v, j)' = Ready(v, j)
  BY <1>1 DEF Waiting, Ready, handlerVars
<1>7. /\ inputs'[u] = rest /\ \A v \in Units : v # u => inputs'[v] = inputs[v]
      /\ running'[u][s] = t
      /\ \A v \in Units, r \in Slots : ~(v = u /\ r = s) => running'[v][r] = running[v][r]
  BY <1>1 DEF Inv, Typed, UnitsTyped
<1>8. n \in 1 .. n /\ n \notin 1 .. n - 1 /\ 1 .. n - 1 = (1 .. n) \ {n}
  BY <1>1, <1>2
<1>9. \A v \in Units, j \in Jids :
          Queued(v, j)' = IF v = u THEN Queued(v, j) \ {n} ELSE Queued(v, j)
  BY <1>2, <1>4, <1>7, <1>8 DEF Queued
<1>10. \A v \in Units, j \in Jids :
          Busy(v, j)' = IF v = u /\ j = t.jid THEN Busy(v, j) \cup {s} ELSE Busy(v, j)
  BY <1>3, <1>5, <1>7 DEF Busy
<1>11. \A j \in Jids : n \in Queued(u, j) <=> j = t.jid
  BY <1>2, <1>8 DEF Queued, t
<1>12. TokensAreAwaited'
  <2>. SUFFICES ASSUME NEW v \in Units, NEW j \in Jids
                PROVE  /\ \A i \in Queued(v, j)' : inputs'[v][i].from \in Waiting(v, j)
                       /\ \A r \in Busy(v, j)' : running'[v][r].from \in Waiting(v, j)
                       /\ Ready(v, j) => outputs[v][j].from \in Waiting(v, j)
    BY <1>1, <1>6 DEF TokensAreAwaited
  <2>1. ASSUME NEW i \in Queued(v, j)' PROVE inputs'[v][i].from \in Waiting(v, j)
    <3>1. i \in Queued(v, j) /\ (v = u => i \in 1 .. n - 1)
      BY <1>2, <1>8, <1>9, <2>1 DEF Queued
    <3>2. inputs'[v][i] = inputs[v][i]
      BY <1>4, <1>7, <3>1
    <3>. QED  BY <3>1, <3>2 DEF TokenInv, TokensAreAwaited
  <2>2. ASSUME NEW r \in Busy(v, j)' PROVE running'[v][r].from \in Waiting(v, j)
    <3>1. CASE v = u /\ r = s
      <4>1. j = t.jid /\ n \in Queued(v, j)
        BY <1>7, <1>11, <2>2, <3>1 DEF Busy
      <4>. QED  BY <1>7, <3>1, <4>1 DEF TokenInv, TokensAreAwaited, t
    <3>2. CASE ~(v = u /\ r = s)
      <4>1. r \in Busy(v, j) /\ r \in Slots
        BY <1>10, <2>2, <3>2 DEF Busy
      <4>. QED  BY <1>7, <3>2, <4>1 DEF TokenInv, TokensAreAwaited
    <3>. QED  BY <3>1, <3>2
  <2>3. Ready(v, j) => outputs[v][j].from \in Waiting(v, j)
    BY DEF TokenInv, TokensAreAwaited
  <2>. QED  BY <2>1, <2>2, <2>3
<1>13. WaitersHaveTokens'
  <2>. SUFFICES ASSUME NEW v \in Units, NEW j \in Jids, Waiting(v, j) # {}
                PROVE  HasToken(v, j)'
    BY <1>6 DEF WaitersHaveTokens
  <2>1. HasToken(v, j)
    BY DEF TokenInv, WaitersHaveTokens
  <2>2. CASE v = u /\ j = t.jid
    BY <1>10, <2>2 DEF HasToken
  <2>3. CASE ~(v = u /\ j = t.jid)
    BY <1>6, <1>9, <1>10, <1>11, <2>1, <2>3 DEF HasToken
  <2>. QED  BY <2>2, <2>3
<1>. QED  BY <1>12, <1>13

LEMMA SlotFinishToken ==
    ASSUME Inv, TokenInv, NEW u \in Units, NEW s \in Slots, SlotFinish(u, s)
    PROVE  TokensAreAwaited' /\ WaitersHaveTokens'
<1>. DEFINE t == running[u][s]
<1>1. PICK ok \in BOOLEAN :
          outputs' = [outputs EXCEPT ![u][t.jid] = [from |-> t.from, spawned |-> ok]]
  BY DEF SlotFinish, StoreResult
<1>2. /\ slotPc[u][s] = "run" /\ running' = [running EXCEPT ![u][s] = None]
      /\ inputs' = inputs
      /\ UNCHANGED <<tableVars, workerOf, handlerVars>>
  BY DEF SlotFinish
<1>3. t \in Tasks /\ t # None /\ t.jid \in Jids
  BY <1>2 DEF Inv, RunInv, Typed, UnitsTyped, Tasks
<1>4. [from |-> t.from, spawned |-> ok] # None /\ [from |-> t.from, spawned |-> ok].from = t.from
  BY <1>3, ServerAssumption DEF Tasks, Results
<1>. HIDE DEF t
<1>5. /\ \A v, j : Waiting(v, j)' = Waiting(v, j)
      /\ \A v, j : Queued(v, j)' = Queued(v, j)
  BY <1>2 DEF Waiting, Queued, handlerVars
<1>6. /\ running'[u][s] = None
      /\ \A v \in Units, r \in Slots : ~(v = u /\ r = s) => running'[v][r] = running[v][r]
  BY <1>2 DEF Inv, Typed, UnitsTyped
<1>7. \A v \in Units, j \in Jids :
          outputs'[v][j] = IF v = u /\ j = t.jid THEN [from |-> t.from, spawned |-> ok]
                           ELSE outputs[v][j]
  BY <1>1, <1>3 DEF Inv, Typed, UnitsTyped
<1>8. s \in Busy(u, t.jid)
  BY <1>3 DEF Busy, t
<1>9. t.from \in Waiting(u, t.jid)
  BY <1>3, <1>8 DEF TokenInv, TokensAreAwaited, t
<1>10. \A v \in Units, j \in Jids :
          Ready(v, j)' <=> (Ready(v, j) \/ (v = u /\ j = t.jid))
  BY <1>4, <1>7 DEF Ready
<1>11. \A v \in Units, j \in Jids : Busy(v, j)' \subseteq Busy(v, j)
  BY <1>6 DEF Busy
<1>12. \A v \in Units, j \in Jids : ~(v = u /\ j = t.jid) => Busy(v, j)' = Busy(v, j)
  BY <1>6 DEF Busy, t
<1>13. TokensAreAwaited'
  <2>. SUFFICES ASSUME NEW v \in Units, NEW j \in Jids
                PROVE  /\ \A i \in Queued(v, j) : inputs[v][i].from \in Waiting(v, j)
                       /\ \A r \in Busy(v, j)' : running'[v][r].from \in Waiting(v, j)
                       /\ Ready(v, j)' => outputs'[v][j].from \in Waiting(v, j)
    BY <1>2, <1>5 DEF TokensAreAwaited
  <2>1. \A i \in Queued(v, j) : inputs[v][i].from \in Waiting(v, j)
    BY DEF TokenInv, TokensAreAwaited
  <2>2. ASSUME NEW r \in Busy(v, j)' PROVE running'[v][r].from \in Waiting(v, j)
    <3>1. r \in Busy(v, j) /\ r \in Slots /\ ~(v = u /\ r = s)
      BY <1>6, <1>11, <2>2 DEF Busy
    <3>. QED  BY <1>6, <3>1 DEF TokenInv, TokensAreAwaited
  <2>3. ASSUME Ready(v, j)' PROVE outputs'[v][j].from \in Waiting(v, j)
    BY <1>4, <1>7, <1>9, <1>10, <2>3 DEF TokenInv, TokensAreAwaited
  <2>. QED  BY <2>1, <2>2, <2>3
<1>14. WaitersHaveTokens'
  BY <1>5, <1>10, <1>12 DEF TokenInv, WaitersHaveTokens, HasToken
<1>. QED  BY <1>13, <1>14

-----------------------------------------------------------------------------
(* One token each.                                                          *)

LEMMA TokenInvNext == ASSUME Inv, TokenInv, Exclusive', Next PROVE TokenInv'
<1>1. TokensAreAwaited' /\ WaitersHaveTokens'
  BY QuietTokenStep, SubmitInputToken, AnswerInputToken, SlotTakeToken, SlotFinishToken
<1>. QED  BY <1>1 DEF TokenInv

LEMMA TokenInvStutter == ASSUME TokenInv, UNCHANGED vars PROVE TokenInv'
<1>1. /\ pc' = pc /\ req' = req /\ unit' = unit
      /\ inputs' = inputs /\ outputs' = outputs /\ running' = running
  BY DEF vars, handlerVars, unitVars
<1>. QED  BY <1>1, TokensStay DEF TokenInv, Exclusive

LEMMA TokenInvInit == ASSUME Init PROVE TokenInv
<1>1. \A u, j : Waiting(u, j) = {}
  BY DEF Init, Waiting
<1>2. \A u \in Units, j \in Jids : Queued(u, j) = {} /\ Busy(u, j) = {} /\ ~Ready(u, j)
  BY DEF Init, Queued, Busy, Ready
<1>3. Exclusive
  BY ServerAssumption DEF Init, Exclusive, Requests
<1>. QED  BY <1>1, <1>2, <1>3 DEF TokenInv, TokensAreAwaited, WaitersHaveTokens

(* Inv and TokenInv together are the invariant of the behaviours without    *)
(* overlapping sends.                                                       *)
THEOREM TokenInvariance == ~Overlap => (Spec => [](Inv /\ TokenInv))
<1>. SUFFICES ASSUME ~Overlap PROVE Spec => [](Inv /\ TokenInv)
  OBVIOUS
<1>1. Init => TokenInv
  BY TokenInvInit
<1>2. Inv /\ TokenInv /\ [Next]_vars => TokenInv'
  BY ExclusiveStep, TokenInvNext, TokenInvStutter DEF TokenInv
<1>. QED  BY <1>1, <1>2, Invariance, PTL DEF Spec

LEMMA OneTokenIs == ASSUME Inv, TokenInv PROVE WaiterHasItsOneToken
<1>. SUFFICES ASSUME NEW c \in Conns, pc[c] = "await"
              PROVE  LET u == unit[c]
                         j == req[c].jid
                     IN  /\ TokenCount(u, j) = 1
                         /\ \A i \in Queued(u, j) : inputs[u][i].from = c
                         /\ \A s \in Busy(u, j) : running[u][s].from = c
                         /\ Ready(u, j) => outputs[u][j].from = c
  BY DEF WaiterHasItsOneToken
<1>. DEFINE u == unit[c]
            j == req[c].jid
<1>1. u \in Units /\ j \in Jids
  BY DEF Inv, HandlerUnitInv, RequestInv, Inputs
<1>2. c \in Waiting(u, j)
  BY DEF Waiting
<1>. HIDE DEF u, j
<1>3. Waiting(u, j) = {c}
  BY <1>1, <1>2, OneWaiter DEF TokenInv
<1>4. TokenCount(u, j) <= 1
  <2>1. Cardinality(Waiting(u, j)) = 1
    BY <1>3, FS_Singleton
  <2>. QED  BY <1>1, <2>1 DEF Inv, NoWorkWithoutWaiter
<1>5. HasToken(u, j)
  BY <1>1, <1>3 DEF TokenInv, WaitersHaveTokens
<1>6. TokenCount(u, j) # 0
  <2>1. /\ Cardinality(Queued(u, j)) \in Nat /\ Cardinality(Busy(u, j)) \in Nat
        /\ Queued(u, j) # {} => Cardinality(Queued(u, j)) # 0
        /\ Busy(u, j) # {} => Cardinality(Busy(u, j)) # 0
    BY <1>1, WorkIsFinite, FS_EmptySet DEF Inv
  <2>. QED  BY <1>5, <2>1 DEF HasToken, TokenCount
<1>7. TokenCount(u, j) = 1
  BY <1>1, <1>4, <1>6, WorkIsFinite DEF Inv
<1>8. /\ \A i \in Queued(u, j) : inputs[u][i].from = c
      /\ \A s \in Busy(u, j) : running[u][s].from = c
      /\ Ready(u, j) => outputs[u][j].from = c
  BY <1>1, <1>3 DEF TokenInv, TokensAreAwaited
<1>. QED  BY <1>7, <1>8 DEF u, j

(* A handler that waits has exactly one token, its own: its work is neither *)
(* lost nor doubled, and the result it takes is that of its own input.      *)
THEOREM OneTokenEach == ~Overlap => (Spec => []WaiterHasItsOneToken)
<1>. SUFFICES ASSUME ~Overlap PROVE Spec => []WaiterHasItsOneToken
  OBVIOUS
<1>1. Inv /\ TokenInv => WaiterHasItsOneToken
  BY OneTokenIs
<1>. QED  BY <1>1, TokenInvariance, PTL

-----------------------------------------------------------------------------
(* The refinement.                                                          *)

(* The IDs that name a command, which JobService has as a variable.         *)
LiveIds == {k - 1 : k \in {i \in DOMAIN commands : commands[i] # None}}

(* A handler that registers a command has a Command request, and one that   *)
(* lists the commands a GetCommands request.                                *)
PlainInv ==
    \A c \in Conns :
        /\ pc[c] = "register" => req[c] = [op |-> "com"]
        /\ pc[c] = "list" => req[c] = [op |-> "comms"]

LEMMA PlainInvNext == ASSUME Inv, PlainInv, [Next]_vars PROVE PlainInv'
<1>1. /\ pc \in [Conns -> {"idle", "queued", "register", "submit", "await",
                           "stop", "park", "list"}]
      /\ req \in [Conns -> Requests \cup {None}]
  BY DEF Inv, Typed, HandlersTyped
<1>2. ASSUME NEW c \in Conns, Arrivals(c) PROVE PlainInv'
  BY <1>1, <1>2 DEF PlainInv, Arrivals, ArriveCommand, ArriveInput, ArriveStop, ArriveQuery,
                    Arrive
<1>3. ASSUME NEW c \in Conns, SpawnSlots(c) \/ TakeInput(c) \/ TakeStop(c) \/ TakeList(c)
                                  \/ SubmitInput(c) \/ SignalKill(c)
      PROVE  PlainInv'
  BY <1>1, <1>3 DEF PlainInv, SpawnSlots, TakeInput, TakeStop, TakeList, SubmitInput, SignalKill
<1>4. ASSUME NEW c \in Conns,
             RegisterCommand(c) \/ RejectInput(c) \/ AnswerInput(c) \/ StopNothing(c)
                 \/ RemoveCommand(c) \/ ReportCores(c) \/ ListCommands(c)
      PROVE  PlainInv'
  BY <1>1, <1>4 DEF PlainInv, RegisterCommand, RejectInput, AnswerInput, StopNothing,
                    RemoveCommand, ReportCores, ListCommands, Return
<1>5. ASSUME NEW u \in Units, NEW s \in Slots, Slot(u, s) PROVE PlainInv'
  BY <1>5 DEF PlainInv, Slot, SlotContinue, SlotPark, SlotIdle, SlotTake, SlotFinish,
              handlerVars
<1>6. ASSUME UNCHANGED vars PROVE PlainInv'
  BY <1>6 DEF PlainInv, vars, handlerVars
<1>. QED  BY <1>2, <1>3, <1>4, <1>5, <1>6 DEF Next, Handler

LEMMA LiveIdsAreLookedUp ==
    ASSUME TableTyped, NEW cid \in Nat
    PROVE  cid \in LiveIds <=> LookUp(cid) # None
<1>1. DOMAIN commands = 1 .. Len(commands) /\ Len(commands) \in Nat
  BY LenProperties DEF TableTyped
<1>2. cid \in LiveIds <=> (cid + 1 \in DOMAIN commands /\ commands[cid + 1] # None)
  BY <1>1 DEF LiveIds
<1>3. cid < Len(commands) <=> cid + 1 \in DOMAIN commands
  BY <1>1
<1>. QED  BY <1>2, <1>3 DEF LookUp

(* The first vacant entry is the lowest ID that names nothing.              *)
LEMMA FirstVacantIsLowest ==
    ASSUME TableTyped, NEW k \in 1 .. Len(commands) + 1, FirstVacant(k)
    PROVE  /\ k - 1 \in (0 .. Cardinality(LiveIds)) \ LiveIds
           /\ 0 .. (k - 1) - 1 \subseteq LiveIds
<1>1. DOMAIN commands = 1 .. Len(commands) /\ Len(commands) \in Nat
  BY LenProperties DEF TableTyped
<1>2. k \in Nat \ {0}
  BY <1>1
<1>3. 0 .. (k - 1) - 1 \subseteq LiveIds
  <2>. SUFFICES ASSUME NEW i \in 0 .. (k - 1) - 1 PROVE i \in LiveIds
    OBVIOUS
  <2>1. i + 1 \in 1 .. k - 1 /\ i + 1 \in DOMAIN commands /\ i = (i + 1) - 1
    BY <1>1, <1>2
  <2>2. commands[i + 1] # None
    BY <2>1 DEF FirstVacant
  <2>. QED  BY <2>1, <2>2 DEF LiveIds
<1>4. k - 1 \notin LiveIds
  <2>1. \A i \in DOMAIN commands : i - 1 = k - 1 => commands[i] = None
    BY <1>1, <1>2 DEF FirstVacant
  <2>. QED  BY <2>1 DEF LiveIds
<1>5. k - 1 <= Cardinality(LiveIds) /\ Cardinality(LiveIds) \in Nat
  <2>1. IsFiniteSet(LiveIds)
    <3>1. LiveIds \in SUBSET (0 .. Len(commands))
      BY <1>1 DEF LiveIds
    <3>2. 0 \in Int /\ Len(commands) \in Int
      BY <1>1
    <3>3. IsFiniteSet(0 .. Len(commands))
      BY <3>2, FS_Interval, Zenon
    <3>. QED  BY <3>1, <3>3, FS_Subset, Zenon
  <2>2. Cardinality(0 .. (k - 1) - 1) = k - 1
    <3>1. 0 \in Int /\ (k - 1) - 1 \in Int
      BY <1>2
    <3>2. Cardinality(0 .. (k - 1) - 1) = IF 0 > (k - 1) - 1 THEN 0 ELSE (k - 1) - 1 - 0 + 1
      BY <3>1, FS_Interval, Zenon
    <3>. QED  BY <1>2, <3>2
  <2>3. Cardinality(0 .. (k - 1) - 1) <= Cardinality(LiveIds)
    BY <1>3, <2>1, FS_Subset, Zenon
  <2>4. Cardinality(LiveIds) \in Nat
    BY <2>1, FS_CardinalityType, Zenon
  <2>. QED  BY <2>2, <2>3, <2>4
<1>. QED  BY <1>2, <1>3, <1>4, <1>5

(* A step that neither answers, nor changes the table, the requests or the  *)
(* readers, is work the service does not show.                              *)
LEMMA WorkStep ==
    ASSUME commands' = commands, req' = req, readers' = readers, sent' = None
    PROVE  Service!Next
<1>1. LiveIds' = LiveIds
  BY DEF LiveIds
<1>. QED  BY <1>1 DEF Service!Next, Service!Work, LiveIds

LEMMA AskStep == ASSUME Inv, NEW c \in Conns, Arrivals(c) PROVE Service!Next
<1>1. ASSUME NEW r \in Requests, Arrive(c, r) PROVE Service!Next
  <2>1. req[c] = None /\ req' = [req EXCEPT ![c] = r] /\ sent' = None
    BY <1>1 DEF Arrive, Inv, RequestInv
  <2>2. readers' = readers /\ commands' = commands
    BY <1>1 DEF Arrive, tableVars
  <2>3. r \in Service!Requests
    BY DEF Requests, Inputs, Stops, Plain, Service!Requests, Service!Inputs, Service!Stops
  <2>4. Service!Ask(c)
    BY <2>1, <2>2, <2>3 DEF Service!Ask
  <2>. QED  BY <2>4 DEF Service!Next
<1>2. CASE ArriveCommand(c) \/ ArriveQuery(c)
  BY <1>1, <1>2 DEF ArriveCommand, ArriveQuery, Requests, Plain
<1>3. CASE ArriveInput(c) \/ ArriveStop(c)
  BY <1>1, <1>3 DEF ArriveInput, ArriveStop, Requests
<1>. QED  BY <1>2, <1>3 DEF Arrivals

(* The ID of a new command is the lowest that names nothing.                *)
LEMMA CreateStep ==
    ASSUME Inv, PlainInv, NEW c \in Conns, RegisterCommand(c) PROVE Service!Next
<1>1. PICK k \in 1 .. Len(commands) + 1 :
          /\ FirstVacant(k) /\ commands' = Stored(k, unit[c])
          /\ Return(c, [to |-> c, kind |-> "id", cid |-> k - 1])
  BY DEF RegisterCommand
<1>2. /\ req[c] = [op |-> "com"] /\ readers' = readers
      /\ unit[c] \in Units /\ unit[c] # None
  BY ServerAssumption DEF RegisterCommand, PlainInv, Inv, HandlerUnitInv
<1>3. TableTyped
  BY DEF Inv, Typed
<1>4. /\ commands'[k] = unit[c]
      /\ DOMAIN commands' = DOMAIN commands \cup {k}
      /\ \A i \in DOMAIN commands \ {k} : commands'[i] = commands[i]
  <2>1. /\ Stored(k, unit[c])[k] = unit[c]
        /\ DOMAIN Stored(k, unit[c]) = DOMAIN commands \cup {k}
        /\ \A i \in DOMAIN commands \ {k} : Stored(k, unit[c])[i] = commands[i]
    BY <1>2, <1>3, StoredProperties, Zenon
  <2>. QED  BY <1>1, <2>1, Zenon
<1>5. LiveIds' = LiveIds \cup {k - 1}
  <2>1. Len(commands) \in Nat /\ DOMAIN commands = 1 .. Len(commands)
    BY <1>3, LenProperties DEF TableTyped
  <2>2. k \in DOMAIN commands => commands[k] = None
    BY <1>1, <2>1 DEF FirstVacant
  <2>3. {i \in DOMAIN commands' : commands'[i] # None}
            = {i \in DOMAIN commands : commands[i] # None} \cup {k}
    BY <1>2, <1>4, <2>2
  <2>. QED  BY <2>3 DEF LiveIds
<1>6. k - 1 \in (0 .. Cardinality(LiveIds)) \ LiveIds /\ 0 .. (k - 1) - 1 \subseteq LiveIds
  BY <1>1, <1>3, FirstVacantIsLowest
<1>7. Service!Reply(c, [to |-> c, kind |-> "id", cid |-> k - 1])
  BY <1>1 DEF Return, Service!Reply
<1>8. \E m \in (0 .. Cardinality(LiveIds)) \ LiveIds :
          /\ 0 .. m - 1 \subseteq LiveIds
          /\ LiveIds' = LiveIds \cup {m}
          /\ Service!Reply(c, [to |-> c, kind |-> "id", cid |-> m])
  <2>. HIDE DEF LiveIds
  <2>. QED  BY <1>5, <1>6, <1>7, Zenon
<1>9. Service!Create(c)
  <2>1. \A S : Service!Cardinality(S) = Cardinality(S)
    BY Zenon DEF Cardinality, Service!Cardinality
  <2>. QED  BY <1>2, <1>8, <2>1, Zenon DEF Service!Create, LiveIds
<1>. QED  BY <1>9 DEF Service!Next

LEMMA AcceptStep == ASSUME Inv, NEW c \in Conns, SubmitInput(c) PROVE Service!Next
<1>1. /\ pc[c] = "submit" /\ LookUp(req[c].cid) # None
      /\ readers' = readers \cup {c} /\ commands' = commands /\ req' = req /\ sent' = None
  BY DEF SubmitInput, KeepReadLock
<1>2. req[c] \in Inputs /\ req[c].cid \in Nat
  BY <1>1, ServerAssumption DEF Inv, RequestInv, Inputs
<1>3. req[c].cid \in LiveIds
  BY <1>1, <1>2, LiveIdsAreLookedUp DEF Inv, Typed
<1>4. c \notin readers
  BY <1>1 DEF Inv, LockInv
<1>5. LiveIds' = LiveIds
  BY <1>1 DEF LiveIds
<1>6. Service!Accept(c)
  BY <1>1, <1>2, <1>3, <1>4, <1>5 DEF Service!Accept, Service!Inputs, Inputs, LiveIds
<1>. QED  BY <1>6 DEF Service!Next

LEMMA RejectStep == ASSUME Inv, NEW c \in Conns, RejectInput(c) PROVE Service!Next
<1>1. /\ pc[c] = "submit" /\ LookUp(req[c].cid) = None
      /\ readers' = readers /\ commands' = commands
      /\ Return(c, [to |-> c, kind |-> "error", jid |-> req[c].jid])
  BY DEF RejectInput, tableVars
<1>2. req[c] \in Inputs /\ req[c].cid \in Nat
  BY <1>1, ServerAssumption DEF Inv, RequestInv, Inputs
<1>3. req[c].cid \notin LiveIds
  BY <1>1, <1>2, LiveIdsAreLookedUp DEF Inv, Typed
<1>4. c \notin readers
  BY <1>1 DEF Inv, LockInv
<1>5. LiveIds' = LiveIds
  BY <1>1 DEF LiveIds
<1>6. Service!Reject(c)
  BY <1>1, <1>2, <1>3, <1>4, <1>5
     DEF Return, Service!Reject, Service!Reply, Service!Inputs, Inputs, LiveIds
<1>. QED  BY <1>6 DEF Service!Next

(* An answer is the output of the connection's own input.                   *)
LEMMA AnswerStep == ASSUME Inv, TokenInv, NEW c \in Conns, AnswerInput(c) PROVE Service!Next
<1>. DEFINE u == unit[c]
            j == req[c].jid
            r == outputs[u][j]
<1>1. /\ pc[c] = "await" /\ r # None
      /\ readers' = readers \ {c} /\ commands' = commands
      /\ Return(c, IF r.spawned
                   THEN [to |-> c, kind |-> "output", jid |-> j, from |-> r.from]
                   ELSE [to |-> c, kind |-> "error", jid |-> j])
  BY DEF AnswerInput
<1>2. u \in Units /\ j \in Jids
  BY <1>1 DEF Inv, HandlerUnitInv, RequestInv, Inputs
<1>3. r.from = c
  <2>1. c \in Waiting(u, j) /\ Ready(u, j)
    BY <1>1 DEF Waiting, Ready
  <2>2. r.from \in Waiting(u, j)
    BY <1>2, <2>1 DEF TokenInv, TokensAreAwaited
  <2>. HIDE DEF u, j
  <2>. QED  BY <1>2, <2>1, <2>2, OneWaiter DEF TokenInv
<1>4. c \in readers
  BY <1>1 DEF Inv, LockInv
<1>5. LiveIds' = LiveIds
  BY <1>1 DEF LiveIds
<1>6. \/ Service!Reply(c, [to |-> c, kind |-> "output", jid |-> j, from |-> c])
      \/ Service!Reply(c, [to |-> c, kind |-> "error", jid |-> j])
  BY <1>1, <1>3 DEF Return, Service!Reply
<1>7. Service!Answer(c)
  BY <1>1, <1>4, <1>5, <1>6 DEF Service!Answer, LiveIds
<1>. QED  BY <1>7 DEF Service!Next

LEMMA DeleteStep ==
    ASSUME Inv, NEW c \in Conns, StopNothing(c) \/ RemoveCommand(c) PROVE Service!Next
<1>. DEFINE reply == [to |-> c, kind |-> "deleted", cid |-> req[c].cid]
<1>1. /\ pc[c] \in {"stop", "park"} /\ readers' = readers
      /\ req' = [req EXCEPT ![c] = None] /\ sent' = reply
  BY DEF StopNothing, RemoveCommand, Return, tableVars
<1>2. req[c] \in Stops /\ req[c].cid \in Nat
  BY <1>1, ServerAssumption DEF Inv, RequestInv, Stops
<1>3. readers = {}
  BY ServerAssumption DEF StopNothing, CanWrite, RemoveCommand, Inv, LockInv
<1>4. LiveIds' = LiveIds \ {req[c].cid}
  <2>1. CASE StopNothing(c)
    <3>1. commands' = commands /\ LookUp(req[c].cid) = None
      BY <2>1 DEF StopNothing, tableVars
    <3>2. req[c].cid \notin LiveIds
      BY <1>2, <3>1, LiveIdsAreLookedUp DEF Inv, Typed
    <3>3. LiveIds' = LiveIds
      BY <3>1 DEF LiveIds
    <3>. QED  BY <3>2, <3>3
  <2>2. CASE RemoveCommand(c)
    <3>. DEFINE k == req[c].cid + 1
    <3>1. commands' = [commands EXCEPT ![k] = None] /\ pc[c] = "park"
      BY <2>2 DEF RemoveCommand
    <3>2. LookUp(req[c].cid) # None
      BY <3>1, ServerAssumption DEF Inv, HandlerUnitInv, HeldCommandStays
    <3>3. k \in DOMAIN commands
      BY <1>2, <3>2, LookUpRegistered DEF Inv, Typed
    <3>4. /\ commands'[k] = None /\ DOMAIN commands' = DOMAIN commands
          /\ \A i \in DOMAIN commands \ {k} : commands'[i] = commands[i]
      BY <3>1, <3>3, ClearedProperties DEF Inv, Typed
    <3>5. {i \in DOMAIN commands' : commands'[i] # None}
              = {i \in DOMAIN commands : commands[i] # None} \ {k}
      BY <3>3, <3>4
    <3>6. DOMAIN commands = 1 .. Len(commands) /\ Len(commands) \in Nat
      BY LenProperties DEF Inv, Typed, TableTyped
    <3>. QED  BY <1>2, <3>5, <3>6 DEF LiveIds
  <2>. QED  BY <2>1, <2>2
<1>5. Service!Delete(c)
  BY <1>1, <1>2, <1>3, <1>4
     DEF Service!Delete, Service!Reply, Service!Stops, Stops, LiveIds
<1>. QED  BY <1>5 DEF Service!Next

LEMMA QueryStep ==
    ASSUME Inv, PlainInv, NEW c \in Conns, ReportCores(c) \/ ListCommands(c)
    PROVE  Service!Next
<1>1. commands' = commands /\ readers' = readers
  BY DEF ReportCores, ListCommands, tableVars
<1>2. LiveIds' = LiveIds
  BY <1>1 DEF LiveIds
<1>3. \/ /\ req[c] = [op |-> "cores"]
         /\ Service!Reply(c, [to |-> c, kind |-> "cores", cores |-> Cores])
      \/ /\ req[c] = [op |-> "comms"]
         /\ Service!Reply(c, [to |-> c, kind |-> "commands", cids |-> LiveIds])
  BY DEF ReportCores, ListCommands, Return, PlainInv, Service!Reply, LiveIds
<1>4. Service!Query(c)
  BY <1>1, <1>2, <1>3 DEF Service!Query, LiveIds
<1>. QED  BY <1>4 DEF Service!Next

LEMMA ServiceStep == ASSUME Inv, PlainInv, TokenInv, Next PROVE Service!Next
<1>1. ASSUME NEW c \in Conns,
             SpawnSlots(c) \/ TakeInput(c) \/ TakeStop(c) \/ TakeList(c) \/ SignalKill(c)
      PROVE  Service!Next
  <2>1. commands' = commands /\ req' = req /\ readers' = readers /\ sent' = None
    BY <1>1 DEF SpawnSlots, TakeInput, TakeStop, TakeList, SignalKill, tableVars
  <2>. QED  BY <2>1, WorkStep
<1>2. ASSUME NEW c \in Conns, Handler(c) PROVE Service!Next
  BY <1>1, <1>2, CreateStep, AcceptStep, RejectStep, AnswerStep, DeleteStep, QueryStep
     DEF Handler
<1>3. ASSUME NEW u \in Units, NEW s \in Slots, Slot(u, s) PROVE Service!Next
  <2>1. commands' = commands /\ req' = req /\ readers' = readers /\ sent' = None
    BY <1>3 DEF Slot, SlotContinue, SlotPark, SlotIdle, SlotTake, SlotFinish, tableVars,
                handlerVars
  <2>. QED  BY <2>1, WorkStep
<1>. QED  BY <1>2, <1>3, AskStep DEF Next

LEMMA ServiceInit == ASSUME Init PROVE Service!Init /\ PlainInv
<1>1. LiveIds = {}
  BY DEF Init, LiveIds
<1>. QED  BY <1>1 DEF Init, PlainInv, Service!Init, LiveIds

LEMMA ServiceStutter == ASSUME UNCHANGED vars PROVE UNCHANGED Service!vars
<1>1. commands' = commands /\ req' = req /\ readers' = readers /\ sent' = sent
  BY DEF vars, tableVars, handlerVars
<1>. QED  BY <1>1 DEF Service!vars

(* The job server implements the abstract service: every step of a handler, *)
(* a slot or a client is a step of JobService, or one it does not show.     *)
THEOREM ServerImplementsService == ~Overlap => (Spec => ImplementsService)
<1>. SUFFICES ASSUME ~Overlap PROVE Spec => Service!Spec
  BY DEF ImplementsService
<1>1. Init => Service!Init /\ PlainInv
  BY ServiceInit
<1>2. Inv /\ PlainInv /\ [Next]_vars => PlainInv'
  BY PlainInvNext
<1>3. Inv /\ PlainInv /\ TokenInv /\ [Next]_vars => [Service!Next]_Service!vars
  BY ServiceStep, ServiceStutter
<1>. QED  BY <1>1, <1>2, <1>3, Invariance, TokenInvariance, PTL DEF Spec, Service!Spec

=============================================================================
