-------------------------- MODULE ClientStart_proofs --------------------------
(***************************************************************************)
(* The start and the end of a client, for every configuration, every       *)
(* command line and every way its nodes and their streams may fail.        *)
(***************************************************************************)
EXTENDS ClientStart, Lemmas

-----------------------------------------------------------------------------
(* The inductive invariant, by parts.                                       *)

(* A node that was not called yet has nothing from the client.              *)
FarInv ==
    \A n \in Nodes : stream[n] = "none" => wire[n] = None /\ ~live[n]

Dialling == {"certificate", "tcp", "tls", "cores", "id"}

(* Where the client is with its nodes: there is one more to call as long as *)
(* it dials, and a stream to that one only while it waits for a reply.      *)
DialInv ==
    /\ pc \in {"config", "arguments"} => conns = 0
    /\ pc \in Dialling => conns < config.nodes
    /\ pc \notin {"cores", "id", End} => \A n \in Nodes : n > conns => stream[n] = "none"
    /\ pc \in {"cores", "id"} => \A n \in Nodes : n = conns + 1 => stream[n] # "none"
    /\ skipped => pc = End

(* A client that has ended has told every node it could still reach to      *)
(* forget the command, and nothing it wrote before is under way any more.   *)
EndInv ==
    (pc = End /\ ~skipped) =>
        \A n \in Nodes : stream[n] = "up" => wire[n] = "del" \/ (wire[n] = None /\ ~live[n])

Inv == TypeOK /\ FarInv /\ DialInv /\ EndInv

LEMMA InvInit == ASSUME Init PROVE Inv
<1>1. TypeOK
  <2>1. config \in [state : {"missing", "good", "bad"}, nodes : 0 .. MaxNodes]
    <3>1. 0 \in 0 .. MaxNodes
      BY StartAssumption
    <3>2. [state : {"good"}, nodes : 0 .. MaxNodes]
             \cup [state : {"missing", "bad"}, nodes : {0}]
               \subseteq [state : {"missing", "good", "bad"}, nodes : 0 .. MaxNodes]
      BY <3>1
    <3>. QED  BY <3>2 DEF Init
  <2>2. conns \in 0 .. config.nodes
    <3>1. config.nodes \in 0 .. MaxNodes
      BY <2>1
    <3>. QED  BY <3>1, StartAssumption DEF Init
  <2>3. ctries \in 0 .. 3 /\ etries \in 0 .. 3
    BY DEF Init
  <2>4. /\ stream \in [Nodes -> {"none", "up", "lost"}]
        /\ wire \in [Nodes -> {None, "get", "cores", "com", "id", "del"}]
        /\ live \in [Nodes -> BOOLEAN]
        /\ \A n \in Nodes : stream[n] = "none"
    BY DEF Init
  <2>5. pc = "config" /\ skipped = FALSE
    BY DEF Init
  <2>. QED  BY <2>1, <2>2, <2>3, <2>4, <2>5 DEF TypeOK
<1>. QED  BY <1>1 DEF Init, Inv, FarInv, DialInv, EndInv, Dialling, End

(* conns counts the Connections, and the nodes are numbered.                *)
LEMMA Numbers ==
    ASSUME Inv
    PROVE  /\ MaxNodes \in Nat /\ config.nodes \in Nat /\ config.nodes <= MaxNodes /\ conns \in Nat
           /\ conns <= config.nodes
           /\ Nodes = 1 .. MaxNodes
           /\ conns < config.nodes => conns + 1 \in Nodes
<1>1. config.nodes \in 0 .. MaxNodes /\ conns \in 0 .. config.nodes /\ MaxNodes \in Nat
  BY StartAssumption DEF Inv, TypeOK
<1>. QED  BY <1>1 DEF Nodes

-----------------------------------------------------------------------------
(* The end: the stream of a node without a Connection is not up.            *)

LEMMA LeaveStep ==
    ASSUME Inv, Leave, \A n \in Nodes : n > conns => stream[n] # "up", ~skipped
    PROVE  Inv'
<1>. USE DEF Inv
<1>1. /\ pc' = End
      /\ wire' = [n \in Nodes |-> IF n <= conns /\ stream[n] = "up" THEN "del" ELSE wire[n]]
      /\ UNCHANGED <<config, stdin, args, arguments, certified, conns, ctries, etries, stream, live,
                     skipped>>
  BY DEF Leave, DropConnections, inputVars, dialVars
<1>2. TypeOK'
  BY <1>1 DEF TypeOK
<1>3. FarInv'
  BY <1>1 DEF FarInv
<1>4. DialInv'
  BY <1>1 DEF DialInv, Dialling, End
<1>5. EndInv'
  <2>1. ASSUME NEW n \in Nodes, stream[n] = "up" PROVE wire'[n] = "del"
    <3>1. n <= conns
      BY <2>1, Numbers
    <3>. QED  BY <1>1, <2>1, <3>1
  <2>. QED  BY <1>1, <2>1 DEF EndInv
<1>. QED  BY <1>2, <1>3, <1>4, <1>5

LEMMA EndingStep == ASSUME Inv, GiveUp \/ MissReply \/ Finish PROVE Inv'
<1>1. Leave
  BY DEF GiveUp, MissReply, Finish
<1>2. pc \in {"tcp", "tls", "cores", "id", "run"}
  BY DEF GiveUp, MissReply, Finish
<1>3. ~skipped
  BY <1>2 DEF Inv, DialInv, End
<1>4. ASSUME NEW n \in Nodes, n > conns PROVE stream[n] # "up"
  <2>1. CASE GiveUp \/ Finish
    <3>1. pc \notin {"cores", "id", End}
      BY <2>1 DEF GiveUp, Finish, End
    <3>. QED  BY <1>4, <3>1 DEF Inv, DialInv
  <2>2. CASE MissReply
    <3>1. n = conns + 1 \/ n > conns + 1
      BY <1>4, Numbers
    <3>2. stream[conns + 1] = "lost"
      BY <2>2 DEF MissReply
    <3>3. n > conns + 1 => stream[n] = "none"
      BY DEF Inv, TypeOK
    <3>. QED  BY <3>1, <3>2, <3>3
  <2>. QED  BY <2>1, <2>2
<1>. QED  BY <1>1, <1>3, <1>4, LeaveStep

-----------------------------------------------------------------------------
(* The way to the first node, and from one node to the next.                *)

LEMMA ReadConfigStep == ASSUME Inv, ReadConfig PROVE Inv'
<1>. USE DEF Inv
<1>1. /\ pc = "config" /\ pc' \in {"arguments", End}
      /\ config' \in [state : {"missing", "good", "bad"}, nodes : 0 .. MaxNodes]
      /\ UNCHANGED <<conns, ctries, etries, stream, wire, live, skipped>>
  <2>1. config' = config \/ config' = [state |-> "good", nodes |-> 0]
    BY DEF ReadConfig
  <2>2. 0 \in 0 .. MaxNodes
    BY StartAssumption
  <2>3. config' \in [state : {"missing", "good", "bad"}, nodes : 0 .. MaxNodes]
    BY <2>1, <2>2 DEF TypeOK
  <2>. QED  BY <2>3 DEF ReadConfig, dialVars, nodeVars
<1>2. conns = 0 /\ ~skipped /\ \A n \in Nodes : stream[n] = "none"
  <2>1. conns = 0 /\ ~skipped /\ \A n \in Nodes : n > conns => stream[n] = "none"
    BY <1>1 DEF DialInv, End
  <2>2. \A n \in Nodes : n > 0
    BY Numbers
  <2>. QED  BY <2>1, <2>2
<1>3. conns' \in 0 .. config'.nodes
  BY <1>1, <1>2
<1>4. TypeOK'
  BY <1>1, <1>3 DEF TypeOK
<1>5. FarInv' /\ EndInv'
  BY <1>1, <1>2 DEF FarInv, EndInv
<1>6. DialInv'
  BY <1>1, <1>2 DEF DialInv, Dialling, End
<1>. QED  BY <1>4, <1>5, <1>6

(* The client goes on to the next node, or to the rest of main.             *)
LEMMA OnwardIsNext ==
    ASSUME Inv, NEW n \in Nat, n <= config.nodes
    PROVE  Onward(n) = "run" \/ (Onward(n) = "certificate" /\ n < config.nodes)
  BY Numbers DEF Onward

LEMMA ReadArgumentsStep == ASSUME Inv, ReadArguments PROVE Inv'
<1>. USE DEF Inv
<1>1. /\ pc = "arguments" /\ pc' \in {End, Onward(0)}
      /\ UNCHANGED <<config, conns, ctries, etries, stream, wire, live, skipped>>
  BY DEF ReadArguments, dialVars, nodeVars
<1>2. conns = 0 /\ ~skipped /\ \A n \in Nodes : stream[n] = "none"
  <2>1. conns = 0 /\ ~skipped /\ \A n \in Nodes : n > conns => stream[n] = "none"
    BY <1>1 DEF DialInv, End
  <2>2. \A n \in Nodes : n > 0
    BY Numbers
  <2>. QED  BY <2>1, <2>2
<1>3. pc' \in {End, "run"} \/ (pc' = "certificate" /\ 0 < config.nodes)
  BY <1>1, Numbers, OnwardIsNext
<1>4. TypeOK'
  BY <1>1, <1>3 DEF TypeOK
<1>5. FarInv' /\ EndInv'
  BY <1>1, <1>2 DEF FarInv, EndInv
<1>6. DialInv'
  BY <1>1, <1>2, <1>3 DEF DialInv, Dialling, End
<1>. QED  BY <1>4, <1>5, <1>6

(* A dial goes on, or the process ends by itself.                           *)
LEMMA DialStep ==
    ASSUME Inv, ReadCertificate \/ ConnectTcp \/ RefuseTcp \/ RefuseTls
    PROVE  Inv'
<1>. USE DEF Inv
<1>1. /\ pc \in {"certificate", "tcp", "tls"}
      /\ \/ pc' \in {"tcp", "tls"} /\ skipped' = skipped
         \/ pc' = End /\ skipped' = TRUE
      /\ UNCHANGED <<config, conns, stream, wire, live>>
  BY DEF ReadCertificate, ConnectTcp, RefuseTcp, RefuseTls, inputVars, nodeVars
<1>2. ctries' \in 0 .. 3 /\ etries' \in 0 .. 3
  <2>1. ctries \in 0 .. 3 /\ etries \in 0 .. 3
    BY DEF TypeOK
  <2>2. CASE ReadCertificate
    BY <2>1, <2>2 DEF ReadCertificate, dialVars
  <2>3. CASE ConnectTcp
    BY <2>1, <2>3 DEF ConnectTcp, dialVars
  <2>4. CASE RefuseTcp
    BY <2>1, <2>4 DEF RefuseTcp
  <2>5. CASE RefuseTls
    BY <2>1, <2>5 DEF RefuseTls
  <2>. QED  BY <2>2, <2>3, <2>4, <2>5
<1>3. skipped' \in BOOLEAN
  BY <1>1 DEF TypeOK
<1>4. TypeOK'
  BY <1>1, <1>2, <1>3 DEF TypeOK
<1>5. FarInv' /\ EndInv'
  BY <1>1 DEF FarInv, EndInv, End
<1>6. DialInv'
  BY <1>1 DEF DialInv, Dialling, End
<1>. QED  BY <1>4, <1>5, <1>6

(* The process is ended by one of its slots.                                *)
LEMMA LoseCertificateStep == ASSUME Inv, LoseCertificate PROVE Inv'
<1>. USE DEF Inv
<1>1. /\ pc = "run" /\ pc' = End /\ skipped' = TRUE
      /\ UNCHANGED <<config, conns, ctries, etries, stream, wire, live>>
  BY DEF LoseCertificate, inputVars, dialVars, nodeVars
<1>2. TypeOK'
  BY <1>1 DEF TypeOK
<1>3. FarInv' /\ EndInv'
  BY <1>1 DEF FarInv, EndInv
<1>4. DialInv'
  BY <1>1 DEF DialInv, Dialling, End
<1>. QED  BY <1>2, <1>3, <1>4

-----------------------------------------------------------------------------
(* Requests and replies.                                                    *)

LEMMA ConnectTlsStep == ASSUME Inv, ConnectTls PROVE Inv'
<1>. USE DEF Inv
<1>. DEFINE n == conns + 1
<1>1. /\ pc = "tls" /\ pc' = "cores"
      /\ stream' = [stream EXCEPT ![n] = "up"]
      /\ wire' = [wire EXCEPT ![n] = "get"]
      /\ UNCHANGED <<config, conns, ctries, etries, live, skipped>>
  BY DEF ConnectTls, inputVars, dialVars
<1>2. conns < config.nodes /\ ~skipped
  BY <1>1 DEF DialInv, Dialling, End
<1>3. n \in Nodes
  BY <1>2, Numbers
<1>4. /\ stream \in [Nodes -> {"none", "up", "lost"}]
      /\ wire \in [Nodes -> {None, "get", "cores", "com", "id", "del"}]
  BY DEF TypeOK
<1>. HIDE DEF n
<1>5. stream'[n] = "up" /\ \A m \in Nodes \ {n} : stream'[m] = stream[m] /\ wire'[m] = wire[m]
  BY <1>1, <1>3, <1>4
<1>6. TypeOK'
  <2>1. \A m \in Nodes : m > n => stream'[m] = "none"
    <3>1. \A m \in Nodes : m > n => m # n
      BY Numbers DEF n
    <3>2. \A m \in Nodes : m > n => stream[m] = "none"
      BY DEF TypeOK, n
    <3>. QED  BY <1>5, <3>1, <3>2
  <2>2. /\ stream' \in [Nodes -> {"none", "up", "lost"}]
        /\ wire' \in [Nodes -> {None, "get", "cores", "com", "id", "del"}]
    BY <1>1, <1>4
  <2>. QED  BY <1>1, <2>1, <2>2 DEF TypeOK, n
<1>7. FarInv'
  BY <1>1, <1>5 DEF FarInv
<1>8. EndInv'
  BY <1>1 DEF EndInv, End
<1>9. DialInv'
  BY <1>1, <1>2, <1>5 DEF DialInv, Dialling, End, n
<1>. QED  BY <1>6, <1>7, <1>8, <1>9

LEMMA ReadCoresStep == ASSUME Inv, ReadCores PROVE Inv'
<1>. USE DEF Inv
<1>. DEFINE n == conns + 1
<1>1. /\ pc = "cores" /\ pc' = "id" /\ wire[n] = "cores"
      /\ wire' = [wire EXCEPT ![n] = IF stream[n] = "up" THEN "com" ELSE None]
      /\ UNCHANGED <<config, conns, ctries, etries, stream, live, skipped>>
  BY DEF ReadCores, inputVars, dialVars
<1>2. conns < config.nodes
  BY <1>1 DEF DialInv, Dialling
<1>3. n \in Nodes
  BY <1>2, Numbers
<1>4. stream[n] # "none"
  BY <1>1, <1>3 DEF DialInv
<1>. HIDE DEF n
<1>5. TypeOK'
  BY <1>1 DEF TypeOK
<1>6. FarInv'
  BY <1>1, <1>4 DEF FarInv, TypeOK
<1>7. EndInv'
  BY <1>1 DEF EndInv, End
<1>8. DialInv'
  BY <1>1 DEF DialInv, Dialling, End
<1>. QED  BY <1>5, <1>6, <1>7, <1>8

LEMMA ReadIdStep == ASSUME Inv, ReadId PROVE Inv'
<1>. USE DEF Inv
<1>. DEFINE n == conns + 1
<1>1. /\ pc = "id" /\ pc' = Onward(n) /\ wire[n] = "id"
      /\ wire' = [wire EXCEPT ![n] = None]
      /\ conns' = n
      /\ UNCHANGED <<config, ctries, etries, stream, live, skipped>>
  BY DEF ReadId, inputVars, dialVars
<1>2. conns < config.nodes /\ ~skipped
  BY <1>1 DEF DialInv, Dialling, End
<1>3. n \in Nodes /\ n \in Nat /\ n <= config.nodes /\ n \in 0 .. config.nodes
  BY <1>2, Numbers
<1>4. stream[n] # "none" /\ \A m \in Nodes : m > n => stream[m] = "none"
  BY <1>1, <1>3 DEF DialInv, TypeOK
<1>5. pc' = "run" \/ (pc' = "certificate" /\ n < config.nodes)
  BY <1>1, <1>3, OnwardIsNext
<1>. HIDE DEF n
<1>6. TypeOK'
  <2>1. \A m \in Nodes : m > n + 1 => m > n
    BY <1>3, Numbers
  <2>. QED  BY <1>1, <1>3, <1>4, <1>5, <2>1 DEF TypeOK
<1>7. FarInv'
  BY <1>1, <1>4 DEF FarInv, TypeOK
<1>8. EndInv'
  BY <1>5 DEF EndInv, End
<1>9. DialInv'
  BY <1>1, <1>2, <1>4, <1>5 DEF DialInv, Dialling, End
<1>. QED  BY <1>6, <1>7, <1>8, <1>9

-----------------------------------------------------------------------------
(* A node or the network.                                                   *)

LEMMA NodeStep == ASSUME Inv, NEW n \in Nodes, Node(n) PROVE Inv'
<1>. USE DEF Inv
<1>1. UNCHANGED <<pc, config, conns, ctries, etries, skipped>>
  BY DEF Node, Serve, Lose, inputVars, dialVars
<1>2. /\ stream \in [Nodes -> {"none", "up", "lost"}]
      /\ wire \in [Nodes -> {None, "get", "cores", "com", "id", "del"}]
      /\ live \in [Nodes -> BOOLEAN]
  BY DEF TypeOK
<1>3. CASE Serve(n)
  <2>1. /\ wire[n] \in {"get", "com", "del"} /\ stream' = stream
        /\ wire'[n] \in {None, "cores", "id"}
        /\ wire[n] = "del" => wire'[n] = None /\ ~live'[n]
        /\ \A m \in Nodes \ {n} : wire'[m] = wire[m] /\ live'[m] = live[m]
        /\ wire' \in [Nodes -> {None, "get", "cores", "com", "id", "del"}]
        /\ live' \in [Nodes -> BOOLEAN]
    <3>. DEFINE answer == CASE wire[n] = "get" -> "cores" [] wire[n] = "com" -> "id"
                            [] OTHER -> None
    <3>1. /\ wire[n] \in {"get", "com", "del"} /\ stream' = stream
          /\ wire' = [wire EXCEPT ![n] = IF stream[n] = "up" THEN answer ELSE None]
          /\ live' = [live EXCEPT ![n] = IF wire[n] = "get" THEN live[n] ELSE wire[n] = "com"]
      BY <1>3 DEF Serve
    <3>2. answer \in {None, "cores", "id"} /\ (wire[n] = "del" => answer = None)
      BY <3>1
    <3>. HIDE DEF answer
    <3>3. /\ wire'[n] \in {None, "cores", "id"}
          /\ wire[n] = "del" => wire'[n] = None
          /\ \A m \in Nodes \ {n} : wire'[m] = wire[m]
          /\ wire' \in [Nodes -> {None, "get", "cores", "com", "id", "del"}]
      BY <1>2, <3>1, <3>2
    <3>4. live' \in [Nodes -> BOOLEAN]
      BY <1>2, <3>1
    <3>5. \A m \in Nodes \ {n} : live'[m] = live[m]
      BY <1>2, <3>1
    <3>6. wire[n] = "del" => ~live'[n]
      BY <1>2, <3>1
    <3>. QED  BY <3>1, <3>3, <3>4, <3>5, <3>6
  <2>2. wire[n] # None
    BY <2>1, StartAssumption
  <2>3. TypeOK'
    BY <1>1, <2>1 DEF TypeOK
  <2>4. FarInv'
    BY <2>1, <2>2 DEF FarInv
  <2>5. EndInv'
    BY <1>1, <2>1, <2>2 DEF EndInv
  <2>6. DialInv'
    BY <1>1, <2>1 DEF DialInv
  <2>. QED  BY <2>3, <2>4, <2>5, <2>6
<1>4. CASE Lose(n)
  <2>1. /\ stream[n] = "up" /\ live' = live
        /\ stream' = [stream EXCEPT ![n] = "lost"]
        /\ \E arrived \in {wire[n], None} : wire' = [wire EXCEPT ![n] = arrived]
    BY <1>4 DEF Lose
  <2>2. /\ stream'[n] = "lost"
        /\ \A m \in Nodes \ {n} : stream'[m] = stream[m] /\ wire'[m] = wire[m]
        /\ stream' \in [Nodes -> {"none", "up", "lost"}]
        /\ wire' \in [Nodes -> {None, "get", "cores", "com", "id", "del"}]
    BY <1>2, <2>1
  <2>3. TypeOK'
    BY <1>1, <2>1, <2>2 DEF TypeOK
  <2>4. FarInv'
    BY <2>1, <2>2 DEF FarInv
  <2>5. EndInv'
    BY <1>1, <2>1, <2>2 DEF EndInv
  <2>6. DialInv'
    BY <1>1, <2>1, <2>2 DEF DialInv
  <2>. QED  BY <2>3, <2>4, <2>5, <2>6
<1>. QED  BY <1>3, <1>4 DEF Node

-----------------------------------------------------------------------------
(* Arguments: what the loop of parse has stored, and the fold it is.        *)

ArgUnits == [mode : STRING, words : Seq(STRING)]

Parsed == [store : Seq(ArgUnits), mode : STRING, words : Seq(STRING)]

(* The units, each behind its separator.                                    *)
WrittenUnit(u) == <<u.mode>> \o u.words

Written(units) == FlattenSeq([i \in DOMAIN units |-> WrittenUnit(units[i])])

LEMMA TurnType ==
    ASSUME NEW st \in Parsed, NEW arg \in STRING
    PROVE  ParseArgument(st, arg) \in Parsed
<1>1. /\ st.store \in Seq(ArgUnits) /\ st.mode \in STRING /\ st.words \in Seq(STRING)
      /\ st = [store |-> st.store, mode |-> st.mode, words |-> st.words]
  BY DEF Parsed
<1>2. CASE arg \in Separators
  <2>1. Unit(st.mode, st.words) \in ArgUnits
    BY <1>1 DEF Unit, ArgUnits
  <2>2. Append(st.store, Unit(st.mode, st.words)) \in Seq(ArgUnits)
    BY ONLY <1>1, <2>1, AppendProperties, Zenon
  <2>3. <<>> \in Seq(STRING)
    OBVIOUS
  <2>4. ParseArgument(st, arg) =
           [store |-> Append(st.store, Unit(st.mode, st.words)), mode |-> arg, words |-> <<>>]
    BY <1>2 DEF ParseArgument
  <2>. QED  BY ONLY <2>2, <2>3, <2>4, arg \in STRING DEF Parsed
<1>3. CASE arg \notin Separators
  <2>1. Append(st.words, arg) \in Seq(STRING)
    BY ONLY <1>1, arg \in STRING, AppendProperties, Zenon
  <2>2. ParseArgument(st, arg) = [st EXCEPT !.words = Append(@, arg)]
    BY <1>3 DEF ParseArgument
  <2>. QED  BY ONLY <2>1, <2>2, st \in Parsed DEF Parsed
<1>. QED  BY <1>2, <1>3

LEMMA MaxIsLast ==
    ASSUME NEW m \in Nat, NEW S \in SUBSET (1 .. m), m \in S
    PROVE  Max(S) = m
<1>1. \A y \in S : m >= y
  OBVIOUS
<1>2. ASSUME NEW x \in S, \A y \in S : x >= y PROVE x = m
  BY <1>2
<1>3. Max(S) = CHOOSE x \in S : \A y \in S : x >= y
  BY DEF Max
<1>4. Max(S) \in S /\ \A y \in S : Max(S) >= y
  BY ONLY <1>1, <1>3, m \in S, Zenon
<1>. QED  BY <1>2, <1>4

(* The function that FoldLeft defines on sets of positions.                 *)
Folds(f, s, start, m) ==
    /\ f \in [SUBSET (1 .. m) -> Parsed]
    /\ \A S \in SUBSET (1 .. m) :
          f[S] = IF S = {} THEN start ELSE ParseArgument(f[S \ {Max(S)}], s[Max(S)])

LEMMA FoldExists ==
    ASSUME NEW n \in Nat, NEW s \in [1 .. n -> STRING], NEW start \in Parsed
    PROVE  \E f : Folds(f, s, start, n)
<1>. DEFINE T == {m \in 0 .. n : \E f : Folds(f, s, start, m)}
<1>1. 0 \in T
  <2>. DEFINE f == [S \in SUBSET (1 .. 0) |-> start]
  <2>1. f \in [SUBSET (1 .. 0) -> Parsed]
    OBVIOUS
  <2>2. ASSUME NEW S \in SUBSET (1 .. 0) PROVE S = {} /\ f[S] = start
    OBVIOUS
  <2>. HIDE DEF f
  <2>3. Folds(f, s, start, 0)
    BY <2>1, <2>2 DEF Folds
  <2>. QED  BY <2>3
<1>2. ASSUME NEW m \in 1 .. n, m - 1 \in T PROVE m \in T
  <2>1. PICK f : Folds(f, s, start, m - 1)
    BY <1>2
  <2>2. m \in Nat /\ m - 1 \in Nat /\ s[m] \in STRING
    OBVIOUS
  <2>. DEFINE x(S) == ParseArgument(f[S \ {m}], s[m])
              g == [S \in SUBSET (1 .. m) |-> IF m \in S THEN x(S) ELSE f[S]]
  <2>3. f \in [SUBSET (1 .. m - 1) -> Parsed]
    BY <2>1 DEF Folds
  <2>4. ASSUME NEW S \in SUBSET (1 .. m)
        PROVE  /\ S \ {m} \in SUBSET (1 .. m - 1)
               /\ m \notin S => S \in SUBSET (1 .. m - 1)
    BY <2>2
  <2>5. ASSUME NEW S \in SUBSET (1 .. m) PROVE (IF m \in S THEN x(S) ELSE f[S]) \in Parsed
    <3>1. CASE m \in S
      <4>1. f[S \ {m}] \in Parsed
        BY <2>3, <2>4
      <4>2. x(S) \in Parsed
        BY ONLY <2>2, <4>1, TurnType, Zenon
      <4>. QED  BY <3>1, <4>2
    <3>2. CASE m \notin S
      BY <2>3, <2>4, <3>2
    <3>. QED  BY <3>1, <3>2
  <2>6. g \in [SUBSET (1 .. m) -> Parsed]
    <3>. HIDE DEF x
    <3>. QED  BY <2>5
  <2>7. \A S \in SUBSET (1 .. m) : g[S] = IF m \in S THEN x(S) ELSE f[S]
    OBVIOUS
  <2>. HIDE DEF g
  <2>8. ASSUME NEW S \in SUBSET (1 .. m)
        PROVE  g[S] = IF S = {} THEN start ELSE ParseArgument(g[S \ {Max(S)}], s[Max(S)])
    <3>1. CASE m \in S
      <4>1. Max(S) = m
        BY <2>2, <3>1, MaxIsLast
      <4>2. S \ {m} \in SUBSET (1 .. m) /\ m \notin S \ {m}
        OBVIOUS
      <4>3. g[S \ {m}] = f[S \ {m}]
        BY ONLY <2>7, <4>2
      <4>4. g[S] = x(S)
        BY ONLY <2>7, <3>1, S \in SUBSET (1 .. m)
      <4>. QED  BY <3>1, <4>1, <4>3, <4>4
    <3>2. CASE m \notin S
      <4>. DEFINE R == S \ {Max(S)}
      <4>1. S \in SUBSET (1 .. m - 1) /\ R \in SUBSET (1 .. m) /\ m \notin R
        BY <2>4, <3>2
      <4>2. g[S] = f[S] /\ g[R] = f[R]
        BY ONLY <2>7, <3>2, <4>1, S \in SUBSET (1 .. m)
      <4>3. f[S] = IF S = {} THEN start ELSE ParseArgument(f[R], s[Max(S)])
        BY <2>1, <4>1, Zenon DEF Folds
      <4>. QED  BY <4>2, <4>3
    <3>. QED  BY <3>1, <3>2
  <2>9. Folds(g, s, start, m)
    BY <2>6, <2>8 DEF Folds
  <2>. QED  BY <2>9
<1>3. n \in T
  <2>. HIDE DEF T
  <2>1. \A m \in 0 .. n : m \in T
    BY <1>1, <1>2, Induction, Zenon
  <2>. QED  BY <2>1
<1>. QED  BY <1>3

(* FoldLeft is ParseArgument on one argument after the other.               *)
LEMMA ParseFold ==
    ASSUME NEW n \in Nat, NEW s \in [1 .. n -> STRING], NEW start \in Parsed
    PROVE  \E g \in [0 .. n -> Parsed] :
              /\ g[0] = start
              /\ \A i \in 1 .. n : g[i] = ParseArgument(g[i - 1], s[i])
              /\ FoldLeft(ParseArgument, start, s) = g[n]
<1>. DEFINE F == CHOOSE f : f = [S \in SUBSET (DOMAIN s) |->
                     IF S = {} THEN start ELSE ParseArgument(f[S \ {Max(S)}], s[Max(S)])]
<1>1. FoldLeft(ParseArgument, start, s) = F[DOMAIN s]
  BY Zenon DEF FoldLeft, MapThenFoldSet
<1>2. DOMAIN s = 1 .. n
  OBVIOUS
<1>3. PICK f : Folds(f, s, start, n)
  BY FoldExists
<1>4. \A S \in SUBSET (1 .. n) :
         F[S] = IF S = {} THEN start ELSE ParseArgument(F[S \ {Max(S)}], s[Max(S)])
  <2>. DEFINE e(h, S) == IF S = {} THEN start ELSE ParseArgument(h[S \ {Max(S)}], s[Max(S)])
  <2>1. f = [S \in SUBSET (1 .. n) |-> e(f, S)]
    BY <1>3 DEF Folds
  <2>2. F = CHOOSE h : h = [S \in SUBSET (1 .. n) |-> e(h, S)]
    BY <1>2
  <2>. HIDE DEF F, e
  <2>3. F = [S \in SUBSET (1 .. n) |-> e(F, S)]
    BY <2>1, <2>2, Zenon
  <2>4. \A S \in SUBSET (1 .. n) : F[S] = e(F, S)
    BY <2>3, Zenon
  <2>. QED  BY <2>4 DEF e
<1>. HIDE DEF F
<1>. DEFINE g == [i \in 0 .. n |-> F[1 .. i]]
<1>5. F[1 .. 0] = start
  <2>1. 1 .. 0 = {} /\ {} \in SUBSET (1 .. n)
    OBVIOUS
  <2>. QED  BY ONLY <1>4, <2>1
<1>6. ASSUME NEW i \in 1 .. n PROVE F[1 .. i] = ParseArgument(F[1 .. i - 1], s[i])
  <2>. DEFINE S == 1 .. i
  <2>1. S \in SUBSET (1 .. n) /\ S \in SUBSET (1 .. i) /\ i \in S /\ i \in Nat
        /\ S # {} /\ S \ {i} = 1 .. i - 1
    OBVIOUS
  <2>. HIDE DEF S
  <2>2. Max(S) = i
    BY ONLY <2>1, MaxIsLast, Zenon
  <2>3. F[S] = ParseArgument(F[S \ {i}], s[i])
    BY ONLY <1>4, <2>1, <2>2
  <2>. QED  BY <2>1, <2>3 DEF S
<1>7. \A i \in 0 .. n : F[1 .. i] \in Parsed
  <2>. DEFINE T == {i \in 0 .. n : F[1 .. i] \in Parsed}
  <2>1. 0 \in T
    BY <1>5
  <2>2. ASSUME NEW i \in 1 .. n, i - 1 \in T PROVE i \in T
    <3>1. F[1 .. i - 1] \in Parsed /\ s[i] \in STRING
      BY <2>2
    <3>2. ParseArgument(F[1 .. i - 1], s[i]) \in Parsed
      BY ONLY <3>1, TurnType, Zenon
    <3>. QED  BY <1>6, <3>2
  <2>. HIDE DEF T
  <2>3. \A i \in 0 .. n : i \in T
    BY <2>1, <2>2, Induction, Zenon
  <2>. QED  BY <2>3 DEF T
<1>8. g \in [0 .. n -> Parsed] /\ g[0] = start /\ g[n] = F[1 .. n]
  BY <1>5, <1>7
<1>9. \A i \in 1 .. n : g[i] = ParseArgument(g[i - 1], s[i])
  <2>1. \A i \in 1 .. n : g[i] = F[1 .. i] /\ g[i - 1] = F[1 .. i - 1]
    OBVIOUS
  <2>. HIDE DEF g
  <2>. QED  BY <1>6, <2>1
<1>. HIDE DEF g
<1>. QED  BY <1>1, <1>2, <1>8, <1>9

LEMMA WrittenAppend ==
    ASSUME NEW us \in Seq(ArgUnits), NEW u \in ArgUnits
    PROVE  /\ Written(<<>>) = <<>>
           /\ Written(us) \in Seq(STRING) /\ WrittenUnit(u) \in Seq(STRING)
           /\ Written(Append(us, u)) = Written(us) \o WrittenUnit(u)
<1>. DEFINE w(v) == [i \in DOMAIN v |-> WrittenUnit(v[i])]
            n == Len(us)
            t == Append(us, u)
<1>1. ASSUME NEW v \in ArgUnits PROVE WrittenUnit(v) \in Seq(STRING)
  <2>1. v.mode \in STRING /\ v.words \in Seq(STRING)
    BY DEF ArgUnits
  <2>2. <<v.mode>> \in Seq(STRING)
    BY <2>1
  <2>. QED  BY ONLY <2>1, <2>2, ConcatProperties, Zenon DEF WrittenUnit
<1>2. /\ n \in Nat /\ t \in Seq(ArgUnits) /\ Len(t) = n + 1 /\ t[n + 1] = u
      /\ \A i \in 1 .. n : t[i] = us[i]
  BY AppendProperties
<1>3. DOMAIN us = 1 .. n /\ DOMAIN t = 1 .. n + 1 /\ \A i \in 1 .. n : us[i] \in ArgUnits
  <2>. HIDE DEF t
  <2>. QED  BY <1>2
<1>. HIDE DEF n, t
<1>. DEFINE A == Seq(STRING)
<1>4. \A i \in 1 .. n : WrittenUnit(us[i]) \in A
  BY <1>1, <1>3
<1>. HIDE DEF A
<1>5. w(us) \in [1 .. n -> A] /\ \A i \in 1 .. n : w(us)[i] = WrittenUnit(us[i])
  BY <1>3, <1>4
<1>6. WrittenUnit(u) \in A
  BY <1>1 DEF A
<1>7. /\ w(t) \in [1 .. n + 1 -> A] /\ w(t)[n + 1] = WrittenUnit(u)
      /\ \A i \in 1 .. n : w(t)[i] = w(us)[i]
  <2>1. \A i \in 1 .. n + 1 : WrittenUnit(t[i]) \in A
    BY <1>2, <1>4, <1>6
  <2>2. w(t) \in [1 .. n + 1 -> A] /\ \A i \in 1 .. n + 1 : w(t)[i] = WrittenUnit(t[i])
    BY <1>3, <2>1
  <2>. HIDE DEF w
  <2>. QED  BY <1>2, <1>5, <2>2
<1>8. /\ FlattenSeq(<<>>) = <<>> /\ FlattenSeq(w(us)) \in Seq(STRING)
      /\ FlattenSeq(w(t)) = FlattenSeq(w(us)) \o WrittenUnit(u)
  <2>. HIDE DEF w
  <2>1. /\ n \in Nat /\ w(us) \in [1 .. n -> Seq(STRING)] /\ w(t) \in [1 .. n + 1 -> Seq(STRING)]
        /\ \A i \in 1 .. n : w(t)[i] = w(us)[i]
    BY <1>2, <1>5, <1>7 DEF A
  <2>. QED  BY ONLY <1>7, <2>1, FlattenNext
<1>9. w(<<>>) = <<>>
  OBVIOUS
<1>. QED  BY <1>1, <1>8, <1>9, Zenon DEF Written, t

(* The units and what parse has not stored yet are the arguments so far.    *)
LEMMA ParseKeeps ==
    ASSUME NEW inputs \in Seq(STRING), inputs # <<>>
    PROVE  Written(Parse(inputs)) = inputs
<1>. DEFINE start == [store |-> <<>>, mode |-> Head(inputs), words |-> <<>>]
            s == Tail(inputs)
            n == Len(s)
            so(i) == SubSeq(inputs, 1, i + 1)
<1>1. /\ s \in Seq(STRING) /\ n \in Nat /\ Len(inputs) = n + 1 /\ s \in [1 .. n -> STRING]
      /\ Head(inputs) = inputs[1] /\ inputs[1] \in STRING
      /\ \A i \in 1 .. n : s[i] = inputs[i + 1]
  <2>1. /\ s \in Seq(STRING) /\ Len(s) = Len(inputs) - 1
        /\ \A i \in 1 .. Len(inputs) - 1 : s[i] = inputs[i + 1]
    BY ONLY inputs \in Seq(STRING), inputs # <<>>, TailOf, Zenon
  <2>. HIDE DEF s
  <2>2. n \in Nat /\ s \in [1 .. n -> STRING]
    BY ONLY <2>1
  <2>3. Len(inputs) = n + 1
    BY ONLY <2>1, inputs \in Seq(STRING)
  <2>4. Head(inputs) = inputs[1] /\ inputs[1] \in STRING
    BY ONLY inputs \in Seq(STRING), inputs # <<>>
  <2>. QED  BY ONLY <2>1, <2>2, <2>3, <2>4
<1>2. start \in Parsed
  BY <1>1 DEF Parsed
<1>. HIDE DEF s, n
<1>3. PICK g \in [0 .. n -> Parsed] :
         /\ g[0] = start
         /\ \A i \in 1 .. n : g[i] = ParseArgument(g[i - 1], s[i])
         /\ FoldLeft(ParseArgument, start, s) = g[n]
  BY <1>1, <1>2, ParseFold, ZenonT(30)
<1>. DEFINE all(st) == Written(st.store) \o WrittenUnit(Unit(st.mode, st.words))
            T == {i \in 0 .. n : all(g[i]) = so(i)}
<1>4. ASSUME NEW st \in Parsed
      PROVE  /\ st.store \in Seq(ArgUnits) /\ st.mode \in STRING /\ st.words \in Seq(STRING)
             /\ Unit(st.mode, st.words) \in ArgUnits
             /\ Written(st.store) \in Seq(STRING)
             /\ WrittenUnit(Unit(st.mode, st.words)) = <<st.mode>> \o st.words
             /\ Written(Append(st.store, Unit(st.mode, st.words))) = all(st)
             /\ all(st) \in Seq(STRING)
  <2>1. /\ st.store \in Seq(ArgUnits) /\ st.mode \in STRING /\ st.words \in Seq(STRING)
        /\ Unit(st.mode, st.words) \in ArgUnits
    BY DEF Parsed, Unit, ArgUnits
  <2>2. WrittenUnit(Unit(st.mode, st.words)) = <<st.mode>> \o st.words
    BY DEF WrittenUnit, Unit
  <2>3. /\ Written(st.store) \in Seq(STRING) /\ WrittenUnit(Unit(st.mode, st.words)) \in Seq(STRING)
        /\ Written(Append(st.store, Unit(st.mode, st.words))) = all(st)
    BY ONLY <2>1, WrittenAppend, Zenon
  <2>4. all(st) \in Seq(STRING)
    BY ONLY <2>3, ConcatProperties, Zenon
  <2>. QED  BY ONLY <2>1, <2>2, <2>3, <2>4
<1>5. 0 \in T
  <2>1. Written(<<>>) = <<>>
    <3>1. <<>> \in Seq(ArgUnits)
      OBVIOUS
    <3>2. Unit(start.mode, start.words) \in ArgUnits
      BY <1>2, <1>4
    <3>. QED  BY ONLY <3>1, <3>2, WrittenAppend, Zenon
  <2>2. all(start) = <<inputs[1]>>
    <3>1. WrittenUnit(Unit(start.mode, start.words)) = <<inputs[1]>> \o <<>>
      BY <1>1, <1>2, <1>4
    <3>2. <<inputs[1]>> \o <<>> = <<inputs[1]>> /\ <<>> \o <<inputs[1]>> = <<inputs[1]>>
      BY <1>1
    <3>. QED  BY <2>1, <3>1, <3>2
  <2>3. so(0) = <<inputs[1]>>
    BY <1>1
  <2>4. g[0] = start /\ 0 \in 0 .. n
    BY <1>1, <1>3
  <2>. HIDE DEF start, all, so
  <2>. QED  BY ONLY <2>2, <2>3, <2>4
<1>6. ASSUME NEW i \in 1 .. n, i - 1 \in T PROVE i \in T
  <2>. DEFINE st == g[i - 1]
              arg == s[i]
  <2>1. st \in Parsed /\ arg \in STRING /\ g[i] = ParseArgument(st, arg) /\ all(st) = so(i - 1)
    BY <1>1, <1>3, <1>6
  <2>2. so(i) = Append(so(i - 1), arg)
    <3>1. arg = inputs[i + 1] /\ i + 1 \in 1 .. Len(inputs)
      BY <1>1
    <3>2. SubSeq(inputs, 1, i + 1) = Append(SubSeq(inputs, 1, i), inputs[i + 1])
      BY ONLY inputs \in Seq(STRING), i \in 1 .. n, <3>1
    <3>. QED  BY <3>1, <3>2
  <2>. HIDE DEF st, arg, so
  <2>3. CASE arg \in Separators
    <3>. DEFINE u == Unit(st.mode, st.words)
    <3>1. g[i] = [store |-> Append(st.store, u), mode |-> arg, words |-> <<>>]
      BY <2>1, <2>3 DEF ParseArgument
    <3>2. /\ g[i].store = Append(st.store, u) /\ g[i].mode = arg /\ g[i].words = <<>>
          /\ g[i] \in Parsed
      <4>1. g[i] \in Parsed
        BY <1>3
      <4>. QED  BY <3>1, <4>1
    <3>3. all(g[i]) = all(st) \o (<<arg>> \o <<>>)
      BY <1>4, <2>1, <3>2
    <3>4. all(st) \in Seq(STRING)
      BY <1>4, <2>1
    <3>. HIDE DEF all
    <3>. DEFINE x == all(st)
    <3>5. x \o (<<arg>> \o <<>>) = Append(x, arg)
      <4>1. x \in Seq(STRING) /\ arg \in STRING
        BY <2>1, <3>4
      <4>. HIDE DEF x
      <4>2. <<arg>> \o <<>> = <<arg>>
        BY ONLY <4>1
      <4>3. Append(x, arg) = x \o <<arg>>
        BY ONLY <4>1, AppendIsConcat, Zenon
      <4>. QED  BY ONLY <4>2, <4>3
    <3>. HIDE DEF x
    <3>6. all(g[i]) = so(i)
      BY <2>1, <2>2, <3>3, <3>5 DEF x
    <3>. QED  BY <3>6
  <2>4. CASE arg \notin Separators
    <3>1. g[i] = [st EXCEPT !.words = Append(@, arg)]
      BY <2>1, <2>4 DEF ParseArgument
    <3>2. g[i].store = st.store /\ g[i].mode = st.mode /\ g[i].words = Append(st.words, arg)
      BY <2>1, <3>1 DEF Parsed
    <3>3. g[i] \in Parsed
      BY <1>3
    <3>. DEFINE a == Written(st.store)
                b == <<st.mode>>
                c == st.words
    <3>4. all(g[i]) = a \o (b \o Append(c, arg))
      BY <1>4, <3>2, <3>3
    <3>5. all(st) = a \o (b \o c)
      BY <1>4, <2>1
    <3>6. a \in Seq(STRING) /\ b \in Seq(STRING) /\ c \in Seq(STRING)
      <4>1. a \in Seq(STRING) /\ st.mode \in STRING /\ c \in Seq(STRING)
        BY <1>4, <2>1
      <4>. QED  BY <4>1
    <3>. HIDE DEF a, b, c
    <3>7. a \o (b \o Append(c, arg)) = Append(a \o (b \o c), arg)
      BY ONLY <2>1, <3>6, SMTT(30)
    <3>8. all(g[i]) = so(i)
      BY ONLY <2>1, <2>2, <3>4, <3>5, <3>7
    <3>. QED  BY <3>8
  <2>. QED  BY <2>3, <2>4
<1>7. all(g[n]) = so(n)
  <2>. HIDE DEF T
  <2>1. \A i \in 0 .. n : i \in T
    BY <1>1, <1>5, <1>6, Induction, Zenon
  <2>2. n \in T
    BY <1>1, <2>1
  <2>. QED  BY <2>2 DEF T
<1>8. so(n) = inputs
  BY <1>1
<1>9. Parse(inputs) = Append(g[n].store, Unit(g[n].mode, g[n].words))
  BY <1>3, Zenon DEF Parse, s
<1>10. g[n] \in Parsed
  BY <1>1, <1>3
<1>. QED  BY <1>4, <1>7, <1>8, <1>9, <1>10

-----------------------------------------------------------------------------
(* The invariant holds in every state of every behaviour.                   *)
THEOREM Invariance == Spec => []Inv
<1>1. Init => Inv
  BY InvInit
<1>2. Inv /\ Next => Inv'
  BY EndingStep, LoseCertificateStep, ReadConfigStep, ReadArgumentsStep, DialStep, ConnectTlsStep,
     ReadCoresStep, ReadIdStep, NodeStep
     DEF Next, Start
<1>3. Inv /\ UNCHANGED vars => Inv'
  BY DEF vars, inputVars, dialVars, nodeVars, Inv, TypeOK, FarInv, DialInv, EndInv
<1>. QED  BY <1>1, <1>2, <1>3, PTL DEF Spec

(* Every variable keeps its type, a dial counts at most three failures of a *)
(* kind, and no node is called before its turn.                             *)
THEOREM TypeCorrect == Spec => []TypeOK
<1>1. Inv => TypeOK
  BY DEF Inv
<1>. QED  BY <1>1, Invariance, PTL

(* However far a start came and however it failed, and when a client is     *)
(* done, its command stays only on a node whose stream was lost, or when    *)
(* the process was ended for want of a certificate, of a node that is next  *)
(* or of one of the slots.                                                  *)
THEOREM CommandsAreDeleted == Spec => []NothingIsLeftBehind
<1>1. Inv => NothingIsLeftBehind
  <2>. SUFFICES ASSUME Inv, pc = End, NEW n \in Nodes, live[n]
                PROVE  stream[n] = "lost" \/ wire[n] = "del" \/ skipped
    BY DEF NothingIsLeftBehind
  <2>1. stream[n] \in {"none", "up", "lost"}
    BY DEF Inv, TypeOK
  <2>2. stream[n] # "none"
    BY DEF Inv, FarInv
  <2>3. (stream[n] = "up" /\ ~skipped) => wire[n] = "del"
    BY DEF Inv, EndInv
  <2>. QED  BY <2>1, <2>2, <2>3
<1>. QED  BY <1>1, Invariance, PTL

(* Every argument of a command line ends up in its unit, behind the         *)
(* separator it was written behind, for command lines of any length.        *)
THEOREM ArgumentsKept == Spec => []ArgumentsAreKept
<1>. DEFINE Kept == args \in ArgumentLists /\ ArgumentsAreKept
<1>1. Init => Kept
  BY DEF Init, ArgumentsAreKept
<1>2. Kept /\ [Next]_vars => Kept'
  <2>. SUFFICES ASSUME Kept, [Next]_vars PROVE Kept'
    OBVIOUS
  <2>1. CASE ReadArguments
    <3>1. arguments' = Arguments /\ UNCHANGED <<stdin, args>>
      BY <2>1 DEF ReadArguments
    <3>2. args \in Seq(STRING)
      BY StartAssumption
    <3>3. ASSUME Arguments # None, stdin = "terminal"
          PROVE  /\ Tail(args) \in Seq(STRING) /\ Tail(args) # <<>>
                 /\ Arguments.units = Parse(Tail(args))
      <4>1. /\ args # <<>> /\ Len(args) > 1
            /\ Arguments = [source |-> "cli", units |-> Parse(Tail(args))]
        BY <3>3 DEF Arguments
      <4>2. Tail(args) \in Seq(STRING) /\ Tail(args) # <<>>
        <5>1. Tail(args) \in Seq(STRING) /\ Len(Tail(args)) = Len(args) - 1
          BY ONLY <3>2, <4>1, TailOf, Zenon
        <5>. DEFINE t == Tail(args)
        <5>2. t \in Seq(STRING) /\ Len(t) # 0
          BY <3>2, <4>1, <5>1
        <5>. HIDE DEF t
        <5>3. t # <<>>
          BY ONLY <5>2
        <5>. QED  BY ONLY <5>2, <5>3 DEF t
      <4>. QED  BY <4>1, <4>2
    <3>4. (Arguments # None /\ stdin = "terminal") => Tail(args) = Written(Arguments.units)
      BY <3>3, ParseKeeps
    <3>. QED  BY <3>1, <3>4 DEF ArgumentsAreKept, Written, WrittenUnit
  <2>2. CASE ~ReadArguments
    <3>1. UNCHANGED <<stdin, args, arguments>>
      BY <2>2 DEF Next, Start, Node, ReadConfig, ReadCertificate, ConnectTcp, RefuseTcp, ConnectTls,
                  RefuseTls, GiveUp, Leave, ReadCores, ReadId, MissReply, Finish, LoseCertificate,
                  Serve, Lose, vars, inputVars
    <3>. QED  BY <3>1 DEF ArgumentsAreKept
  <2>. QED  BY <2>1, <2>2
<1>. QED  BY <1>1, <1>2, PTL DEF Spec

=============================================================================
