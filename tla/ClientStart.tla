----------------------------- MODULE ClientStart -----------------------------
(***************************************************************************)
(* How a client starts and how it ends: the configuration file, the        *)
(* arguments, and one control connection after the other to its nodes, each*)
(* with a certificate, a TCP and a TLS connection, the number of cores and *)
(* the command (src/client/{main,configure,args,redirection,nodes,         *)
(* connection,certificate}.rs).  When the start fails half way, or the     *)
(* client is done, the connections it has are dropped, which deletes the   *)
(* command on each of their nodes.                                         *)
(*                                                                         *)
(* Bounds: at most MaxNodes nodes are configured; ArgumentLists is finite. *)
(***************************************************************************)
EXTENDS Naturals, Sequences, SequencesExt

CONSTANTS
    MaxNodes,       (* bound: the nodes in a configuration                  *)
    ArgumentLists,  (* command lines: sequences of ":", "::" and words      *)
    None            (* Rust's None                                          *)

Nodes == 1 .. MaxNodes

Separators == {":", "::"}

ASSUME StartAssumption ==
    /\ MaxNodes \in Nat
    /\ None \notin {"get", "cores", "com", "id", "del"}
    /\ ArgumentLists \subseteq Seq(STRING)

VARIABLES
    pc,         (* what the client does next                                *)
    config,     (* its configuration file                                   *)
    stdin,      (* what /proc/self/fd/0 points to                           *)
    args,       (* its command line                                         *)
    arguments,  (* Arguments, or None as long as they are not parsed        *)
    certified,  (* the nodes whose certificate can be read                  *)
    conns,      (* how many nodes have a Connection: nodes 1 .. conns       *)
    ctries,     (* failed TCP connections to the node that is next          *)
    etries,     (* failed TLS connections to it                             *)
    stream,     (* the TLS stream to each node                              *)
    wire,       (* the request or reply under way on it, or None            *)
    live,       (* whether a node has the command of the client             *)
    skipped     (* TRUE: the client has exited without dropping anything    *)

inputVars == <<config, stdin, args, arguments, certified>>
dialVars  == <<ctries, etries>>
nodeVars  == <<stream, wire, live>>
vars == <<pc, inputVars, conns, dialVars, nodeVars, skipped>>

-----------------------------------------------------------------------------
(* Arguments::new.                                                          *)

Unit(mode, words) == [mode |-> mode, words |-> words]

(* Mutant of ParseArgument: a separator begins a unit but ends none.        *)
ParseArgumentNoPush(st, arg) ==
    IF arg \in Separators THEN [st EXCEPT !.mode = arg]
    ELSE [st EXCEPT !.words = Append(@, arg)]

(* One turn of the loop in parse: a separator ends a unit and says what the *)
(* next one has, strings (":") or files ("::").                             *)
ParseArgument(st, arg) ==
    IF arg \in Separators
    THEN [store |-> Append(st.store, Unit(st.mode, st.words)), mode |-> arg, words |-> <<>>]
    ELSE [st EXCEPT !.words = Append(@, arg)]

Parse(inputs) ==
    LET start == [store |-> <<>>, mode |-> Head(inputs), words |-> <<>>]
        end   == FoldLeft(ParseArgument, start, Tail(inputs))
    IN  Append(end.store, Unit(end.mode, end.words))

(* None stands for an ArgumentError.                                        *)
Arguments ==
    CASE args = <<>> -> None
      [] args # <<>> /\ stdin # "terminal" -> [source |-> stdin, units |-> <<>>]
      [] args # <<>> /\ stdin = "terminal" /\ Len(args) > 1 /\ args[2] \in Separators ->
             [source |-> "cli", units |-> Parse(Tail(args))]
      [] OTHER -> None

-----------------------------------------------------------------------------
(* The client.                                                              *)

End == "ended"

(* After the Connection to the last node comes the rest of main.            *)
Onward(n) == IF n < config.nodes THEN "certificate" ELSE "run"

(* Mutant of DropConnections: the last Connection alone is dropped.         *)
DropLast == wire' = [n \in Nodes |-> IF n = conns /\ stream[n] = "up" THEN "del" ELSE wire[n]]

(* The Connections go out of scope, and each writes its del.                *)
DropConnections ==
    wire' = [n \in Nodes |-> IF n <= conns /\ stream[n] = "up" THEN "del" ELSE wire[n]]

Leave ==
    /\ pc' = End
    /\ DropConnections
    /\ UNCHANGED <<inputVars, conns, dialVars, stream, live, skipped>>

(* A file that is missing is created, with no nodes.                        *)
ReadConfig ==
    /\ pc = "config"
    /\ \/ /\ config.state = "missing"
          /\ config' = [state |-> "good", nodes |-> 0]
          /\ pc' = "arguments"
       \/ /\ config.state = "good"
          /\ config' = config
          /\ pc' = "arguments"
       \/ /\ config.state \in {"missing", "bad"}      \* it cannot be written, or read
          /\ config' = config
          /\ pc' = End
    /\ UNCHANGED <<stdin, args, arguments, certified, conns, dialVars, nodeVars, skipped>>

ReadArguments ==
    /\ pc = "arguments"
    /\ arguments' = Arguments
    /\ pc' = IF Arguments = None THEN End ELSE Onward(0)
    /\ UNCHANGED <<config, stdin, args, certified, conns, dialVars, nodeVars, skipped>>

(* certificate::get ends the process by itself when it has no certificate.  *)
ReadCertificate ==
    /\ pc = "certificate"
    /\ \/ /\ conns + 1 \in certified
          /\ pc' = "tcp"
          /\ ctries' = 0 /\ etries' = 0
          /\ UNCHANGED skipped
       \/ /\ conns + 1 \notin certified
          /\ pc' = End
          /\ skipped' = TRUE
          /\ UNCHANGED dialVars
    /\ UNCHANGED <<inputVars, conns, nodeVars>>

ConnectTcp ==
    /\ pc = "tcp"
    /\ pc' = "tls"
    /\ UNCHANGED <<inputVars, conns, dialVars, nodeVars, skipped>>

(* Mutant of RefuseTcp: the last try is counted, too.                       *)
RefuseTcpOnceMore ==
    /\ pc = "tcp"
    /\ ctries <= 3
    /\ ctries' = ctries + 1
    /\ UNCHANGED <<pc, inputVars, conns, etries, nodeVars, skipped>>

(* Failed tries are not forgotten when a try succeeds but TLS does not.     *)
RefuseTcp ==
    /\ pc = "tcp"
    /\ ctries < 3
    /\ ctries' = ctries + 1
    /\ UNCHANGED <<pc, inputVars, conns, etries, nodeVars, skipped>>

ConnectTls ==
    LET n == conns + 1 IN
    /\ pc = "tls"
    /\ stream' = [stream EXCEPT ![n] = "up"]
    /\ wire' = [wire EXCEPT ![n] = "get"]
    /\ pc' = "cores"
    /\ UNCHANGED <<inputVars, conns, dialVars, live, skipped>>

(* Mutant of RefuseTls: the failure is not counted.                         *)
RefuseTlsUncounted ==
    /\ pc = "tls"
    /\ etries < 3
    /\ pc' = "tcp"
    /\ UNCHANGED <<inputVars, conns, dialVars, nodeVars, skipped>>

RefuseTls ==
    /\ pc = "tls"
    /\ etries < 3
    /\ etries' = etries + 1
    /\ pc' = "tcp"
    /\ UNCHANGED <<inputVars, conns, ctries, nodeVars, skipped>>

GiveUp ==
    /\ \/ pc = "tcp" /\ ctries = 3
       \/ pc = "tls" /\ etries = 3
    /\ Leave

(* get_cores returns; the command is written.                               *)
ReadCores ==
    LET n == conns + 1 IN
    /\ pc = "cores"
    /\ wire[n] = "cores"
    /\ wire' = [wire EXCEPT ![n] = IF stream[n] = "up" THEN "com" ELSE None]
    /\ pc' = "id"
    /\ UNCHANGED <<inputVars, conns, dialVars, stream, live, skipped>>

ReadId ==
    LET n == conns + 1 IN
    /\ pc = "id"
    /\ wire[n] = "id"
    /\ wire' = [wire EXCEPT ![n] = None]
    /\ conns' = n
    /\ pc' = Onward(n)
    /\ UNCHANGED <<inputVars, dialVars, stream, live, skipped>>

(* The stream has ended without a reply: an error, or the panic of an empty *)
(* line. Of the Connection at hand, if there is one, del goes nowhere.      *)
MissReply ==
    LET n == conns + 1 IN
    /\ pc \in {"cores", "id"}
    /\ stream[n] = "lost"
    /\ wire[n] \notin {"cores", "id"}
    /\ Leave

(* All outputs are printed; or the arguments are not a single unit, which   *)
(* is not implemented and panics.                                           *)
Finish == pc = "run" /\ Leave

(* A slot of a node reads the certificate again for each stream it opens;   *)
(* when it no longer can, certificate::get ends the process.                *)
LoseCertificate ==
    /\ pc = "run"
    /\ conns > 0
    /\ pc' = End
    /\ skipped' = TRUE
    /\ UNCHANGED <<inputVars, conns, dialVars, nodeVars>>

-----------------------------------------------------------------------------
(* The nodes and the network, which are external.                           *)

Serve(n) ==
    LET answer == CASE wire[n] = "get" -> "cores" [] wire[n] = "com" -> "id" [] OTHER -> None IN
    /\ wire[n] \in {"get", "com", "del"}
    /\ wire' = [wire EXCEPT ![n] = IF stream[n] = "up" THEN answer ELSE None]
    /\ live' = [live EXCEPT ![n] = IF wire[n] = "get" THEN @ ELSE wire[n] = "com"]
    /\ UNCHANGED <<pc, inputVars, conns, dialVars, stream, skipped>>

(* What is under way may be lost with the stream, or has arrived already.   *)
Lose(n) ==
    /\ stream[n] = "up"
    /\ stream' = [stream EXCEPT ![n] = "lost"]
    /\ \E arrived \in {wire[n], None} : wire' = [wire EXCEPT ![n] = arrived]
    /\ UNCHANGED <<pc, inputVars, conns, dialVars, live, skipped>>

-----------------------------------------------------------------------------
Init ==
    /\ pc = "config"
    /\ config \in [state : {"good"}, nodes : 0 .. MaxNodes]
                      \cup [state : {"missing", "bad"}, nodes : {0}]
    /\ stdin \in {"terminal", "pipe", "file"}
    /\ args \in ArgumentLists
    /\ arguments = None
    /\ certified \in SUBSET Nodes
    /\ conns = 0
    /\ ctries = 0
    /\ etries = 0
    /\ stream = [n \in Nodes |-> "none"]
    /\ wire = [n \in Nodes |-> None]
    /\ live = [n \in Nodes |-> FALSE]
    /\ skipped = FALSE

Start ==
    \/ ReadConfig \/ ReadArguments \/ ReadCertificate
    \/ ConnectTcp \/ RefuseTcp \/ ConnectTls \/ RefuseTls \/ GiveUp
    \/ ReadCores \/ ReadId \/ MissReply

Node(n) == Serve(n) \/ Lose(n)

Next == Start \/ Finish \/ LoseCertificate \/ \E n \in Nodes : Node(n)

(* The client goes on, and a node answers what it has received.             *)
Fairness == WF_vars(Start) /\ \A n \in Nodes : WF_vars(Serve(n))

Spec == Init /\ [][Next]_vars /\ Fairness

-----------------------------------------------------------------------------
(* Properties.                                                              *)

(* Every variable has its type; of the nodes behind the Connections only    *)
(* the one that is next has a stream, and the fourth failure of a kind ends *)
(* a dial.                                                                  *)
TypeOK ==
    /\ pc \in {"config", "arguments", "certificate", "tcp", "tls", "cores", "id", "run", End}
    /\ config \in [state : {"missing", "good", "bad"}, nodes : 0 .. MaxNodes]
    /\ conns \in 0 .. config.nodes
    /\ ctries \in 0 .. 3 /\ etries \in 0 .. 3
    /\ stream \in [Nodes -> {"none", "up", "lost"}]
    /\ wire \in [Nodes -> {None, "get", "cores", "com", "id", "del"}]
    /\ live \in [Nodes -> BOOLEAN]
    /\ skipped \in BOOLEAN
    /\ \A n \in Nodes : n > conns + 1 => stream[n] = "none"

(* The units of a command line, each written behind its separator, are the  *)
(* command line again: no argument is lost, added, moved to another unit or *)
(* taken for a file instead of a string.                                    *)
ArgumentsAreKept ==
    (arguments # None /\ stdin = "terminal") =>
        LET unit(i) == arguments.units[i] IN
        Tail(args) = FlattenSeq([i \in DOMAIN arguments.units |-> <<unit(i).mode>> \o unit(i).words])

(* However far a start came and however it failed, and when the client is   *)
(* done, the command stays only on nodes whose stream was lost: for all     *)
(* others del is at least under way. The exception is a certificate that    *)
(* cannot be read, for a node that is next or later for one of its slots:   *)
(* the process exits with its Connections still open.                       *)
NothingIsLeftBehind ==
    pc = End => \A n \in Nodes : live[n] => stream[n] = "lost" \/ wire[n] = "del" \/ skipped

(* A start comes to its end: nodes that refuse connections, or that refuse  *)
(* some and fail in TLS on others, or whose streams are lost, do not keep   *)
(* the client for ever.                                                     *)
StartEnds == <>(pc \in {"run", End})

=============================================================================
