------------------------------ MODULE JobService ------------------------------
(***************************************************************************)
(* What the job server promises its clients, without threads, stacks and   *)
(* locks: a set of live command IDs, requests answered one per connection, *)
(* and between the acceptance of an input and its answer a command that    *)
(* cannot be deleted.                                                      *)
(***************************************************************************)
EXTENDS Naturals, FiniteSets

CONSTANTS Conns, Jids, Cids, Cores, None

VARIABLES
    live,       (* the IDs that name a command                              *)
    asked,      (* the request of each connection, or None                  *)
    accepted,   (* the connections whose input is being worked on           *)
    reply       (* the reply of the last step, or None                      *)

vars == <<live, asked, accepted, reply>>

Inputs   == [op : {"inp"}, cid : Cids, jid : Jids]
Stops    == [op : {"del"}, cid : Cids]
Requests == Inputs \cup Stops \cup [op : {"com", "comms", "cores"}]

Init ==
    /\ live = {}
    /\ asked = [c \in Conns |-> None]
    /\ accepted = {}
    /\ reply = None

Ask(c) ==
    /\ asked[c] = None
    /\ \E r \in Requests : asked' = [asked EXCEPT ![c] = r]
    /\ reply' = None
    /\ UNCHANGED <<live, accepted>>

Reply(c, r) ==
    /\ asked' = [asked EXCEPT ![c] = None]
    /\ reply' = r

(* The lowest ID that names nothing.                                        *)
Create(c) ==
    /\ asked[c] = [op |-> "com"]
    /\ \E k \in (0 .. Cardinality(live)) \ live :
          /\ 0 .. k - 1 \subseteq live
          /\ live' = live \cup {k}
          /\ Reply(c, [to |-> c, kind |-> "id", cid |-> k])
    /\ UNCHANGED accepted

Accept(c) ==
    /\ asked[c] \in Inputs
    /\ c \notin accepted
    /\ asked[c].cid \in live
    /\ accepted' = accepted \cup {c}
    /\ reply' = None
    /\ UNCHANGED <<live, asked>>

Reject(c) ==
    /\ asked[c] \in Inputs
    /\ c \notin accepted
    /\ asked[c].cid \notin live
    /\ Reply(c, [to |-> c, kind |-> "error", jid |-> asked[c].jid])
    /\ UNCHANGED <<live, accepted>>

(* The output is the one of the connection's own input.                     *)
Answer(c) ==
    /\ c \in accepted
    /\ \/ Reply(c, [to |-> c, kind |-> "output", jid |-> asked[c].jid, from |-> c])
       \/ Reply(c, [to |-> c, kind |-> "error", jid |-> asked[c].jid])
    /\ accepted' = accepted \ {c}
    /\ UNCHANGED live

Delete(c) ==
    /\ asked[c] \in Stops
    /\ \A d \in accepted : asked[d].cid # asked[c].cid
    /\ live' = live \ {asked[c].cid}
    /\ Reply(c, [to |-> c, kind |-> "deleted", cid |-> asked[c].cid])
    /\ UNCHANGED accepted

Query(c) ==
    /\ \/ /\ asked[c] = [op |-> "cores"]
          /\ Reply(c, [to |-> c, kind |-> "cores", cores |-> Cores])
       \/ /\ asked[c] = [op |-> "comms"]
          /\ Reply(c, [to |-> c, kind |-> "commands", cids |-> live])
    /\ UNCHANGED <<live, accepted>>

(* A reply is the event of one step.                                        *)
Work ==
    /\ reply' = None
    /\ UNCHANGED <<live, asked, accepted>>

Next ==
    \/ Work
    \/ \E c \in Conns :
          Ask(c) \/ Create(c) \/ Accept(c) \/ Reject(c) \/ Answer(c) \/ Delete(c) \/ Query(c)

Spec == Init /\ [][Next]_vars

=============================================================================
