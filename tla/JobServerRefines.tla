--------------------------- MODULE JobServerRefines ---------------------------
(***************************************************************************)
(* The job server implements JobService: an ID is live while the table     *)
(* holds a command for it, and an input is accepted while its handler has  *)
(* the read lock.                                                          *)
(***************************************************************************)
EXTENDS JobServer

Service == INSTANCE JobService WITH
    live     <- {k - 1 : k \in {i \in DOMAIN commands : commands[i] # None}},
    asked    <- req,
    accepted <- readers,
    reply    <- sent

(* Every behaviour of the handlers and slots is one of the abstract         *)
(* service: IDs are the lowest free ones, an answer is the output of the    *)
(* connection's own input, and a delete waits for accepted inputs           *)
(* (Service::call, src/server/service/mod.rs).                              *)
ImplementsService == Service!Spec

=============================================================================
