-------------------------------- MODULE Wire --------------------------------
(***************************************************************************)
(* One TLS stream between a client and the job server, and what both ends  *)
(* make of its bytes: ConcurrCodec and the events of                       *)
(* src/server/service/{codec,events}.rs, Connection of                     *)
(* src/client/connection.rs, read_results and ResultsCache of              *)
(* src/client/slot.rs.  The stream is a control connection (get cores,     *)
(* com, del) or the stream of a slot (inp, one after the other).           *)
(*                                                                         *)
(* Bytes are characters: "LF", "CR", "BS" (the backslash), " ", digits,    *)
(* letters; the word of an instruction with the byte behind it (4 bytes)   *)
(* is one character, and so is the "ERR" of a reply.                       *)
(*                                                                         *)
(* A text may have lines of its own that begin with such a word: they go   *)
(* to the server as they are, and it takes each for one more request.      *)
(*                                                                         *)
(* Bounds: Commands, Texts, Results, Listings and Cids are finite sets; a  *)
(* slot submits at most MaxInputs inputs.                                  *)
(***************************************************************************)
EXTENDS Tokenizer, FiniteSets

CONSTANTS
    Commands,   (* the texts clients register as commands                   *)
    Texts,      (* the texts of inputs                                      *)
    Results,    (* what jobs print on a stream                              *)
    Jids,       (* the numbers of inputs, as digits                         *)
    Cids,       (* the IDs the server may give to commands, as digits       *)
    Listings,   (* what get comms may answer                                *)
    MaxInputs,  (* bound on the inputs of a slot                            *)
    None        (* Rust's None                                              *)

Digits == {"0", "1", "2", "3", "4", "5", "6", "7", "8", "9"}

Words == {"com", "inp", "get", "del"}

Cores == <<"2">>

ASSUME WireAssumption ==
    /\ Commands \cup Texts \cup Results \cup Listings \cup Jids \cup Cids \subseteq Seq(STRING)
    /\ \A n \in Jids \cup Cids : n # <<>> /\ \A i \in DOMAIN n : n[i] \in Digits
    /\ MaxInputs \in Nat

VARIABLES
    role,       (* "control" or "slot"                                      *)
    pc,         (* what the client does next on the stream                  *)
    told,       (* Connection::command, Slot::id: the ID the client has     *)
    asked,      (* the requests the client has sent                         *)
    toServer,   (* bytes on their way to the server                         *)
    buf,        (* the server's bytes that are not decoded                  *)
    stream,     (* "up", "broken" by the network, or "closed" by the server *)
    event,      (* the request the server works on, or None                 *)
    commands,   (* what it has stored for this stream: IDs, texts, tokens   *)
    reply,      (* the last reply it has sent, or None                      *)
    toClient,   (* bytes on their way to the client                         *)
    result      (* what the last reply was taken for, or None               *)

vars == <<role, pc, told, asked, toServer, buf, stream, event, commands, reply, toClient, result>>

-----------------------------------------------------------------------------
(* Instructions, and ConcurrCodec::decode.                                  *)

Instruction(r) ==
    CASE r.op = "com" -> <<"com">> \o r.text
      [] r.op = "inp" -> <<"inp">> \o r.cid \o <<Space>> \o r.jid \o <<Space>> \o r.text
      [] r.op = "get" -> <<"get">> \o r.text
      [] r.op = "del" -> <<"del">> \o r.cid

Position(c, s) == CHOOSE i \in DOMAIN s : s[i] = c /\ \A k \in 1 .. i - 1 : s[k] # c

IsNumber(s) == s # <<>> /\ \A i \in DOMAIN s : s[i] \in Digits

(* JobEvent::get_input: cid, jid, and the rest of the line.                 *)
GetInput(arg) ==
    LET i    == Position(Space, arg)
        rest == SubSeq(arg, i + 1, Len(arg))
        k    == Position(Space, rest)
        cid  == SubSeq(arg, 1, i - 1)
        jid  == SubSeq(rest, 1, k - 1)
    IN  IF Contains(arg, Space) /\ Contains(rest, Space) /\ IsNumber(cid) /\ IsNumber(jid)
        THEN [op |-> "inp", cid |-> cid, jid |-> jid, text |-> SubSeq(rest, k + 1, Len(rest))]
        ELSE None

(* The event of a frame; None is an error. A frame of less than five bytes  *)
(* is one, and so is the word of an instruction alone.                      *)
Parse(frame) ==
    LET arg == Tail(frame) IN
    CASE Len(frame) < 2      -> None
      [] Len(frame) >= 2 /\ frame[1] = "com" -> [op |-> "com", text |-> arg]
      [] Len(frame) >= 2 /\ frame[1] = "inp" -> GetInput(arg)
      [] Len(frame) >= 2 /\ frame[1] = "get" /\ arg \in {<<"cores">>, <<"comms">>} -> [op |-> "get", text |-> arg]
      [] Len(frame) >= 2 /\ frame[1] = "del" /\ IsNumber(arg) -> [op |-> "del", cid |-> arg]
      [] OTHER -> None

-----------------------------------------------------------------------------
(* Replies: escape and Display in the server, unescape in the client.       *)

(* Mutant of Escape: newlines are sent as they are.                         *)
EscapeNothing(text) == text

(* A backslash stays single.                                                *)
Escape(text) ==
    FlattenSeq([i \in DOMAIN text |-> IF text[i] = "LF" THEN <<"BS", "n">> ELSE <<text[i]>>])

(* A backslash takes the next character with it: BS BS is a backslash, BS n *)
(* a newline, and any other pair, or a last BS, stays as it is.             *)
Unescape(text) ==
    LET taken[i \in 0 .. Len(text)] ==      \* TRUE: a backslash before i took i
            i > 0 /\ i - 1 > 0 /\ text[i - 1] = "BS" /\ ~taken[i - 1]
        part(i) ==
            CASE taken[i] /\ text[i] = "BS"  -> <<"BS">>
              [] taken[i] /\ text[i] = "n"   -> <<"LF">>
              [] taken[i] /\ text[i] \notin {"BS", "n"} -> <<"BS", text[i]>>
              [] ~taken[i] /\ text[i] = "BS" /\ i < Len(text) -> <<>>
              [] OTHER -> <<text[i]>>
    IN  FlattenSeq([i \in 1 .. Len(text) |-> part(i)])

Encode(r) ==
    (CASE r.kind = "info"   -> r.text
       [] r.kind = "error"  -> <<"ERR", Space>> \o r.jid \o <<Space>> \o Escape(r.out)
       [] r.kind = "output" -> r.jid \o <<Space>> \o r.status \o <<"LF">> \o Escape(r.out)
                                   \o <<"LF">> \o Escape(r.err))
        \o <<"LF">>

LineEnd(s) == IF Contains(s, "LF") THEN Position("LF", s) ELSE Len(s)

Line(s) == SubSeq(s, 1, LineEnd(s))

Rest(s) == SubSeq(s, LineEnd(s) + 1, Len(s))

(* String::pop, which is meant for the newline.                             *)
Pop(s) == SubSeq(s, 1, Len(s) - 1)

(* Mutant of ParseStatus: without a space the whole line is the ID.         *)
ParseStatusAny(line) ==
    LET k == IF Contains(line, Space) THEN Position(Space, line) ELSE Len(line) + 1
        jid == SubSeq(line, 1, k - 1)
        status == SubSeq(line, k + 1, Len(line))
    IN  IF IsNumber(jid) THEN [jid |-> jid, status |-> status] ELSE None

ParseStatus(line) ==
    LET k == Position(Space, line)
        jid == SubSeq(line, 1, k - 1)
        status == SubSeq(line, k + 1, Len(line))
    IN  IF Contains(line, Space) /\ IsNumber(jid) /\ IsNumber(status)
        THEN [jid |-> jid, status |-> status] ELSE None

-----------------------------------------------------------------------------
(* The client.                                                              *)

Send(r, label) ==
    /\ asked' = Append(asked, r)
    /\ toServer' = IF stream = "up" THEN toServer \o Instruction(r) \o <<"CR", "LF">> ELSE toServer
    /\ pc' = label
    /\ result' = None
    /\ UNCHANGED <<role, told, buf, stream, event, commands, reply, toClient>>

GetCores == role = "control" /\ pc = "start" /\ Send([op |-> "get", text |-> <<"cores">>], "cores")

SendCommand ==
    /\ pc = "connected"
    /\ \E t \in Commands : Send([op |-> "com", text |-> t], "id")

(* Mutant of DropConnection: the ID is the one Connection::new has set.     *)
DropZero ==
    /\ pc = "drop"
    /\ Send([op |-> "del", cid |-> <<"0">>], "gone")

(* Drop sends del with whatever ID the Connection has.                      *)
DropConnection ==
    /\ pc = "drop"
    /\ Send([op |-> "del", cid |-> told], "gone")

WriteInstruction ==
    /\ role = "slot"
    /\ pc = "start"
    /\ Len(asked) < MaxInputs
    /\ \E j \in Jids, t \in Texts : Send([op |-> "inp", cid |-> told, jid |-> j, text |-> t], "result")

(* read_line returns a line, or what is left of an ended stream.            *)
Readable(lines) ==
    \/ Cardinality({i \in DOMAIN toClient : toClient[i] = "LF"}) >= lines
    \/ stream # "up"

(* Each read makes a BufReader of its own, and drops with it whatever it    *)
(* has taken from the stream beyond its lines.                              *)
Unbuffered(rest) == {SubSeq(rest, n, Len(rest)) : n \in 1 .. Len(rest) + 1}

(* The reply to get cores. A number lets the client go on; an empty line    *)
(* (string.len() - 1) or anything else ends it, without a Connection yet.   *)
ReadCores ==
    /\ pc = "cores"
    /\ Readable(1)
    /\ pc' = IF IsNumber(Pop(Line(toClient))) THEN "connected" ELSE "gone"
    /\ toClient' \in Unbuffered(Rest(toClient))
    /\ UNCHANGED <<role, told, asked, toServer, buf, stream, event, commands, reply, result>>

(* Mutant of ReadId: the ID is returned but not kept in the Connection.     *)
ReadIdOnly ==
    /\ pc = "id"
    /\ Readable(1)
    /\ pc' = "drop"
    /\ toClient' \in Unbuffered(Rest(toClient))
    /\ UNCHANGED <<role, told, asked, toServer, buf, stream, event, commands, reply, result>>

(* The reply to com. Whether it is a number or not, the Connection is       *)
(* dropped in the end.                                                      *)
ReadId ==
    LET id == Pop(Line(toClient)) IN
    /\ pc = "id"
    /\ Readable(1)
    /\ told' = IF IsNumber(id) THEN id ELSE told
    /\ pc' = "drop"
    /\ toClient' \in Unbuffered(Rest(toClient))
    /\ UNCHANGED <<role, asked, toServer, buf, stream, event, commands, reply, result>>

(* read_results: three lines. The slot goes on with the same stream, even   *)
(* when the status line cannot be parsed; what becomes of the input then is *)
(* in Client.                                                               *)
ReadResults ==
    LET s == ParseStatus(Pop(Line(toClient)))
        rest == Rest(toClient)
    IN
    /\ pc = "result"
    /\ Readable(3)
    /\ result' = IF s = None THEN None
                 ELSE [jid |-> s.jid, status |-> s.status, out |-> Unescape(Pop(Line(rest))),
                       err |-> Unescape(Pop(Line(Rest(rest))))]
    /\ toClient' \in Unbuffered(Rest(Rest(rest)))
    /\ pc' = "start"
    /\ UNCHANGED <<role, told, asked, toServer, buf, stream, event, commands, reply>>

-----------------------------------------------------------------------------
(* The server.                                                              *)

(* Bytes arrive in pieces.                                                  *)
Deliver ==
    /\ toServer # <<>>
    /\ stream = "up"
    /\ buf' = Append(buf, Head(toServer))
    /\ toServer' = Tail(toServer)
    /\ UNCHANGED <<role, pc, told, asked, stream, event, commands, reply, toClient, result>>

(* Mutant of Frame: the carriage return is taken for part of the frame.     *)
FrameWithReturn(i) == [frame |-> SubSeq(buf, 1, i - 1), rest |-> SubSeq(buf, i + 1, Len(buf))]

(* split_to(i - 1), where i counts from 0, and then split_to(2): the byte   *)
(* before the newline is taken for the carriage return.                     *)
Frame(i) == [frame |-> SubSeq(buf, 1, i - 2), rest |-> SubSeq(buf, i + 1, Len(buf))]

(* An error closes the stream. So does a newline at the very beginning: the *)
(* index underflows and the event-loop thread panics, which ends its other  *)
(* connections as well; of those this module knows nothing.                 *)
Decode ==
    LET i == Position("LF", buf)
        e == IF i = 1 THEN None ELSE Parse(Frame(i).frame)
    IN
    /\ event = None
    /\ stream # "closed"
    /\ Contains(buf, "LF")
    /\ event' = e
    /\ stream' = IF e = None THEN "closed" ELSE stream
    /\ buf' = IF e = None THEN <<>> ELSE Frame(i).rest
    /\ toServer' = IF e = None THEN <<>> ELSE toServer
    /\ UNCHANGED <<role, pc, told, asked, commands, reply, toClient, result>>

(* What Service::call may answer: com with an ID that no stored command     *)
(* has; inp with the output of the job, or an error.                        *)
Answers(e) ==
    CASE e.op = "com" -> [kind : {"info"}, text : {id \in Cids : \A c \in commands : c.cid # id}]
      [] e.op = "get" -> [kind : {"info"}, text : IF e.text = <<"cores">> THEN {Cores} ELSE Listings]
      [] e.op = "del" -> [kind : {"info"}, text : {<<"deleted", Space, "job">>}]
      [] e.op = "inp" ->
             [kind : {"output"}, jid : {e.jid}, status : {<<"0">>, <<"1", "2">>},
              out : Results, err : Results]
                 \cup [kind : {"error"}, jid : {e.jid}, out : {e.text}]

(* Commands of other streams, and what their clients do, are ClientServer's.*)
Serve ==
    /\ event # None
    /\ \E r \in Answers(event) :
          /\ reply' = r
          /\ toClient' = IF stream = "up" THEN toClient \o Encode(r) ELSE toClient
          /\ commands' =
                CASE event.op = "com" ->
                       commands \cup {[cid |-> r.text, text |-> event.text, tokens |-> Tokens(event.text)]}
                  [] event.op = "del" -> {c \in commands : c.cid # event.cid}
                  [] OTHER -> commands
    /\ event' = None
    /\ UNCHANGED <<role, pc, told, asked, toServer, buf, stream, result>>

-----------------------------------------------------------------------------
(* The network, which is external: the stream breaks, and what was under    *)
(* way to the client may be cut anywhere.                                   *)
Break ==
    /\ stream = "up"
    /\ pc # "gone"
    /\ stream' = "broken"
    /\ toServer' = <<>>
    /\ \E n \in 0 .. Len(toClient) : toClient' = SubSeq(toClient, 1, n)
    /\ UNCHANGED <<role, pc, told, asked, buf, event, commands, reply, result>>

-----------------------------------------------------------------------------
Init ==
    /\ \/ role = "control" /\ told = <<"0">>
       \/ role = "slot" /\ told \in Cids
    /\ pc = "start"
    /\ asked = <<>>
    /\ toServer = <<>>
    /\ buf = <<>>
    /\ stream = "up"
    /\ event = None
    /\ commands = {}
    /\ reply = None
    /\ toClient = <<>>
    /\ result = None

Control == GetCores \/ ReadCores \/ SendCommand \/ ReadId \/ DropConnection

Slot == WriteInstruction \/ ReadResults

Next == Control \/ Slot \/ Deliver \/ Decode \/ Serve \/ Break

Spec == Init /\ [][Next]_vars

-----------------------------------------------------------------------------
(* Properties.                                                              *)

OneLine(t) == ~Contains(t, "LF")

NoBackslash(t) == ~Contains(t, "BS")

(* The words that begin a line of a text, other than its first.             *)
LineWords(t) == {t[i] : i \in {k \in 2 .. Len(t) : t[k - 1] = "LF"}} \cap Words

(* The words that begin a line of any text sent so far: to the server they  *)
(* are requests of their own.                                               *)
AskedWords == UNION {LineWords(asked[i].text) : i \in {k \in DOMAIN asked : asked[k].op # "del"}}

(* The lines of s, each from its first byte to its newline, and without the *)
(* newline and the byte before it.                                          *)
Lines(s) ==
    {l \in (DOMAIN s) \X (DOMAIN s) :
        /\ l[1] = 1 \/ s[l[1] - 1] = "LF"
        /\ l[1] <= l[2] /\ s[l[2]] = "LF"
        /\ \A m \in l[1] .. l[2] - 1 : s[m] # "LF"}

Frames(s) == {SubSeq(s, l[1], l[2] - 2) : l \in Lines(s)}

(* However bytes are cut into pieces, whatever the server works on is a     *)
(* request the client has sent, byte for byte, or a line of one whose text  *)
(* has a newline: the instruction goes on behind it as a request of its own *)
(* if it begins with a word. Nothing is put together of two instructions,   *)
(* and a text of one line is never changed.                                 *)
RequestsArriveIntact ==
    event # None =>
        \E i \in DOMAIN asked :
            \/ event = asked[i]
            \/ /\ asked[i].op # "del" /\ ~OneLine(asked[i].text)
               /\ event \in {Parse(f) : f \in Frames(Instruction(asked[i]) \o <<"CR", "LF">>)}

(* What the client takes for the result of an input, on a stream that is    *)
(* still up, is the output of the job, with all its newlines, if it has no  *)
(* backslash: escape leaves those single, so that unescape takes BS n for a *)
(* newline and BS BS for one backslash. Excepted are streams on which a     *)
(* line of an input's text was a request of its own: its reply is read in   *)
(* place of a result.                                                       *)
ResultsArriveIntact ==
    (result # None /\ stream = "up" /\ AskedWords = {} /\ NoBackslash(reply.out \o reply.err)) =>
        result = [jid |-> reply.jid, status |-> reply.status, out |-> reply.out, err |-> reply.err]

(* However the stream is cut, a result is stored under the ID of the input  *)
(* that was submitted: a cut reply may lose output, never another job's     *)
(* place. The exception is that of ResultsArriveIntact.                     *)
ResultsKeepTheirId ==
    (result # None /\ AskedWords = {}) => result.jid = asked[Len(asked)].jid

(* The server understands a command as the text says: the line of a job is  *)
(* the text with its tokens replaced, and Display gives the text back.      *)
CommandIsUnderstood ==
    \A c \in commands :
        /\ LET value == [placeholder |-> <<"x", "y">>, slot |-> <<"0">>, job |-> <<"1">>]
           IN  Expand(c.tokens, value) = Replaced(c.text, value)
        /\ Display(c.tokens) = Replaced(c.text, Literal)

(* A Connection is dropped with ID 0 when its command was not confirmed;    *)
(* still, the server is told to delete only the ID it gave out on this very *)
(* stream, and while that command is stored. This fails only when a line of *)
(* a text, behind a newline, begins with del: the server deletes whatever   *)
(* ID the line names, another client's included.                            *)
OnlyOwnCommandIsDeleted ==
    (event # None /\ event.op = "del" /\ "del" \notin AskedWords) =>
        event.cid = told /\ \E c \in commands : c.cid = told

(* A client that has gone leaves no command behind, once nothing is under   *)
(* way any more, unless the stream was lost or the text of the command made *)
(* the server close it. This fails only when a line of the text, behind a   *)
(* newline, begins with com: the server stores one more command for it, of  *)
(* whose ID the client knows nothing.                                       *)
CommandIsDeleted ==
    (pc = "gone" /\ stream = "up" /\ toServer = <<>> /\ event = None /\ "com" \notin AskedWords) =>
        Contains(buf, "LF") \/ commands = {}

=============================================================================
