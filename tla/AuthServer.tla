------------------------------ MODULE AuthServer ------------------------------
(***************************************************************************)
(* The authentication webhook, auth_server.py, on connections that are     *)
(* kept alive: a thread to each connection reads a head, as much of a body *)
(* as the head announces, answers, and takes what follows in the socket    *)
(* for the next head.                                                      *)
(*                                                                         *)
(* The line protocol is http.server's.  Clients are external: containerssh *)
(* announces what it sends, a probe by hand need not.  A body is a number  *)
(* of parts, and what it says once all of them have been read.             *)
(***************************************************************************)
EXTENDS Integers, Sequences

CONSTANTS
    Connections,
    Requests,       \* what a client may send
    Usernames,      \* the strings a body may carry under "username"
    MaxRequests     \* bound: how many requests on each connection

DEFAULT_USERNAME == "guestuser"
Unusable == "unusable"  \* a body that is no json object with such a string

(* The length is what Content-Length announces, 0 or less if it is missing, *)
(* malformed or of no use; body is the number of parts that follow. *)
ASSUME RequestsAssumption ==
    Requests \subseteq [method : {"POST", "GET", "PUT"}, path : {"auth", "other"},
                        length : Int, body : Nat, says : Usernames \cup {Unusable}]
ASSUME UsernamesAssumption == Unusable \notin Usernames
ASSUME MaxRequestsAssumption == MaxRequests \in [Connections -> Nat]

VARIABLES
    (* the clients *)
    sent,       \* the requests begun on each connection
    pending,    \* what is left to send of the last of them
    shut,       \* whether the client has closed its end
    inbox,      \* sent and not yet read by the server
    replies,    \* the answers on each connection
    (* the handler threads *)
    pc,         \* where each is: at a request line, a body, an answer, or done
    current,    \* the request whose head was read
    payload     \* what _read_json made of its body

clientVars == <<sent, pending, shut>>
handlerVars == <<pc, current, payload>>
vars == <<clientVars, inbox, replies, handlerVars>>

-----------------------------------------------------------------------------
(* A request on the wire: a head, and the parts of its body.               *)

RequestHead(r) == [what |-> "head", of |-> r]
Part(r) == [what |-> "part", of |-> r]
Parts(r) == [i \in 1..r.body |-> Part(r)]
Wire(r) == <<RequestHead(r)>> \o Parts(r)

Reply(status, username) == [status |-> status, username |-> username]

(* mutant: a request that is rejected is not read any further *)
LengthIfServed(r) == IF r.path = "auth" /\ r.length > 0 THEN r.length ELSE 0

(* how much _read_json reads *)
Length(r) == IF r.length > 0 THEN r.length ELSE 0

(* mutant: whatever stands under "username" *)
UsernameAsGiven(r, body) == IF body = Parts(r) THEN r.says ELSE DEFAULT_USERNAME

Username(r, body) ==
    IF r.body > 0 /\ body = Parts(r) /\ r.says # Unusable THEN r.says ELSE DEFAULT_USERNAME

(* do_POST and do_GET, once the body has been read *)
Answer(r, body) ==
    IF r.method = "POST" /\ r.path = "auth" THEN Reply(200, Username(r, body))
    ELSE Reply(404, DEFAULT_USERNAME)

-----------------------------------------------------------------------------
(* The clients.                                                            *)

Begin(c, r) ==
    /\ ~shut[c] /\ pending[c] = <<>>
    /\ Len(sent[c]) < MaxRequests[c]
    /\ sent' = [sent EXCEPT ![c] = Append(@, r)]
    /\ pending' = [pending EXCEPT ![c] = Wire(r)]
    /\ UNCHANGED <<shut, inbox, replies, handlerVars>>

Send(c) ==
    /\ ~shut[c] /\ pending[c] # <<>>
    /\ inbox' = [inbox EXCEPT ![c] = Append(@, pending[c][1])]
    /\ pending' = [pending EXCEPT ![c] = Tail(@)]
    /\ UNCHANGED <<sent, shut, replies, handlerVars>>

Shut(c) ==
    /\ ~shut[c]
    /\ shut' = [shut EXCEPT ![c] = TRUE]
    /\ UNCHANGED <<sent, pending, inbox, replies, handlerVars>>

-----------------------------------------------------------------------------
(* A handler thread.                                                       *)

(* mutant: HTTPServer, which has one thread for all of them *)
OtherHandlersRest(c) == \A d \in Connections \ {c} : pc[d] \notin {"body", "respond"}

(* ThreadingHTTPServer *)
MayRun(c) == TRUE

(* A method http.server finds no handler for, or a line that is no request *)
(* line: it answers with an error and closes the connection. *)
Refuse(c, status) ==
    /\ replies' = [replies EXCEPT ![c] = Append(@, Reply(status, DEFAULT_USERNAME))]
    /\ pc' = [pc EXCEPT ![c] = "done"]
    /\ UNCHANGED <<current, payload>>

ReadHead(c) ==
    /\ pc[c] = "head" /\ MayRun(c)
    /\ inbox[c] # <<>> /\ inbox[c][1].what = "head"
    /\ LET r == inbox[c][1].of IN
          IF r.method = "PUT"
          THEN Refuse(c, 501)
          ELSE /\ current' = [current EXCEPT ![c] = <<r>>]
               /\ pc' = [pc EXCEPT ![c] = IF r.method = "POST" THEN "body" ELSE "respond"]
               /\ UNCHANGED <<replies, payload>>
    /\ inbox' = [inbox EXCEPT ![c] = Tail(@)]
    /\ UNCHANGED clientVars

(* The rest of a body where a request line should be.  No body ends in a   *)
(* line end: the line ends with the next head's, or with the connection.   *)
(* One with three words, as a body without blanks before a head makes, is  *)
(* taken for a request of a method there is no handler for. *)
ReadGarbage(c) ==
    /\ pc[c] = "head" /\ MayRun(c)
    /\ inbox[c] # <<>> /\ inbox[c][1].what = "part"
    /\ shut[c] \/ \E i \in 1..Len(inbox[c]) : inbox[c][i].what = "head"
    /\ \E status \in {400, 501} : Refuse(c, status)
    /\ inbox' = [inbox EXCEPT ![c] = <<>>]
    /\ UNCHANGED clientVars

ReadEnd(c) ==
    /\ pc[c] = "head" /\ MayRun(c)
    /\ inbox[c] = <<>> /\ shut[c]
    /\ pc' = [pc EXCEPT ![c] = "done"]
    /\ UNCHANGED <<clientVars, inbox, replies, current, payload>>

(* _read_json: rfile.read waits for all that was announced, or for the end *)
(* of the connection, and takes it whatever it is. *)
ReadBody(c) ==
    /\ pc[c] = "body" /\ MayRun(c)
    /\ LET have == Len(inbox[c])
           want == Length(current[c][1])
           got  == IF have < want THEN have ELSE want
       IN  /\ shut[c] \/ have >= want
           /\ payload' = [payload EXCEPT ![c] = SubSeq(inbox[c], 1, got)]
           /\ inbox' = [inbox EXCEPT ![c] = SubSeq(@, got + 1, have)]
    /\ pc' = [pc EXCEPT ![c] = "respond"]
    /\ UNCHANGED <<clientVars, replies, current>>

Respond(c) ==
    /\ pc[c] = "respond" /\ MayRun(c)
    /\ replies' = [replies EXCEPT ![c] = Append(@, Answer(current[c][1], payload[c]))]
    /\ pc' = [pc EXCEPT ![c] = "head"]
    /\ current' = [current EXCEPT ![c] = <<>>]
    /\ payload' = [payload EXCEPT ![c] = <<>>]
    /\ UNCHANGED <<clientVars, inbox>>

-----------------------------------------------------------------------------
Init ==
    /\ sent = [c \in Connections |-> <<>>] /\ pending = [c \in Connections |-> <<>>]
    /\ shut = [c \in Connections |-> FALSE]
    /\ inbox = [c \in Connections |-> <<>>] /\ replies = [c \in Connections |-> <<>>]
    /\ pc = [c \in Connections |-> "head"]
    /\ current = [c \in Connections |-> <<>>] /\ payload = [c \in Connections |-> <<>>]

ClientStep(c) == Send(c) \/ Shut(c) \/ \E r \in Requests : Begin(c, r)

HandlerStep(c) == ReadHead(c) \/ ReadGarbage(c) \/ ReadEnd(c) \/ ReadBody(c) \/ Respond(c)

Next == \E c \in Connections : ClientStep(c) \/ HandlerStep(c)

Spec == Init /\ [][Next]_vars

(* A thread that can go on does; clients do as they please. *)
FairSpec == Spec /\ \A c \in Connections : WF_vars(HandlerStep(c))

-----------------------------------------------------------------------------
Tokens == [what : {"head", "part"}, of : Requests]
Replies == [status : {200, 400, 404, 501}, username : Usernames \cup {DEFAULT_USERNAME}]

(* Every variable keeps its type; in particular authenticatedUsername is a *)
(* string, whatever a probe put into its body. *)
TypeOK ==
    \A c \in Connections :
        /\ sent[c] \in Seq(Requests) /\ pending[c] \in Seq(Tokens) /\ shut[c] \in BOOLEAN
        /\ inbox[c] \in Seq(Tokens)
        /\ replies[c] \in Seq(Replies)
        /\ pc[c] \in {"head", "body", "respond", "done"}
        /\ current[c] \in Seq(Requests) /\ payload[c] \in Seq(Tokens)

(* The requests a handler reads to their end: a POST whose length is true, *)
(* and anything that has no body. *)
Framed(r) ==
    \/ r.method = "POST" /\ r.body = r.length
    \/ r.method # "PUT" /\ r.body = 0 /\ r.length <= 0

InStep(c, i) == \A j \in 1..i : Framed(sent[c][j])
Complete(c, i) == i < Len(sent[c]) \/ (i = Len(sent[c]) /\ pending[c] = <<>>)

(* "The body is always drained, even for a path we reject": on a kept-alive *)
(* connection the answers are those of the requests, one to each and in    *)
(* their order, for as long as the requests say how long they are - also   *)
(* when they come before the last answer, in pieces, and whatever comes    *)
(* after them. *)
EachItsAnswer ==
    \A c \in Connections : \A i \in 1..Len(sent[c]) :
        InStep(c, i) /\ Complete(c, i) /\ i <= Len(replies[c]) =>
            replies[c][i] = Answer(sent[c][i], Parts(sent[c][i]))

(* "One slow client cannot hold up another login": a request that was sent *)
(* in full is answered, whatever other clients leave half sent.            *)
EveryoneIsAnswered ==
    \A c \in Connections : \A i \in 1..MaxRequests[c] :
        (i <= Len(sent[c]) /\ InStep(c, i) /\ Complete(c, i)) ~> Len(replies[c]) >= i
=============================================================================
