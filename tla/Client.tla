------------------------------- MODULE Client -------------------------------
(***************************************************************************)
(* basic_client::request_message over a TCP connection: write the request  *)
(* into the one buffer of the client, send it, receive once into the same  *)
(* buffer and parse what that receive returned.                            *)
(*                                                                         *)
(* A frame travels as Parts units; a receive takes any non-empty prefix of *)
(* what has arrived.  Only a receive that returns one whole frame parses:  *)
(* a fragment, or two frames at once, fails the length check.              *)
(***************************************************************************)
EXTENDS Pico

CONSTANTS
    Parts,     \* units per frame on the wire
    Capacity,  \* size of the client's buffer, in units
    MaxStream, \* bound on the units in flight
    UnaskedRequests \* the requests a Pico may answer without being asked

ASSUME ClientAssumption ==
    /\ Parts \in Nat \ {0}
    /\ Capacity \in Nat /\ Capacity >= Parts
    /\ MaxStream \in Nat
    /\ UnaskedRequests \subseteq Requests

VARIABLES
    pico,      \* the inventory of the Pico, fixed
    inbox,     \* requests on their way to the Pico
    stream,    \* units on their way to the client
    connected, \* the Pico has not closed the connection
    buffer,    \* _buffer, as the message it holds
    status,    \* where request_message is
    faults,    \* ghost: the kinds of fault that happened so far
    reported   \* ghost: the value lists sent in answer to a state request

network == <<inbox, stream, connected>>
clientVars == <<pico, inbox, stream, connected, buffer, status, faults, reported>>

\* What reaches the Pico of a request that was sent only in part.
Fragment == [type |-> "fragment", id |-> 0]

Frame(msg) == [i \in 1..Parts |-> [msg |-> msg, part |-> i]]

IsWholeFrame(chunk) ==
    Len(chunk) = Parts /\ \A i \in 1..Len(chunk) : chunk[i].part = i

Content(chunk) == IF IsWholeFrame(chunk) THEN chunk[1].msg ELSE Unreadable

\* The bytes of a request parse as a message themselves: the view of an
\* earlier response would read these values.
RequestMessage(req) ==
    [type |-> req.type,
     values |-> CASE req.type = "device_information" -> <<Num1(0, req.id), Num3(1, 0)>>
                  [] req.type = "sensor_information" -> <<Num1(1, req.id), Num1(2, 0)>>
                  [] OTHER -> <<>>]

ClientInit ==
    /\ pico \in Inventories
    /\ inbox = <<>>
    /\ stream = <<>>
    /\ connected = TRUE
    /\ buffer = Unreadable
    /\ status = "idle"
    /\ faults = {}
    /\ reported = {}

-----------------------------------------------------------------------------
(* request_message                                                         *)

\* The request is written into the buffer whatever becomes of the send.
WriteRequest(req) ==
    /\ status = "idle"
    /\ buffer' = RequestMessage(req)
    /\ UNCHANGED <<pico, stream, connected, reported>>

SendWhole(req) ==
    /\ WriteRequest(req)
    /\ inbox' = Append(inbox, req)
    /\ status' = "waiting"
    /\ UNCHANGED faults

\* ::send may take fewer bytes than it was given; only -1 is an error.
SendShort(req) ==
    /\ WriteRequest(req)
    /\ inbox' = Append(inbox, Fragment)
    /\ status' = "waiting"
    /\ faults' = faults \cup {"short_send"}

SendFails(req) ==
    /\ WriteRequest(req)
    /\ status' = "error"
    /\ faults' = faults \cup {"send_error"}
    /\ UNCHANGED inbox

Send(req) == SendWhole(req) \/ SendShort(req) \/ SendFails(req)

\* Mutant: recv only looks at what has arrived (MSG_PEEK).
ReceivePeeks ==
    /\ status = "waiting"
    /\ \E n \in 1..Len(stream) :
         LET chunk == SubSeq(stream, 1, n)
         IN  /\ n <= Capacity
             /\ buffer' = Content(chunk)
             /\ status' = IF Content(chunk) = Unreadable THEN "error" ELSE "ok"
             /\ faults' = faults \cup (IF IsWholeFrame(chunk) THEN {} ELSE {"split"})
    /\ UNCHANGED <<pico, inbox, stream, connected, reported>>

Receive ==
    /\ status = "waiting"
    /\ \E n \in 1..Len(stream) :
         LET chunk == SubSeq(stream, 1, n)
         IN  /\ n <= Capacity
             /\ stream' = SubSeq(stream, n + 1, Len(stream))
             /\ buffer' = Content(chunk)
             /\ status' = IF Content(chunk) = Unreadable THEN "error" ELSE "ok"
             /\ faults' = faults \cup (IF IsWholeFrame(chunk) THEN {} ELSE {"split"})
    /\ UNCHANGED <<pico, inbox, connected, reported>>

\* Mutant: the end of the connection is taken for a receive to repeat.
ReceiveEndAgain ==
    /\ status = "waiting"
    /\ ~connected
    /\ stream = <<>>
    /\ UNCHANGED <<pico, network, buffer, status, faults, reported>>

\* The Pico closed the connection and everything it sent was read: the empty
\* span has no header.
ReceiveEnd ==
    /\ status = "waiting"
    /\ ~connected
    /\ stream = <<>>
    /\ status' = "error"
    /\ UNCHANGED <<pico, network, buffer, faults, reported>>

\* Mutant: the result -1 of recv is taken for a length; the request still in
\* the buffer is parsed.
ReceiveFailsUnnoticed ==
    /\ status = "waiting"
    /\ status' = "ok"
    /\ faults' = faults \cup {"receive_error"}
    /\ UNCHANGED <<pico, network, buffer, reported>>

\* Mutant: a failed receive is tried again from the request on.
ReceiveFailsRetried ==
    /\ status = "waiting"
    /\ status' = "idle"
    /\ faults' = faults \cup {"receive_error"}
    /\ UNCHANGED <<pico, network, buffer, reported>>

ReceiveFails ==
    /\ status = "waiting"
    /\ status' = "error"
    /\ faults' = faults \cup {"receive_error"}
    /\ UNCHANGED <<pico, network, buffer, reported>>

-----------------------------------------------------------------------------
(* The Pico                                                                *)

Deliver(msg) ==
    /\ connected
    /\ Len(stream) + Parts <= MaxStream
    /\ stream' = stream \o Frame(msg)
    /\ UNCHANGED <<pico, connected, buffer, status>>

Reported(msg) ==
    reported \cup {v \in {msg.values} : msg.type = "sensor_state"}

PicoAnswers ==
    /\ inbox # <<>>
    /\ Head(inbox) \in Requests
    /\ inbox' = Tail(inbox)
    /\ \E msg \in Answers(pico, Head(inbox)) :
         /\ Deliver(msg)
         /\ reported' = Reported(msg)
    /\ UNCHANGED faults

PicoAnswersUselessly ==
    /\ inbox # <<>>
    /\ Head(inbox) \in Requests
    /\ inbox' = Tail(inbox)
    /\ \E msg \in UselessAnswers(Head(inbox)) :
         /\ Deliver(msg)
         /\ reported' = Reported(msg)
    /\ faults' = faults \cup {"useless"}

\* A message nobody is waiting for: a second answer, or one to another request.
PicoSendsUnasked ==
    /\ \E req \in UnaskedRequests : \E msg \in Answers(pico, req) : Deliver(msg)
    /\ faults' = faults \cup {"unasked"}
    /\ UNCHANGED <<inbox, reported>>

PicoCloses ==
    /\ connected
    /\ connected' = FALSE
    /\ faults' = faults \cup {"closed"}
    /\ UNCHANGED <<pico, inbox, stream, buffer, status, reported>>

PicoStep == PicoAnswers \/ PicoAnswersUselessly \/ PicoSendsUnasked \/ PicoCloses

-----------------------------------------------------------------------------
Units == [msg : MessageSet, part : 1..Parts]

FaultKinds == {"short_send", "send_error", "receive_error", "split", "useless",
               "unasked", "closed"}

ClientTypeOK ==
    /\ pico \in Inventories
    /\ inbox \in Seq(Requests \cup {Fragment})
    /\ stream \in Seq(Units)
    /\ connected \in BOOLEAN
    /\ buffer \in MessageSet
    /\ status \in {"idle", "waiting", "ok", "error"}
    /\ faults \in SUBSET FaultKinds
    /\ reported \in SUBSET Seq(Values)
=============================================================================
