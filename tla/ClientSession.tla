--------------------------- MODULE ClientSession ---------------------------
(***************************************************************************)
(* Any caller of the request functions of basic_client over one            *)
(* connection: in any order, and also after a call returned an error, which *)
(* neither closes the connection nor empties it.  Unlike the               *)
(* initialization of a hub nobody compares the id of an answer with the    *)
(* one asked for.                                                          *)
(***************************************************************************)
EXTENDS Client

CONSTANTS
    CallIds,     \* ids the caller asks for
    MaxCalls     \* bound on the calls of a behaviour

ASSUME SessionAssumption == CallIds \subseteq ByteIds /\ MaxCalls \in Nat

VARIABLES
    calls,   \* number of the last call
    asked,   \* its request
    result,  \* what it returned: nothing before and for an error
    gave_up  \* ghost: calls that failed at receiving, their answer still to come

sessionVars == <<calls, asked, result, gave_up>>
vars == <<clientVars, sessionVars>>

CallRequests ==
    {SystemRequest, CountRequest, StateRequest}
        \cup {DeviceRequest(id) : id \in CallIds} \cup {SensorRequest(id) : id \in CallIds}

SessionInit ==
    /\ ClientInit
    /\ calls = 0
    /\ asked = SystemRequest
    /\ result = {}
    /\ gave_up = 0

Call ==
    /\ calls < MaxCalls
    /\ \E req \in CallRequests : Send(req) /\ asked' = req
    /\ calls' = calls + 1
    /\ result' = {}
    /\ UNCHANGED gave_up

\* What a request function makes of a message; the one for the state looks at
\* no type.
Parse(req, msg) ==
    CASE req.type = "system_information" -> ParseSystemInfo(msg)
      [] req.type = "count_information" -> ParseCountInfo(msg)
      [] req.type = "device_information" -> ParseDevice(msg)
      [] req.type = "sensor_information" -> ParseSensor(msg)
      [] OTHER -> {msg.values}

Return ==
    /\ status = "ok"
    /\ status' = "idle"
    /\ result' = Parse(asked, buffer)
    /\ UNCHANGED <<pico, network, buffer, faults, reported, calls, asked, gave_up>>

\* Mutant: the error is overlooked; the request still in the buffer is parsed.
ReturnErrorParsed ==
    /\ status = "error"
    /\ status' = "idle"
    /\ result' = Parse(asked, buffer)
    /\ UNCHANGED <<pico, network, buffer, faults, reported, calls, asked, gave_up>>

\* The client stays as it is.
ReturnError ==
    /\ status = "error"
    /\ status' = "idle"
    /\ UNCHANGED <<pico, network, buffer, faults, reported, sessionVars>>

GiveUp == ReceiveFails /\ gave_up' = gave_up + 1 /\ UNCHANGED <<calls, asked, result>>

Receiving == (Receive \/ ReceiveEnd) /\ UNCHANGED sessionVars

SessionNext ==
    \/ Call \/ Return \/ ReturnError
    \/ Receiving \/ GiveUp
    \/ PicoStep /\ UNCHANGED sessionVars

SessionSpec == SessionInit /\ [][SessionNext]_vars

\* The thread inside a request function goes on; nothing is assumed of the
\* caller, of the Pico, nor that a call fails.
FairSession == SessionSpec /\ WF_vars(Return \/ ReturnError) /\ WF_vars(Receiving)

-----------------------------------------------------------------------------
(* Properties                                                              *)

\* What a Pico says in answer to a request, as the caller is to see it.
Truth(req) == UNION {Parse(req, msg) : msg \in Answers(pico, req)}

\* As long as no receive failed or came in pieces, and the Pico sends nothing
\* unasked, a call returns the answer to its own request or an error, also
\* after calls that failed at sending or got a useless answer.
CallsGetTheirAnswers ==
    (status = "idle" /\ faults \cap {"receive_error", "split", "unasked"} = {})
        => result \subseteq Truth(asked) \cup Parse(asked, [type |-> asked.type, values |-> <<>>])

\* A call that gives up leaves its answer behind, and nothing ever catches up:
\* each later call is given the answer of an earlier one.  The connection lags
\* by exactly the calls that gave up.
LagsByCallsGivenUp ==
    (status \in {"idle", "error"} /\ faults \subseteq {"receive_error", "useless"})
        => Len(inbox) * Parts + Len(stream) = gave_up * Parts

\* A call returns, with an answer or an error, unless it waits for ever for a
\* Pico that keeps the connection and says nothing.
CallsReturn ==
    []<>(status = "idle") \/ <>[](status = "waiting" /\ stream = <<>> /\ connected)
=============================================================================
