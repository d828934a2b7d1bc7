------------------------ MODULE ClientSession_proofs ------------------------
(***************************************************************************)
(* Which answer a call gets, and by how much a connection lags, for any    *)
(* Pico and any number of calls.                                           *)
(***************************************************************************)
EXTENDS ClientSession, SequenceTheorems, TLAPS

IsSeq(s) == \E S : s \in Seq(S)

LEMMA EmptyIsSeq == IsSeq(<<>>)
BY DEF IsSeq

LEMMA AppendIsSeq ==
    ASSUME NEW s, IsSeq(s), NEW e
    PROVE  /\ IsSeq(Append(s, e))
           /\ Len(Append(s, e)) = Len(s) + 1
           /\ s # <<>> => Append(s, e) # <<>> /\ Head(Append(s, e)) = Head(s)
           /\ s = <<>> => Append(s, e) = <<e>>
           /\ Len(s) \in Nat
<1>1. PICK S : s \in Seq(S)
  BY DEF IsSeq
<1>2. s \in Seq(S \cup {e}) /\ e \in S \cup {e}
  BY <1>1
<1>3. Append(s, e) \in Seq(S \cup {e}) /\ Len(Append(s, e)) = Len(s) + 1
  BY <1>2
<1>4. s # <<>> => Append(s, e) # <<>> /\ Head(Append(s, e)) = Head(s)
  BY <1>2
<1>5. s = <<>> => Append(s, e) = <<e>>
  BY <1>2
<1>6. QED
  BY <1>1, <1>3, <1>4, <1>5 DEF IsSeq

LEMMA TailIsSeq ==
    ASSUME NEW s, IsSeq(s), s # <<>>
    PROVE  IsSeq(Tail(s)) /\ Len(Tail(s)) = Len(s) - 1 /\ Len(s) \in Nat
BY DEF IsSeq

LEMMA FrameIsSeq ==
    ASSUME NEW msg
    PROVE  /\ IsSeq(Frame(msg)) /\ Len(Frame(msg)) = Parts /\ Frame(msg) # <<>>
           /\ Frame(msg)[1].msg = msg
<1>1. Frame(msg) \in Seq([msg : {msg}, part : 1..Parts])
  BY ClientAssumption DEF Frame
<1>2. IsSeq(Frame(msg))
  BY <1>1 DEF IsSeq
<1>3. Len(Frame(msg)) = Parts /\ Frame(msg) # <<>> /\ Frame(msg)[1].msg = msg
  BY ClientAssumption DEF Frame
<1>4. QED
  BY <1>2, <1>3

LEMMA ConcatIsSeq ==
    ASSUME NEW s, NEW t, IsSeq(s), IsSeq(t)
    PROVE  /\ IsSeq(s \o t) /\ Len(s \o t) = Len(s) + Len(t)
           /\ s = <<>> => s \o t = t
<1>1. PICK S : s \in Seq(S)
  BY DEF IsSeq
<1>2. PICK T : t \in Seq(T)
  BY DEF IsSeq
<1>3. s \in Seq(S \cup T) /\ t \in Seq(S \cup T)
  BY <1>1, <1>2
<1>4. s \o t \in Seq(S \cup T) /\ Len(s \o t) = Len(s) + Len(t)
  BY <1>3
<1>5. s = <<>> => s \o t = t
  BY <1>3
<1>6. QED
  BY <1>4, <1>5 DEF IsSeq

LEMMA RestIsSeq ==
    ASSUME NEW s, IsSeq(s), NEW n \in 1..Len(s)
    PROVE  /\ IsSeq(SubSeq(s, n + 1, Len(s))) /\ IsSeq(SubSeq(s, 1, n))
           /\ Len(SubSeq(s, n + 1, Len(s))) = Len(s) - n
           /\ Len(SubSeq(s, 1, n)) = n
           /\ SubSeq(s, 1, n)[1] = s[1]
           /\ n = Len(s) => SubSeq(s, n + 1, Len(s)) = <<>>
           /\ Len(s) \in Nat
<1>1. PICK S : s \in Seq(S)
  BY DEF IsSeq
<1>2. /\ SubSeq(s, n + 1, Len(s)) \in Seq(S) /\ SubSeq(s, 1, n) \in Seq(S)
      /\ Len(SubSeq(s, n + 1, Len(s))) = Len(s) - n
      /\ Len(SubSeq(s, 1, n)) = n
      /\ SubSeq(s, 1, n)[1] = s[1]
      /\ n = Len(s) => SubSeq(s, n + 1, Len(s)) = <<>>
      /\ Len(s) \in Nat
  BY <1>1, SubSeqProperties
<1>3. QED
  BY <1>2 DEF IsSeq

\* Sequences stay sequences.
SeqInv == IsSeq(inbox) /\ IsSeq(stream)

LEMMA SeqsKept == SeqInv /\ [SessionNext]_vars => SeqInv'
<1> SUFFICES ASSUME SeqInv, [SessionNext]_vars PROVE SeqInv'
  OBVIOUS
<1> USE DEF SeqInv
<1>1. CASE Call
  BY <1>1, AppendIsSeq DEF Call, Send, SendWhole, SendShort, SendFails, WriteRequest
<1>2. CASE Receive
  BY <1>2, RestIsSeq DEF Receive
<1>3. CASE PicoAnswers \/ PicoAnswersUselessly \/ PicoSendsUnasked
  <2>1. inbox' = inbox \/ (inbox # <<>> /\ inbox' = Tail(inbox))
    BY <1>3 DEF PicoAnswers, PicoAnswersUselessly, PicoSendsUnasked
  <2>2. \E msg : stream' = stream \o Frame(msg)
    BY <1>3 DEF PicoAnswers, PicoAnswersUselessly, PicoSendsUnasked, Deliver
  <2>3. QED
    BY <2>1, <2>2, TailIsSeq, FrameIsSeq, ConcatIsSeq
<1>4. CASE Return \/ ReturnError \/ ReceiveEnd \/ ReceiveFails \/ PicoCloses \/ UNCHANGED vars
  BY <1>4 DEF Return, ReturnError, ReceiveEnd, ReceiveFails, PicoCloses, network, vars, clientVars
<1>5. QED
  BY <1>1, <1>2, <1>3, <1>4 DEF SessionNext, Receiving, GiveUp, PicoStep

-----------------------------------------------------------------------------
(* The lag of a connection                                                 *)

\* What LagsByCallsGivenUp needs to be inductive: the call under way has its
\* answer to come as well.
LagInv ==
    /\ gave_up \in Nat
    /\ faults \subseteq {"receive_error", "useless"} =>
         Len(inbox) * Parts + Len(stream) =
            (gave_up + (IF status = "waiting" THEN 1 ELSE 0)) * Parts
    /\ "closed" \notin faults => connected

LEMMA LagKept == SeqInv /\ LagInv /\ [SessionNext]_vars => LagInv'
<1> SUFFICES ASSUME SeqInv, LagInv, [SessionNext]_vars PROVE LagInv'
  OBVIOUS
<1> USE ClientAssumption DEF SeqInv
<1>0. Len(inbox) \in Nat /\ Len(stream) \in Nat
  BY DEF IsSeq
<1>1. CASE Call
  <2>0. /\ status = "idle" /\ UNCHANGED <<stream, connected, gave_up>>
        /\ \E req : SendWhole(req) \/ SendShort(req) \/ SendFails(req)
    BY <1>1 DEF Call, Send, SendWhole, SendShort, SendFails, WriteRequest
  <2>1. CASE \E req : SendWhole(req)
    <3>1. /\ Len(inbox') = Len(inbox) + 1 /\ status' = "waiting" /\ faults' = faults
      BY <2>1, AppendIsSeq DEF SendWhole
    <3>2. QED
      BY <1>0, <2>0, <3>1 DEF LagInv
  <2>2. CASE \E req : SendShort(req) \/ SendFails(req)
    BY <2>0, <2>2 DEF SendShort, SendFails, LagInv
  <2>3. QED
    BY <2>0, <2>1, <2>2
<1>2. CASE Receive /\ UNCHANGED sessionVars
  <2>0. status = "waiting" /\ status' # "waiting" /\ UNCHANGED <<inbox, connected, gave_up>>
    BY <1>2 DEF Receive, sessionVars
  <2>1. PICK n \in 1..Len(stream) :
          /\ stream' = SubSeq(stream, n + 1, Len(stream))
          /\ faults' = faults \cup (IF IsWholeFrame(SubSeq(stream, 1, n)) THEN {} ELSE {"split"})
    BY <1>2 DEF Receive
  <2>2. CASE IsWholeFrame(SubSeq(stream, 1, n))
    <3>1. n = Parts /\ Len(stream') = Len(stream) - n /\ faults' = faults
      BY <2>1, <2>2, RestIsSeq DEF IsWholeFrame
    <3>2. QED
      BY <1>0, <2>0, <3>1 DEF LagInv
  <2>3. CASE "split" \in faults' /\ faults \subseteq faults'
    BY <2>0, <2>3 DEF LagInv
  <2>4. QED
    BY <2>1, <2>2, <2>3
<1>3. CASE (PicoAnswers \/ PicoAnswersUselessly) /\ UNCHANGED sessionVars
  <2>1. /\ inbox # <<>> /\ inbox' = Tail(inbox) /\ UNCHANGED <<status, gave_up, connected>>
        /\ faults' = faults \/ faults' = faults \cup {"useless"}
        /\ \E msg : stream' = stream \o Frame(msg)
    BY <1>3 DEF PicoAnswers, PicoAnswersUselessly, Deliver, sessionVars
  <2>2. Len(inbox') = Len(inbox) - 1 /\ Len(stream') = Len(stream) + Parts
    BY <2>1, TailIsSeq, FrameIsSeq, ConcatIsSeq
  <2>3. QED
    BY <1>0, <2>1, <2>2 DEF LagInv
<1>4. CASE PicoSendsUnasked /\ UNCHANGED sessionVars
  <2>1. /\ connected' = connected /\ gave_up' = gave_up
        /\ "unasked" \in faults' /\ ("closed" \in faults => "closed" \in faults')
    BY <1>4 DEF PicoSendsUnasked, Deliver, sessionVars
  <2>2. QED
    BY <2>1 DEF LagInv
<1>5. CASE PicoCloses /\ UNCHANGED sessionVars
  BY <1>5 DEF PicoCloses, sessionVars, LagInv
<1>6. CASE ReceiveEnd /\ UNCHANGED sessionVars
  BY <1>6 DEF ReceiveEnd, network, sessionVars, LagInv
<1>7. CASE GiveUp
  <2>1. /\ status = "waiting" /\ status' = "error" /\ gave_up' = gave_up + 1
        /\ UNCHANGED <<inbox, stream, connected>> /\ faults \subseteq faults'
    BY <1>7 DEF GiveUp, ReceiveFails, network
  <2>2. QED
    BY <1>0, <2>1 DEF LagInv, ReceiveFails, GiveUp
<1>8. CASE Return \/ ReturnError \/ UNCHANGED vars
  BY <1>8 DEF Return, ReturnError, network, sessionVars, vars, clientVars, LagInv
<1>9. QED
  BY <1>1, <1>2, <1>3, <1>4, <1>5, <1>6, <1>7, <1>8 DEF SessionNext, Receiving, PicoStep

\* A connection lags behind by the calls that gave up, however many there were.
THEOREM SessionLags == SessionSpec => []LagsByCallsGivenUp
<1>1. SessionInit => SeqInv /\ LagInv
  <2>1. SessionInit => SeqInv
    BY EmptyIsSeq DEF SessionInit, ClientInit, SeqInv
  <2>2. SessionInit => LagInv
    BY ClientAssumption DEF SessionInit, ClientInit, LagInv
  <2>3. QED
    BY <2>1, <2>2
<1>2. LagInv => LagsByCallsGivenUp
  <2>1. ASSUME gave_up \in Nat PROVE (gave_up + 0) * Parts = gave_up * Parts
    BY <2>1
  <2>2. QED
    BY <2>1 DEF LagInv, LagsByCallsGivenUp
<1>3. QED
  BY <1>1, <1>2, SeqsKept, LagKept, PTL DEF SessionSpec

-----------------------------------------------------------------------------
(* The answers of calls                                                    *)

InStep == faults \cap {"receive_error", "split", "unasked"} = {}

Mine == Answers(pico, asked) \cup UselessAnswers(asked)

\* The Pico answers nothing any more.
Blocked == ~connected \/ (inbox # <<>> /\ Head(inbox) = Fragment)

\* What CallsGetTheirAnswers needs to be inductive: there is at most one answer
\* on its way, and it is one to the call under way.
AnswerInv ==
    /\ asked \in Requests
    /\ status # "idle" => result = {}
    /\ InStep =>
         /\ status = "waiting" =>
              \/ stream = <<>> /\ Blocked
              \/ stream = <<>> /\ inbox = <<asked>>
              \/ inbox = <<>> /\ \E msg \in Mine : stream = Frame(msg)
         /\ status # "waiting" => stream = <<>> /\ (inbox = <<>> \/ Blocked)
         /\ status = "ok" => buffer \in Mine /\ buffer # Unreadable
         /\ CallsGetTheirAnswers

LEMMA OwnAnswersAreRight ==
    ASSUME asked \in Requests, buffer \in Mine, buffer # Unreadable
    PROVE  Parse(asked, buffer) \subseteq
              Truth(asked) \cup Parse(asked, [type |-> asked.type, values |-> <<>>])
BY DEF Mine, UselessAnswers, Truth

LEMMA AnswersKept == SeqInv /\ AnswerInv /\ [SessionNext]_vars => AnswerInv'
<1> SUFFICES ASSUME SeqInv, AnswerInv, [SessionNext]_vars PROVE AnswerInv'
  OBVIOUS
<1>0. faults \subseteq faults' /\ (InStep' => InStep)
  <2>1. faults \subseteq faults'
    BY DEF SessionNext, Call, Send, SendWhole, SendShort, SendFails, WriteRequest, Return,
       ReturnError, Receiving, Receive, ReceiveEnd, GiveUp, ReceiveFails, PicoStep, PicoAnswers,
       PicoAnswersUselessly, PicoSendsUnasked, PicoCloses, vars, clientVars
  <2>2. QED
    BY <2>1 DEF InStep
<1>1. CASE Call
  <2>1. PICK req \in CallRequests : Send(req) /\ asked' = req
    BY <1>1 DEF Call
  <2>2. /\ status = "idle" /\ UNCHANGED <<stream, connected>> /\ result' = {}
        /\ asked' \in Requests
    BY <1>1, <2>1, SessionAssumption
       DEF Call, Send, SendWhole, SendShort, SendFails, WriteRequest, CallRequests, Requests
  <2>3. /\ status' \in {"waiting", "error"}
        /\ status' = "waiting" =>
             inbox' = Append(inbox, asked') \/ inbox' = Append(inbox, Fragment)
        /\ status' = "error" => inbox' = inbox
    BY <2>1 DEF Send, SendWhole, SendShort, SendFails
  <2>4. ASSUME InStep'
        PROVE  /\ status' = "waiting" =>
                    stream' = <<>> /\ (Blocked' \/ inbox' = <<asked'>>)
               /\ status' # "waiting" => stream' = <<>> /\ (inbox' = <<>> \/ Blocked')
    <3>1. stream = <<>> /\ (inbox = <<>> \/ Blocked)
      BY <1>0, <2>2, <2>4 DEF AnswerInv
    <3>2. CASE status' = "error"
      BY <2>2, <2>3, <3>1, <3>2 DEF Blocked
    <3>3. CASE status' = "waiting" /\ inbox = <<>>
      <4>1. inbox' = <<asked'>> \/ inbox' = <<Fragment>>
        BY <2>3, <3>3
      <4>2. QED
        BY <2>2, <3>1, <3>3, <4>1 DEF Blocked
    <3>4. CASE status' = "waiting" /\ inbox # <<>>
      <4>1. inbox' # <<>> /\ Head(inbox') = Head(inbox)
        BY <2>3, <3>4, AppendIsSeq DEF SeqInv
      <4>2. QED
        BY <2>2, <3>1, <3>4, <4>1 DEF Blocked
    <3>5. QED
      BY <2>3, <3>2, <3>3, <3>4
  <2>5. QED
    BY <2>2, <2>3, <2>4 DEF AnswerInv, CallsGetTheirAnswers
<1>2. CASE Receive /\ UNCHANGED sessionVars
  <2>1. /\ status = "waiting" /\ UNCHANGED <<pico, inbox, connected, asked, result>>
        /\ status' \in {"ok", "error"} /\ (status' = "ok" => buffer' # Unreadable)
    BY <1>2 DEF Receive, sessionVars
  <2>2. PICK n \in 1..Len(stream) :
          /\ stream' = SubSeq(stream, n + 1, Len(stream))
          /\ buffer' = Content(SubSeq(stream, 1, n))
          /\ faults' = faults \cup (IF IsWholeFrame(SubSeq(stream, 1, n)) THEN {} ELSE {"split"})
    BY <1>2 DEF Receive
  <2>3. asked' \in Requests /\ Mine' = Mine
    BY <2>1 DEF AnswerInv, Mine
  <2>4. ASSUME InStep'
        PROVE  stream' = <<>> /\ inbox' = <<>> /\ buffer' \in Mine
    <3>1. IsWholeFrame(SubSeq(stream, 1, n))
      BY <2>2, <2>4 DEF InStep
    <3>2. stream # <<>>
      BY <2>2
    <3>3. PICK msg \in Mine : inbox = <<>> /\ stream = Frame(msg)
      BY <1>0, <2>1, <2>4, <3>2 DEF AnswerInv
    <3>4. Len(SubSeq(stream, 1, n)) = n /\ SubSeq(stream, 1, n)[1] = stream[1]
      BY <2>2, RestIsSeq DEF SeqInv
    <3>5. n = Len(stream)
      BY <3>1, <3>3, <3>4, FrameIsSeq DEF IsWholeFrame
    <3>6. stream' = <<>>
      BY <2>2, <3>5, RestIsSeq DEF SeqInv
    <3>7. buffer' = msg
      BY <2>2, <3>1, <3>3, <3>4, FrameIsSeq DEF Content
    <3>8. QED
      BY <2>1, <3>3, <3>6, <3>7
  <2>5. QED
    BY <2>1, <2>3, <2>4 DEF AnswerInv, CallsGetTheirAnswers
<1>3. CASE ReceiveEnd /\ UNCHANGED sessionVars
  <2>1. /\ stream = <<>> /\ ~connected /\ status = "waiting" /\ status' = "error"
        /\ UNCHANGED <<pico, inbox, stream, connected, asked, result>>
    BY <1>3 DEF ReceiveEnd, network, sessionVars
  <2>2. QED
    BY <2>1 DEF AnswerInv, CallsGetTheirAnswers, Blocked
<1>4. CASE GiveUp \/ (PicoSendsUnasked /\ UNCHANGED sessionVars)
  <2>1. ~InStep' /\ asked' = asked /\ result' = result /\ (status' # "idle" => status # "idle")
    BY <1>4 DEF GiveUp, ReceiveFails, PicoSendsUnasked, Deliver, InStep, sessionVars
  <2>2. QED
    BY <2>1 DEF AnswerInv
<1>5. CASE Return
  <2>1. /\ status = "ok" /\ status' = "idle" /\ result' = Parse(asked, buffer)
        /\ UNCHANGED <<pico, inbox, stream, connected, faults, asked>>
    BY <1>5 DEF Return, network
  <2>2. InStep => result' \subseteq
                     Truth(asked) \cup Parse(asked, [type |-> asked.type, values |-> <<>>])
    BY <2>1, OwnAnswersAreRight DEF AnswerInv
  <2>3. Truth(asked)' = Truth(asked)
        /\ Parse(asked, [type |-> asked.type, values |-> <<>>])' =
              Parse(asked, [type |-> asked.type, values |-> <<>>])
    BY <2>1 DEF Truth, Parse
  <2>4. CallsGetTheirAnswers'
    BY <1>0, <2>2, <2>3 DEF CallsGetTheirAnswers, InStep
  <2>5. QED
    BY <1>0, <2>1, <2>4 DEF AnswerInv, Blocked
<1>6. CASE ReturnError
  <2>1. /\ status = "error" /\ status' = "idle"
        /\ UNCHANGED <<pico, inbox, stream, connected, faults, asked, result>>
    BY <1>6 DEF ReturnError, network, sessionVars
  <2>2. Blocked' = Blocked /\ result' = {}
    BY <2>1 DEF Blocked, AnswerInv
  <2>3. CallsGetTheirAnswers'
    BY <2>2 DEF CallsGetTheirAnswers
  <2>4. QED
    BY <1>0, <2>1, <2>2, <2>3 DEF AnswerInv
<1>7. CASE (PicoAnswers \/ PicoAnswersUselessly) /\ UNCHANGED sessionVars
  <2>1. /\ inbox # <<>> /\ Head(inbox) \in Requests /\ inbox' = Tail(inbox) /\ connected
        /\ UNCHANGED <<pico, connected, buffer, status, asked, result>>
    BY <1>7 DEF PicoAnswers, PicoAnswersUselessly, Deliver, sessionVars
  <2>2. PICK msg \in Answers(pico, Head(inbox)) \cup UselessAnswers(Head(inbox)) :
          stream' = stream \o Frame(msg)
    BY <1>7 DEF PicoAnswers, PicoAnswersUselessly, Deliver
  <2>3. ASSUME InStep'
        PROVE  /\ status' = "waiting"
               /\ inbox' = <<>> /\ \E m \in Mine' : stream' = Frame(m)
    <3>1. ~Blocked
      <4>1. Fragment \notin Requests
        BY DEF Fragment, Requests, SystemRequest, CountRequest, StateRequest, DeviceRequest,
           SensorRequest
      <4>2. QED
        BY <2>1, <4>1 DEF Blocked
    <3>2. status = "waiting" /\ stream = <<>> /\ inbox = <<asked>>
      BY <1>0, <2>1, <2>3, <3>1 DEF AnswerInv
    <3>3. Head(inbox) = asked /\ inbox' = <<>>
      BY <2>1, <3>2
    <3>4. stream' = Frame(msg)
      BY <2>2, <3>2, EmptyIsSeq, FrameIsSeq, ConcatIsSeq
    <3>5. msg \in Mine'
      BY <2>1, <2>2, <3>3 DEF Mine
    <3>6. QED
      BY <2>1, <3>2, <3>3, <3>4, <3>5
  <2>4. QED
    BY <2>1, <2>3 DEF AnswerInv, CallsGetTheirAnswers
<1>8. CASE PicoCloses /\ UNCHANGED sessionVars
  <2>1. ~connected' /\ UNCHANGED <<pico, inbox, stream, buffer, status, asked, result>>
    BY <1>8 DEF PicoCloses, sessionVars
  <2>2. Mine' = Mine /\ Blocked'
    BY <2>1 DEF Mine, Blocked
  <2>3. CallsGetTheirAnswers => CallsGetTheirAnswers'
    BY <1>0, <2>1 DEF CallsGetTheirAnswers, Truth, Parse
  <2>4. QED
    BY <1>0, <2>1, <2>2, <2>3 DEF AnswerInv
<1>9. CASE UNCHANGED vars
  <2>1. UNCHANGED <<pico, inbox, stream, connected, buffer, status, faults, asked, result>>
    BY <1>9 DEF vars, clientVars, network, sessionVars
  <2>2. Mine' = Mine /\ Blocked' = Blocked
    BY <2>1 DEF Mine, Blocked
  <2>3. CallsGetTheirAnswers => CallsGetTheirAnswers'
    BY <2>1 DEF CallsGetTheirAnswers, Truth, Parse
  <2>4. QED
    BY <1>0, <2>1, <2>2, <2>3 DEF AnswerInv
<1>10. QED
  BY <1>1, <1>2, <1>3, <1>4, <1>5, <1>6, <1>7, <1>8, <1>9 DEF SessionNext, Receiving, PicoStep

\* A call is given the answer to its own request, or an error, as long as no
\* receive went wrong and the Pico sends nothing unasked.
THEOREM SessionAnswers == SessionSpec => []CallsGetTheirAnswers
<1>1. SessionInit => SeqInv /\ AnswerInv
  <2>1. SessionInit => SeqInv
    BY EmptyIsSeq DEF SessionInit, ClientInit, SeqInv
  <2>2. SessionInit => AnswerInv
    BY DEF SessionInit, ClientInit, AnswerInv, CallsGetTheirAnswers, Requests
  <2>3. QED
    BY <2>1, <2>2
<1>2. AnswerInv => CallsGetTheirAnswers
  BY DEF AnswerInv, CallsGetTheirAnswers, InStep
<1>3. QED
  BY <1>1, <1>2, SeqsKept, AnswersKept, PTL DEF SessionSpec
=============================================================================
