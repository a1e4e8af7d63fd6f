--------------------------- MODULE BrokerPipeProofs ---------------------------
(***************************************************************************)
(* Proofs about the pipe: any clients, any number of calls and starts.     *)
(***************************************************************************)
EXTENDS BrokerPipe, TLAPS

Linked(c) == cpc[c] \in {"send", "receive", "ack", "close"}
Transferring == {"process", "write", "ack", "acking"}
Answering == {"ack", "acking", "disconnect"}

\* The event lives while Run does, and a control is over once it is set.
EventInv ==
  /\ pc \in {"off", "report"} <=> stopEvent = "closed"
  /\ stopEvent = "set" => handler \notin {"report", "signal"} /\ status = "pending"
  /\ handler = "signal" /\ stopEvent # "closed" => status = "pending"
  /\ ~ early => /\ handler \in {"report", "signal"} => pc \notin {"return", "report", "off"}
                /\ pc \in {"return", "report"} => status = "pending"

\* The instance and the thread that serves it, and who holds the other end.
PipeInv ==
  /\ pipe = "none" <=> pc \in {"off", "run", "return", "report"}
  /\ pipe \in {"listening", "disconnected"} => pc \in {"loop", "connect", "accept"}
  /\ pipe \notin {"connected", "closing"} => end = None /\ inbox = None /\ outbox = None
  /\ \A c \in Clients : end = c => (pipe = "connected" <=> Linked(c))

\* A request on its way from the client that holds the other end.  Only a
\* client that went on waiting for it takes it for its present call.
InFlight(call) ==
  /\ call \in Call /\ end = call[1] /\ call[2] <= calls[call[1]]
  /\ cpc[call[1]] \in {"wait", "create"} => call[2] < calls[call[1]]
  /\ Linked(call[1]) => cpc[call[1]] = "receive" /\ call[2] = calls[call[1]]

Unhandled(call) == \A m \in Nat : m >= call[2] => <<call[1], m>> \notin handled

Genuine(answer) == answer \in Response /\ (answer.ok => answer.call \in accepted)

\* There is one request at a time, and it is in one place.
FlightInv ==
  /\ inbox \in Call =>
       InFlight(inbox) /\ Unhandled(inbox) /\ pc \notin Transferring
  /\ pc = "process" => InFlight(current) /\ Unhandled(current) /\ inbox = None
  /\ pc = "write" =>
       InFlight(reply.call) /\ Genuine(reply) /\ inbox = None
  /\ outbox # None =>
       InFlight(outbox.call) /\ Genuine(outbox) /\ inbox = None /\ pc \in Answering
  /\ outbox # None /\ pc = "disconnect" => cut \/ pipe = "closing"
  /\ inbox = Ack => pc \in Answering
  /\ \A c \in Clients : end = c =>
       /\ cpc[c] = "send" => inbox = None /\ pc \notin Transferring
       /\ cpc[c] \in {"ack", "close"} => pc \in Answering

\* What a client knows of its call.
ClientInv ==
  \A c \in Clients :
    /\ outcome[c] = "pending" <=> cpc[c] # "idle"
    /\ cpc[c] # "idle" => calls[c] >= 1
    /\ cpc[c] \in {"wait", "create", "send"} => <<c, calls[c]>> \notin handled
    /\ cpc[c] \in {"ack", "close"} => Genuine(got[c]) /\ got[c].call = <<c, calls[c]>>
    /\ \A n \in Nat : <<c, n>> \in handled => n <= calls[c]

IInv == TypeOK /\ EventInv /\ PipeInv /\ FlightInv /\ ClientInv

\* Calls, answers and the one-byte message are told apart.
LEMMA Distinct ==
  /\ Ack \notin Call /\ None \notin Call /\ Ack # None /\ None \notin Response
  /\ \A p \in Call : p[1] \in Clients /\ p[2] \in Nat /\ p = <<p[1], p[2]>>
  /\ \A c \in Clients, n \in Nat : <<c, n>> \in Call <=> n \in 1 .. MaxCalls[c]
  /\ \A a \in Response : a.call \in Call /\ a.ok \in BOOLEAN
  /\ \A p \in Call, ok \in BOOLEAN : [call |-> p, ok |-> ok] \in Response
<1>1. \A p \in Call : p \in Clients \X Nat
  BY DEF Call
<1>2. \A c \in Clients, n \in Nat : <<c, n>> \in Call <=> n \in 1 .. MaxCalls[c]
  BY DEF Call
<1>3. Response \subseteq [call : Clients \X Nat, ok : BOOLEAN]
  BY <1>1 DEF Response
<1>4. QED
  BY <1>1, <1>2, <1>3, BrokerPipeAssumption DEF Response

LEMMA InitInv == Init => IInv
<1> SUFFICES ASSUME Init PROVE IInv
  OBVIOUS
<1>1. TypeOK
  <2>1. /\ cpc \in [Clients -> {"idle", "wait", "create", "send", "receive", "ack", "close"}]
        /\ calls \in [Clients -> Nat] /\ \A c \in Clients : calls[c] <= MaxCalls[c]
        /\ got \in [Clients -> {None} \cup Response]
        /\ outcome \in [Clients -> {"none", "pending", "ok", "failed"}]
    BY BrokerPipeAssumption DEF Init
  <2>2. starts \in 0 .. MaxStarts /\ accepted \subseteq handled /\ handled \subseteq Call
    BY BrokerPipeAssumption DEF Init
  <2>3. QED  BY <2>1, <2>2 DEF Init, TypeOK
<1>2. EventInv /\ PipeInv
  BY BrokerPipeAssumption DEF Init, EventInv, PipeInv
<1>3. FlightInv
  BY Distinct, BrokerPipeAssumption DEF Init, FlightInv
<1>4. ClientInv
  BY DEF Init, ClientInv
<1>5. QED  BY <1>1, <1>2, <1>3, <1>4 DEF IInv

\* Types.
LEMMA TypeStep ==
  ASSUME IInv, [Next]_vars
  PROVE  TypeOK'
<1>1. CASE CreatePipe
  <2>1. early' \in BOOLEAN
    BY <1>1 DEF IInv, TypeOK, CreatePipe
  <2>2. /\ pc' \in {"return", "loop"} /\ pipe' \in {pipe, "listening"}
        /\ UNCHANGED <<current, reply, cut, end, inbox, outbox, control, clients, accepted,
                       handled>>
    BY <1>1 DEF CreatePipe
  <2>3. QED  BY <2>1, <2>2 DEF IInv, TypeOK, control, clients
<1>2. CASE Loop
  BY <1>2
     DEF IInv, TypeOK, Loop, instance, control, clients, history
<1>3. CASE Connect
  BY <1>3
     DEF IInv, TypeOK, Connect, control, clients, history
<1>4. CASE Accept
  BY <1>4
     DEF IInv, TypeOK, Accept, instance, control, clients, history, Stopping
<1>5. CASE ReadRequest
  <2>1. /\ pc' \in {"reading", "process", "disconnect"} /\ cut' \in BOOLEAN
        /\ current' \in {None, Ack} \cup Call /\ inbox' \in {None, Ack} \cup Call
        /\ pc' = "process" => current' \in Call
    BY <1>5, Distinct DEF IInv, TypeOK, FlightInv, Answering, ReadRequest, ReadFile
  <2>2. UNCHANGED <<reply, control, pipe, end, outbox, clients, history>>
    BY <1>5 DEF ReadRequest, ReadFile
  <2>3. QED  BY <2>1, <2>2 DEF IInv, TypeOK, control, clients, history
<1>6. CASE AwaitRequest
  <2>1. /\ pc' \in {"reading", "process", "disconnect"} /\ cut' \in BOOLEAN
        /\ current' \in {None, Ack} \cup Call /\ inbox' \in {None, Ack} \cup Call
        /\ pc' = "process" => current' \in Call
    BY <1>6, Distinct DEF IInv, TypeOK, FlightInv, Answering, AwaitRequest, AwaitRead
  <2>2. UNCHANGED <<reply, control, pipe, end, outbox, clients, history>>
    BY <1>6 DEF AwaitRequest, AwaitRead
  <2>3. QED  BY <2>1, <2>2 DEF IInv, TypeOK, control, clients, history
<1>7. CASE ProcessRequest
  BY <1>7, Distinct
     DEF IInv, TypeOK, ProcessRequest, instance, control, clients
<1>8. CASE WriteResponse
  <2>1. pc' \in {"ack", "disconnect"} /\ cut' \in BOOLEAN /\ outbox' \in {None} \cup Response
    BY <1>8 DEF IInv, TypeOK, WriteResponse
  <2>2. UNCHANGED <<current, reply, pipe, end, inbox, control, clients, history>>
    BY <1>8 DEF WriteResponse
  <2>3. QED  BY <2>1, <2>2 DEF IInv, TypeOK, control, clients, history
<1>9. CASE ReadAck
  <2>1. /\ pc' \in {"acking", "disconnect"} /\ cut' \in BOOLEAN
        /\ current' \in {None, Ack} \cup Call /\ inbox' \in {None, Ack} \cup Call
    BY <1>9 DEF IInv, TypeOK, ReadAck, ReadFile
  <2>2. UNCHANGED <<reply, control, pipe, end, outbox, clients, history>>
    BY <1>9 DEF ReadAck, ReadFile
  <2>3. QED  BY <2>1, <2>2 DEF IInv, TypeOK, control, clients, history
<1>10. CASE AwaitAck
  <2>1. /\ pc' \in {"acking", "disconnect"} /\ cut' \in BOOLEAN
        /\ current' \in {None, Ack} \cup Call /\ inbox' \in {None, Ack} \cup Call
    BY <1>10 DEF IInv, TypeOK, AwaitAck, AwaitRead
  <2>2. UNCHANGED <<reply, control, pipe, end, outbox, clients, history>>
    BY <1>10 DEF AwaitAck, AwaitRead
  <2>3. QED  BY <2>1, <2>2 DEF IInv, TypeOK, control, clients, history
<1>11. CASE Disconnect
  BY <1>11
     DEF IInv, TypeOK, Disconnect, control, clients, history, Discard
<1>12. CASE Return
  BY <1>12
     DEF IInv, TypeOK, Return, instance, clients, history
<1>13. CASE ReportStopped
  BY <1>13
     DEF IInv, TypeOK, ReportStopped, instance, clients, history
<1>14. CASE ReportAndSignal
  BY <1>14
     DEF IInv, TypeOK, ReportAndSignal, instance, service, clients, history
<1>15. CASE WakeUp
  BY <1>15
     DEF IInv, TypeOK, WakeUp, service, clients, history
<1>16. CASE CloseWake
  BY <1>16
     DEF IInv, TypeOK, CloseWake, service, clients, history, CloseEnd
<1>17. CASE Start
  <2>1. early' \in BOOLEAN
    BY <1>17 DEF Start
  <2>2. starts' \in 0 .. MaxStarts
    BY <1>17, BrokerPipeAssumption DEF IInv, TypeOK, Start
  <2>3. /\ pc' = "run" /\ status' = "running" /\ stopEvent' = "clear"
        /\ UNCHANGED <<current, reply, cut, handler, instance, clients, accepted, handled>>
    BY <1>17 DEF Start
  <2>4. QED  BY <2>1, <2>2, <2>3 DEF IInv, TypeOK, instance, clients
<1>18. CASE Control
  BY <1>18
     DEF IInv, TypeOK, Control, instance, service, clients, history
<1>19. CASE Exit
  BY <1>19
     DEF IInv, TypeOK, Exit, instance, service, clients, history
<1>20. CASE Crash
  BY <1>20
     DEF IInv, TypeOK, Crash, history, Advance
<1>21. ASSUME NEW c \in Clients, Begin(c)  PROVE TypeOK'
  <2>1. calls' \in [Clients -> Nat] /\ \A d \in Clients : calls'[d] <= MaxCalls[d]
    <3>1. /\ calls \in [Clients -> Nat] /\ MaxCalls[c] \in Nat
          /\ calls' = [calls EXCEPT ![c] = calls[c] + 1] /\ calls[c] < MaxCalls[c]
          /\ \A d \in Clients : calls[d] <= MaxCalls[d]
      BY <1>21, BrokerPipeAssumption DEF IInv, TypeOK, Begin
    <3>2. \A d \in Clients : calls'[d] = IF d = c THEN calls[c] + 1 ELSE calls[d]
      BY <3>1
    <3>3. QED  BY <3>1, <3>2
  <2>2. /\ cpc' \in [Clients -> {"idle", "wait", "create", "send", "receive", "ack", "close"}]
        /\ outcome' \in [Clients -> {"none", "pending", "ok", "failed"}]
    BY <1>21 DEF IInv, TypeOK, Begin
  <2>3. UNCHANGED <<got, instance, service, control, history>>
    BY <1>21 DEF Begin, Outside
  <2>4. QED  BY <2>1, <2>2, <2>3 DEF IInv, TypeOK, instance, service, control, history
<1>22. ASSUME NEW c \in Clients, WaitNamedPipe(c)  PROVE TypeOK'
  BY <1>22
     DEF IInv, TypeOK, WaitNamedPipe, instance, Outside, Advance, service, control,
         history
<1>23. ASSUME NEW c \in Clients, CreateFile(c)  PROVE TypeOK'
  BY <1>23
     DEF IInv, TypeOK, CreateFile, Outside, Advance, service, control, history
<1>24. ASSUME NEW c \in Clients, SendRequest(c)  PROVE TypeOK'
  BY <1>24, Distinct
     DEF IInv, TypeOK, ClientInv, SendRequest, Outside, Advance, service, control,
         history
<1>25. ASSUME NEW c \in Clients, Receive(c)  PROVE TypeOK'
  BY <1>25
     DEF IInv, TypeOK, Receive, Outside, Advance, service, control, history
<1>26. ASSUME NEW c \in Clients, Acknowledge(c)  PROVE TypeOK'
  BY <1>26
     DEF IInv, TypeOK, Acknowledge, Outside, Advance, service, control, history
<1>27. ASSUME NEW c \in Clients, CloseAndParse(c)  PROVE TypeOK'
  BY <1>27
     DEF IInv, TypeOK, CloseAndParse, CloseEnd, Outside, Finish, Verdict, service,
         control, history
<1>28. ASSUME NEW c \in Clients, GiveUp(c)  PROVE TypeOK'
  BY <1>28
     DEF IInv, TypeOK, GiveUp, CloseEnd, Outside, Finish, service, control, history
<1>29. CASE UNCHANGED vars
  BY <1>29
     DEF IInv, TypeOK, vars, instance, service, control, clients, history
<1>30. QED
  BY <1>1, <1>2, <1>3, <1>4, <1>5, <1>6, <1>7, <1>8, <1>9, <1>10, <1>11, <1>12, <1>13,
     <1>14, <1>15, <1>16, <1>17, <1>18, <1>19, <1>20, <1>21, <1>22, <1>23, <1>24, <1>25,
     <1>26, <1>27, <1>28, <1>29
     DEF Next, Serve, HandleControl, Client

\* The event.
LEMMA EventStep ==
  ASSUME IInv, [Next]_vars
  PROVE  EventInv'
<1>1. CASE CreatePipe
  BY <1>1
     DEF IInv, TypeOK, EventInv, CreatePipe, control, clients, history
<1>2. CASE Loop
  BY <1>2
     DEF IInv, TypeOK, EventInv, Loop, instance, control, clients, history
<1>3. CASE Connect
  BY <1>3
     DEF IInv, TypeOK, EventInv, Connect, control, clients, history
<1>4. CASE Accept
  BY <1>4
     DEF IInv, TypeOK, EventInv, Accept, instance, control, clients, history, Stopping
<1>5. CASE ReadRequest
  BY <1>5
     DEF IInv, TypeOK, EventInv, ReadRequest, ReadFile, control, clients, history
<1>6. CASE AwaitRequest
  BY <1>6
     DEF IInv, TypeOK, EventInv, AwaitRequest, AwaitRead, control, clients, history,
         Stopping
<1>7. CASE ProcessRequest
  BY <1>7
     DEF IInv, TypeOK, EventInv, ProcessRequest, instance, control, clients
<1>8. CASE WriteResponse
  BY <1>8
     DEF IInv, TypeOK, EventInv, WriteResponse, control, clients, history
<1>9. CASE ReadAck
  BY <1>9
     DEF IInv, TypeOK, EventInv, ReadAck, ReadFile, control, clients, history
<1>10. CASE AwaitAck
  BY <1>10
     DEF IInv, TypeOK, EventInv, AwaitAck, AwaitRead, control, clients, history,
         Stopping
<1>11. CASE Disconnect
  BY <1>11
     DEF IInv, TypeOK, EventInv, Disconnect, control, clients, history, Discard
<1>12. CASE Return
  BY <1>12
     DEF IInv, TypeOK, EventInv, Return, instance, clients, history
<1>13. CASE ReportStopped
  BY <1>13
     DEF IInv, TypeOK, EventInv, ReportStopped, instance, clients, history
<1>14. CASE ReportAndSignal
  BY <1>14
     DEF IInv, TypeOK, EventInv, ReportAndSignal, instance, service, clients, history
<1>15. CASE WakeUp
  BY <1>15
     DEF IInv, TypeOK, EventInv, WakeUp, service, clients, history
<1>16. CASE CloseWake
  BY <1>16
     DEF IInv, TypeOK, EventInv, CloseWake, service, clients, history, CloseEnd
<1>17. CASE Start
  BY <1>17
     DEF IInv, TypeOK, EventInv, Start, instance, clients, history
<1>18. CASE Control
  BY <1>18
     DEF IInv, TypeOK, EventInv, Control, instance, service, clients, history
<1>19. CASE Exit
  BY <1>19
     DEF IInv, TypeOK, EventInv, Exit, instance, service, clients, history
<1>20. CASE Crash
  BY <1>20
     DEF IInv, TypeOK, EventInv, Crash, history, Advance
<1>21. ASSUME NEW c \in Clients, Begin(c)  PROVE EventInv'
  BY <1>21
     DEF IInv, TypeOK, EventInv, Begin, instance, Outside, service, control, history
<1>22. ASSUME NEW c \in Clients, WaitNamedPipe(c)  PROVE EventInv'
  BY <1>22
     DEF IInv, TypeOK, EventInv, WaitNamedPipe, instance, Outside, Advance, service,
         control, history
<1>23. ASSUME NEW c \in Clients, CreateFile(c)  PROVE EventInv'
  BY <1>23
     DEF IInv, TypeOK, EventInv, CreateFile, Outside, Advance, service, control, history
<1>24. ASSUME NEW c \in Clients, SendRequest(c)  PROVE EventInv'
  BY <1>24
     DEF IInv, TypeOK, EventInv, SendRequest, Outside, Advance, service, control,
         history
<1>25. ASSUME NEW c \in Clients, Receive(c)  PROVE EventInv'
  BY <1>25
     DEF IInv, TypeOK, EventInv, Receive, Outside, Advance, service, control, history
<1>26. ASSUME NEW c \in Clients, Acknowledge(c)  PROVE EventInv'
  BY <1>26
     DEF IInv, TypeOK, EventInv, Acknowledge, Outside, Advance, service, control,
         history
<1>27. ASSUME NEW c \in Clients, CloseAndParse(c)  PROVE EventInv'
  BY <1>27
     DEF IInv, TypeOK, EventInv, CloseAndParse, CloseEnd, Outside, Finish, Verdict,
         service, control, history
<1>28. ASSUME NEW c \in Clients, GiveUp(c)  PROVE EventInv'
  BY <1>28
     DEF IInv, TypeOK, EventInv, GiveUp, CloseEnd, Outside, Finish, service, control,
         history
<1>29. CASE UNCHANGED vars
  BY <1>29
     DEF IInv, TypeOK, EventInv, vars, instance, service, control, clients, history
<1>30. QED
  BY <1>1, <1>2, <1>3, <1>4, <1>5, <1>6, <1>7, <1>8, <1>9, <1>10, <1>11, <1>12, <1>13,
     <1>14, <1>15, <1>16, <1>17, <1>18, <1>19, <1>20, <1>21, <1>22, <1>23, <1>24, <1>25,
     <1>26, <1>27, <1>28, <1>29
     DEF Next, Serve, HandleControl, Client

\* The instance.
LEMMA PipeStep ==
  ASSUME IInv, [Next]_vars
  PROVE  PipeInv'
<1>1. CASE CreatePipe
  BY <1>1, BrokerPipeAssumption
     DEF IInv, TypeOK, PipeInv, Linked, CreatePipe, control, clients, history
<1>2. CASE Loop
  BY <1>2, BrokerPipeAssumption
     DEF IInv, TypeOK, PipeInv, Linked, Loop, instance, control, clients, history
<1>3. CASE Connect
  BY <1>3, BrokerPipeAssumption
     DEF IInv, TypeOK, PipeInv, Linked, Connect, control, clients, history
<1>4. CASE Accept
  BY <1>4, BrokerPipeAssumption
     DEF IInv, TypeOK, PipeInv, Linked, Accept, instance, control, clients, history,
         Stopping
<1>5. CASE ReadRequest
  BY <1>5, BrokerPipeAssumption
     DEF IInv, TypeOK, PipeInv, Linked, ReadRequest, ReadFile, control, clients, history
<1>6. CASE AwaitRequest
  BY <1>6, BrokerPipeAssumption
     DEF IInv, TypeOK, PipeInv, Linked, AwaitRequest, AwaitRead, control, clients,
         history, Stopping
<1>7. CASE ProcessRequest
  BY <1>7, BrokerPipeAssumption
     DEF IInv, TypeOK, PipeInv, Linked, ProcessRequest, instance, control, clients
<1>8. CASE WriteResponse
  BY <1>8, BrokerPipeAssumption
     DEF IInv, TypeOK, PipeInv, Linked, WriteResponse, control, clients, history
<1>9. CASE ReadAck
  BY <1>9, BrokerPipeAssumption
     DEF IInv, TypeOK, PipeInv, Linked, ReadAck, ReadFile, control, clients, history
<1>10. CASE AwaitAck
  BY <1>10, BrokerPipeAssumption
     DEF IInv, TypeOK, PipeInv, Linked, AwaitAck, AwaitRead, control, clients, history,
         Stopping
<1>11. CASE Disconnect
  BY <1>11, BrokerPipeAssumption
     DEF IInv, TypeOK, PipeInv, Linked, Disconnect, control, clients, history, Discard
<1>12. CASE Return
  BY <1>12, BrokerPipeAssumption
     DEF IInv, TypeOK, PipeInv, Linked, Return, instance, clients, history
<1>13. CASE ReportStopped
  BY <1>13, BrokerPipeAssumption
     DEF IInv, TypeOK, PipeInv, Linked, ReportStopped, instance, clients, history
<1>14. CASE ReportAndSignal
  BY <1>14, BrokerPipeAssumption
     DEF IInv, TypeOK, PipeInv, Linked, ReportAndSignal, instance, service, clients,
         history
<1>15. CASE WakeUp
  BY <1>15, BrokerPipeAssumption
     DEF IInv, TypeOK, PipeInv, Linked, WakeUp, service, clients, history
<1>16. CASE CloseWake
  BY <1>16, BrokerPipeAssumption
     DEF IInv, TypeOK, PipeInv, Linked, CloseWake, service, clients, history, CloseEnd
<1>17. CASE Start
  BY <1>17, BrokerPipeAssumption
     DEF IInv, TypeOK, PipeInv, Linked, Start, instance, clients, history
<1>18. CASE Control
  BY <1>18, BrokerPipeAssumption
     DEF IInv, TypeOK, PipeInv, Linked, Control, instance, service, clients, history
<1>19. CASE Exit
  BY <1>19, BrokerPipeAssumption
     DEF IInv, TypeOK, PipeInv, Linked, Exit, instance, service, clients, history
<1>20. CASE Crash
  BY <1>20, BrokerPipeAssumption
     DEF IInv, TypeOK, PipeInv, Linked, Crash, history, Advance
<1>21. ASSUME NEW c \in Clients, Begin(c)  PROVE PipeInv'
  BY <1>21, BrokerPipeAssumption
     DEF IInv, TypeOK, PipeInv, Linked, Begin, instance, Outside, service, control,
         history
<1>22. ASSUME NEW c \in Clients, WaitNamedPipe(c)  PROVE PipeInv'
  BY <1>22, BrokerPipeAssumption
     DEF IInv, TypeOK, PipeInv, Linked, WaitNamedPipe, instance, Outside, Advance,
         service, control, history
<1>23. ASSUME NEW c \in Clients, CreateFile(c)  PROVE PipeInv'
  BY <1>23, BrokerPipeAssumption
     DEF IInv, TypeOK, PipeInv, Linked, CreateFile, Outside, Advance, service, control,
         history
<1>24. ASSUME NEW c \in Clients, SendRequest(c)  PROVE PipeInv'
  BY <1>24, BrokerPipeAssumption
     DEF IInv, TypeOK, PipeInv, Linked, SendRequest, Outside, Advance, service, control,
         history
<1>25. ASSUME NEW c \in Clients, Receive(c)  PROVE PipeInv'
  BY <1>25, BrokerPipeAssumption
     DEF IInv, TypeOK, PipeInv, Linked, Receive, Outside, Advance, service, control,
         history
<1>26. ASSUME NEW c \in Clients, Acknowledge(c)  PROVE PipeInv'
  BY <1>26, BrokerPipeAssumption
     DEF IInv, TypeOK, PipeInv, Linked, Acknowledge, Outside, Advance, service, control,
         history
<1>27. ASSUME NEW c \in Clients, CloseAndParse(c)  PROVE PipeInv'
  BY <1>27, BrokerPipeAssumption
     DEF IInv, TypeOK, PipeInv, Linked, CloseAndParse, CloseEnd, Outside, Finish,
         Verdict, service, control, history
<1>28. ASSUME NEW c \in Clients, GiveUp(c)  PROVE PipeInv'
  BY <1>28, BrokerPipeAssumption
     DEF IInv, TypeOK, PipeInv, Linked, GiveUp, CloseEnd, Outside, Finish, service,
         control, history
<1>29. CASE UNCHANGED vars
  BY <1>29
     DEF IInv, TypeOK, PipeInv, Linked, vars, instance, service, control, clients,
         history
<1>30. QED
  BY <1>1, <1>2, <1>3, <1>4, <1>5, <1>6, <1>7, <1>8, <1>9, <1>10, <1>11, <1>12, <1>13,
     <1>14, <1>15, <1>16, <1>17, <1>18, <1>19, <1>20, <1>21, <1>22, <1>23, <1>24, <1>25,
     <1>26, <1>27, <1>28, <1>29
     DEF Next, Serve, HandleControl, Client

\* The request and its answer.
LEMMA FlightStep ==
  ASSUME IInv, [Next]_vars
  PROVE  FlightInv'
<1>1. CASE CreatePipe
  BY <1>1, Distinct, BrokerPipeAssumption
     DEF IInv, TypeOK, PipeInv, FlightInv, InFlight, Unhandled, Genuine, Transferring,
         Answering, Linked, CreatePipe, control, clients, history
<1>2. CASE Loop
  BY <1>2, Distinct, BrokerPipeAssumption
     DEF IInv, TypeOK, PipeInv, FlightInv, InFlight, Unhandled, Genuine, Transferring,
         Answering, Linked, Loop, instance, control, clients, history
<1>3. CASE Connect
  BY <1>3, Distinct, BrokerPipeAssumption
     DEF IInv, TypeOK, PipeInv, FlightInv, InFlight, Unhandled, Genuine, Transferring,
         Answering, Linked, Connect, control, clients, history
<1>4. CASE Accept
  BY <1>4, Distinct, BrokerPipeAssumption
     DEF IInv, TypeOK, PipeInv, FlightInv, InFlight, Unhandled, Genuine, Transferring,
         Answering, Linked, Accept, instance, control, clients, history, Stopping
<1>5. CASE ReadRequest
  BY <1>5, Distinct, BrokerPipeAssumption
     DEF IInv, TypeOK, PipeInv, FlightInv, InFlight, Unhandled, Genuine, Transferring,
         Answering, Linked, ReadRequest, ReadFile, control, clients, history
<1>6. CASE AwaitRequest
  BY <1>6, Distinct, BrokerPipeAssumption
     DEF IInv, TypeOK, PipeInv, FlightInv, InFlight, Unhandled, Genuine, Transferring,
         Answering, Linked, AwaitRequest, AwaitRead, control, clients, history, Stopping
<1>7. CASE ProcessRequest
  BY <1>7, Distinct, BrokerPipeAssumption
     DEF IInv, TypeOK, PipeInv, FlightInv, InFlight, Unhandled, Genuine, Transferring,
         Answering, Linked, ProcessRequest, instance, control, clients
<1>8. CASE WriteResponse
  BY <1>8, Distinct, BrokerPipeAssumption
     DEF IInv, TypeOK, PipeInv, FlightInv, InFlight, Unhandled, Genuine, Transferring,
         Answering, Linked, WriteResponse, control, clients, history
<1>9. CASE ReadAck
  BY <1>9, Distinct, BrokerPipeAssumption
     DEF IInv, TypeOK, PipeInv, FlightInv, InFlight, Unhandled, Genuine, Transferring,
         Answering, Linked, ReadAck, ReadFile, control, clients, history
<1>10. CASE AwaitAck
  BY <1>10, Distinct, BrokerPipeAssumption
     DEF IInv, TypeOK, PipeInv, FlightInv, InFlight, Unhandled, Genuine, Transferring,
         Answering, Linked, AwaitAck, AwaitRead, control, clients, history, Stopping
<1>11. CASE Disconnect
  BY <1>11, Distinct, BrokerPipeAssumption
     DEF IInv, TypeOK, PipeInv, FlightInv, InFlight, Unhandled, Genuine, Transferring,
         Answering, Linked, Disconnect, control, clients, history, Discard
<1>12. CASE Return
  BY <1>12, Distinct, BrokerPipeAssumption
     DEF IInv, TypeOK, PipeInv, FlightInv, InFlight, Unhandled, Genuine, Transferring,
         Answering, Linked, Return, instance, clients, history
<1>13. CASE ReportStopped
  BY <1>13, Distinct, BrokerPipeAssumption
     DEF IInv, TypeOK, PipeInv, FlightInv, InFlight, Unhandled, Genuine, Transferring,
         Answering, Linked, ReportStopped, instance, clients, history
<1>14. CASE ReportAndSignal
  BY <1>14, Distinct, BrokerPipeAssumption
     DEF IInv, TypeOK, PipeInv, FlightInv, InFlight, Unhandled, Genuine, Transferring,
         Answering, Linked, ReportAndSignal, instance, service, clients, history
<1>15. CASE WakeUp
  BY <1>15, Distinct, BrokerPipeAssumption
     DEF IInv, TypeOK, PipeInv, FlightInv, InFlight, Unhandled, Genuine, Transferring,
         Answering, Linked, WakeUp, service, clients, history
<1>16. CASE CloseWake
  BY <1>16, Distinct, BrokerPipeAssumption
     DEF IInv, TypeOK, PipeInv, FlightInv, InFlight, Unhandled, Genuine, Transferring,
         Answering, Linked, CloseWake, service, clients, history, CloseEnd
<1>17. CASE Start
  BY <1>17, Distinct, BrokerPipeAssumption
     DEF IInv, TypeOK, PipeInv, FlightInv, InFlight, Unhandled, Genuine, Transferring,
         Answering, Linked, Start, instance, clients, history
<1>18. CASE Control
  BY <1>18, Distinct, BrokerPipeAssumption
     DEF IInv, TypeOK, PipeInv, FlightInv, InFlight, Unhandled, Genuine, Transferring,
         Answering, Linked, Control, instance, service, clients, history
<1>19. CASE Exit
  BY <1>19, Distinct, BrokerPipeAssumption
     DEF IInv, TypeOK, PipeInv, FlightInv, InFlight, Unhandled, Genuine, Transferring,
         Answering, Linked, Exit, instance, service, clients, history
<1>20. CASE Crash
  BY <1>20, Distinct, BrokerPipeAssumption
     DEF IInv, TypeOK, PipeInv, FlightInv, InFlight, Unhandled, Genuine, Transferring,
         Answering, Linked, Crash, history, Advance
<1>21. ASSUME NEW c \in Clients, Begin(c)  PROVE FlightInv'
  BY <1>21, Distinct, BrokerPipeAssumption
     DEF IInv, TypeOK, PipeInv, FlightInv, InFlight, Unhandled, Genuine, Transferring,
         Answering, Linked, Begin, instance, Outside, service, control, history
<1>22. ASSUME NEW c \in Clients, WaitNamedPipe(c)  PROVE FlightInv'
  BY <1>22, Distinct, BrokerPipeAssumption
     DEF IInv, TypeOK, PipeInv, FlightInv, InFlight, Unhandled, Genuine, Transferring,
         Answering, Linked, WaitNamedPipe, instance, Outside, Advance, service, control,
         history
<1>23. ASSUME NEW c \in Clients, CreateFile(c)  PROVE FlightInv'
  BY <1>23, Distinct, BrokerPipeAssumption
     DEF IInv, TypeOK, PipeInv, FlightInv, InFlight, Unhandled, Genuine, Transferring,
         Answering, Linked, CreateFile, Outside, Advance, service, control, history
<1>24. ASSUME NEW c \in Clients, SendRequest(c)  PROVE FlightInv'
  <2>1. <<c, calls[c]>> \in Call /\ \A m \in Nat : m >= calls[c] => <<c, m>> \notin handled
    <3>1. /\ calls[c] \in Nat /\ calls[c] <= MaxCalls[c] /\ MaxCalls[c] \in Nat
          /\ calls[c] >= 1 /\ <<c, calls[c]>> \notin handled
      BY <1>24, BrokerPipeAssumption DEF IInv, TypeOK, ClientInv, SendRequest, Advance
    <3>2. \A n \in Nat : <<c, n>> \in handled => n <= calls[c]
      BY <1>24 DEF IInv, ClientInv
    <3>3. <<c, calls[c]>> \in Call
      BY <3>1, Distinct
    <3>4. ASSUME NEW m \in Nat, m >= calls[c] PROVE <<c, m>> \notin handled
      BY <3>1, <3>2, <3>4
    <3>5. QED  BY <3>3, <3>4
  <2>2. outbox = None /\ pc \notin Transferring
    BY <1>24 DEF IInv, FlightInv, InFlight, Linked, SendRequest, Advance
  <2>3. InFlight(<<c, calls[c]>>)' /\ Unhandled(<<c, calls[c]>>)'
    BY <1>24, <2>1 DEF IInv, TypeOK, InFlight, Unhandled, Linked, SendRequest, Advance,
                   Outside, history
  <2>4. inbox' = <<c, calls[c]>>' /\ inbox' # Ack
    BY <1>24, <2>1, Distinct DEF SendRequest
  <2>5. UNCHANGED <<pipe, end, outbox, pc, current, reply, cut, accepted, handled>>
    BY <1>24 DEF SendRequest, Outside, service, history
  <2>6. \A d \in Clients : end' = d => cpc'[d] = "receive"
    BY <1>24 DEF IInv, TypeOK, SendRequest, Advance
  <2>7. pc # "process" /\ pc # "write"
    BY <2>2 DEF Transferring
  <2>8. QED  BY <2>1, <2>2, <2>3, <2>4, <2>5, <2>6, <2>7 DEF FlightInv
<1>25. ASSUME NEW c \in Clients, Receive(c)  PROVE FlightInv'
  BY <1>25, Distinct, BrokerPipeAssumption
     DEF IInv, TypeOK, PipeInv, FlightInv, InFlight, Unhandled, Genuine, Transferring,
         Answering, Linked, Receive, Outside, Advance, service, control, history
<1>26. ASSUME NEW c \in Clients, Acknowledge(c)  PROVE FlightInv'
  BY <1>26, Distinct, BrokerPipeAssumption
     DEF IInv, TypeOK, PipeInv, FlightInv, InFlight, Unhandled, Genuine, Transferring,
         Answering, Linked, Acknowledge, Outside, Advance, service, control, history
<1>27. ASSUME NEW c \in Clients, CloseAndParse(c)  PROVE FlightInv'
  BY <1>27, Distinct, BrokerPipeAssumption
     DEF IInv, TypeOK, PipeInv, FlightInv, InFlight, Unhandled, Genuine, Transferring,
         Answering, Linked, CloseAndParse, CloseEnd, Outside, Finish, Verdict, service,
         control, history
<1>28. ASSUME NEW c \in Clients, GiveUp(c)  PROVE FlightInv'
  BY <1>28, Distinct, BrokerPipeAssumption
     DEF IInv, TypeOK, PipeInv, FlightInv, InFlight, Unhandled, Genuine, Transferring,
         Answering, Linked, GiveUp, CloseEnd, Outside, Finish, service, control, history
<1>29. CASE UNCHANGED vars
  BY <1>29
     DEF IInv, TypeOK, PipeInv, FlightInv, InFlight, Unhandled, Genuine, Transferring,
         Answering, Linked, vars, instance, service, control, clients, history
<1>30. QED
  BY <1>1, <1>2, <1>3, <1>4, <1>5, <1>6, <1>7, <1>8, <1>9, <1>10, <1>11, <1>12, <1>13,
     <1>14, <1>15, <1>16, <1>17, <1>18, <1>19, <1>20, <1>21, <1>22, <1>23, <1>24, <1>25,
     <1>26, <1>27, <1>28, <1>29
     DEF Next, Serve, HandleControl, Client

\* What the clients know.
LEMMA ClientStep ==
  ASSUME IInv, [Next]_vars
  PROVE  ClientInv'
<1>1. CASE CreatePipe
  BY <1>1, Distinct, BrokerPipeAssumption
     DEF IInv, TypeOK, ClientInv, FlightInv, InFlight, Genuine, Answering, Linked,
         CreatePipe, control, clients, history
<1>2. CASE Loop
  BY <1>2, Distinct, BrokerPipeAssumption
     DEF IInv, TypeOK, ClientInv, FlightInv, InFlight, Genuine, Answering, Linked, Loop,
         instance, control, clients, history
<1>3. CASE Connect
  BY <1>3, Distinct, BrokerPipeAssumption
     DEF IInv, TypeOK, ClientInv, FlightInv, InFlight, Genuine, Answering, Linked,
         Connect, control, clients, history
<1>4. CASE Accept
  BY <1>4, Distinct, BrokerPipeAssumption
     DEF IInv, TypeOK, ClientInv, FlightInv, InFlight, Genuine, Answering, Linked,
         Accept, instance, control, clients, history, Stopping
<1>5. CASE ReadRequest
  BY <1>5, Distinct, BrokerPipeAssumption
     DEF IInv, TypeOK, ClientInv, FlightInv, InFlight, Genuine, Answering, Linked,
         ReadRequest, ReadFile, control, clients, history
<1>6. CASE AwaitRequest
  BY <1>6, Distinct, BrokerPipeAssumption
     DEF IInv, TypeOK, ClientInv, FlightInv, InFlight, Genuine, Answering, Linked,
         AwaitRequest, AwaitRead, control, clients, history, Stopping
<1>7. CASE ProcessRequest
  BY <1>7, Distinct, BrokerPipeAssumption
     DEF IInv, TypeOK, ClientInv, FlightInv, InFlight, Genuine, Answering, Linked,
         ProcessRequest, instance, control, clients
<1>8. CASE WriteResponse
  BY <1>8, Distinct, BrokerPipeAssumption
     DEF IInv, TypeOK, ClientInv, FlightInv, InFlight, Genuine, Answering, Linked,
         WriteResponse, control, clients, history
<1>9. CASE ReadAck
  BY <1>9, Distinct, BrokerPipeAssumption
     DEF IInv, TypeOK, ClientInv, FlightInv, InFlight, Genuine, Answering, Linked,
         ReadAck, ReadFile, control, clients, history
<1>10. CASE AwaitAck
  BY <1>10, Distinct, BrokerPipeAssumption
     DEF IInv, TypeOK, ClientInv, FlightInv, InFlight, Genuine, Answering, Linked,
         AwaitAck, AwaitRead, control, clients, history, Stopping
<1>11. CASE Disconnect
  BY <1>11, Distinct, BrokerPipeAssumption
     DEF IInv, TypeOK, ClientInv, FlightInv, InFlight, Genuine, Answering, Linked,
         Disconnect, control, clients, history, Discard
<1>12. CASE Return
  BY <1>12, Distinct, BrokerPipeAssumption
     DEF IInv, TypeOK, ClientInv, FlightInv, InFlight, Genuine, Answering, Linked,
         Return, instance, clients, history
<1>13. CASE ReportStopped
  BY <1>13, Distinct, BrokerPipeAssumption
     DEF IInv, TypeOK, ClientInv, FlightInv, InFlight, Genuine, Answering, Linked,
         ReportStopped, instance, clients, history
<1>14. CASE ReportAndSignal
  BY <1>14, Distinct, BrokerPipeAssumption
     DEF IInv, TypeOK, ClientInv, FlightInv, InFlight, Genuine, Answering, Linked,
         ReportAndSignal, instance, service, clients, history
<1>15. CASE WakeUp
  BY <1>15, Distinct, BrokerPipeAssumption
     DEF IInv, TypeOK, ClientInv, FlightInv, InFlight, Genuine, Answering, Linked,
         WakeUp, service, clients, history
<1>16. CASE CloseWake
  BY <1>16, Distinct, BrokerPipeAssumption
     DEF IInv, TypeOK, ClientInv, FlightInv, InFlight, Genuine, Answering, Linked,
         CloseWake, service, clients, history, CloseEnd
<1>17. CASE Start
  BY <1>17, Distinct, BrokerPipeAssumption
     DEF IInv, TypeOK, ClientInv, FlightInv, InFlight, Genuine, Answering, Linked,
         Start, instance, clients, history
<1>18. CASE Control
  BY <1>18, Distinct, BrokerPipeAssumption
     DEF IInv, TypeOK, ClientInv, FlightInv, InFlight, Genuine, Answering, Linked,
         Control, instance, service, clients, history
<1>19. CASE Exit
  BY <1>19, Distinct, BrokerPipeAssumption
     DEF IInv, TypeOK, ClientInv, FlightInv, InFlight, Genuine, Answering, Linked, Exit,
         instance, service, clients, history
<1>20. CASE Crash
  BY <1>20, Distinct, BrokerPipeAssumption
     DEF IInv, TypeOK, ClientInv, FlightInv, InFlight, Genuine, Answering, Linked,
         Crash, history, Advance
<1>21. ASSUME NEW c \in Clients, Begin(c)  PROVE ClientInv'
  BY <1>21, Distinct, BrokerPipeAssumption
     DEF IInv, TypeOK, ClientInv, FlightInv, InFlight, Genuine, Answering, Linked,
         Begin, instance, Outside, service, control, history
<1>22. ASSUME NEW c \in Clients, WaitNamedPipe(c)  PROVE ClientInv'
  BY <1>22, Distinct, BrokerPipeAssumption
     DEF IInv, TypeOK, ClientInv, FlightInv, InFlight, Genuine, Answering, Linked,
         WaitNamedPipe, instance, Outside, Advance, service, control, history
<1>23. ASSUME NEW c \in Clients, CreateFile(c)  PROVE ClientInv'
  BY <1>23, Distinct, BrokerPipeAssumption
     DEF IInv, TypeOK, ClientInv, FlightInv, InFlight, Genuine, Answering, Linked,
         CreateFile, Outside, Advance, service, control, history
<1>24. ASSUME NEW c \in Clients, SendRequest(c)  PROVE ClientInv'
  BY <1>24, Distinct, BrokerPipeAssumption
     DEF IInv, TypeOK, ClientInv, FlightInv, InFlight, Genuine, Answering, Linked,
         SendRequest, Outside, Advance, service, control, history
<1>25. ASSUME NEW c \in Clients, Receive(c)  PROVE ClientInv'
  BY <1>25, Distinct, BrokerPipeAssumption
     DEF IInv, TypeOK, ClientInv, FlightInv, InFlight, Genuine, Answering, Linked,
         Receive, Outside, Advance, service, control, history
<1>26. ASSUME NEW c \in Clients, Acknowledge(c)  PROVE ClientInv'
  BY <1>26, Distinct, BrokerPipeAssumption
     DEF IInv, TypeOK, ClientInv, FlightInv, InFlight, Genuine, Answering, Linked,
         Acknowledge, Outside, Advance, service, control, history
<1>27. ASSUME NEW c \in Clients, CloseAndParse(c)  PROVE ClientInv'
  BY <1>27, Distinct, BrokerPipeAssumption
     DEF IInv, TypeOK, ClientInv, FlightInv, InFlight, Genuine, Answering, Linked,
         CloseAndParse, CloseEnd, Outside, Finish, Verdict, service, control, history
<1>28. ASSUME NEW c \in Clients, GiveUp(c)  PROVE ClientInv'
  BY <1>28, Distinct, BrokerPipeAssumption
     DEF IInv, TypeOK, ClientInv, FlightInv, InFlight, Genuine, Answering, Linked,
         GiveUp, CloseEnd, Outside, Finish, service, control, history
<1>29. CASE UNCHANGED vars
  BY <1>29
     DEF IInv, TypeOK, ClientInv, FlightInv, InFlight, Genuine, Answering, Linked, vars,
         instance, service, control, clients, history
<1>30. QED
  BY <1>1, <1>2, <1>3, <1>4, <1>5, <1>6, <1>7, <1>8, <1>9, <1>10, <1>11, <1>12, <1>13,
     <1>14, <1>15, <1>16, <1>17, <1>18, <1>19, <1>20, <1>21, <1>22, <1>23, <1>24, <1>25,
     <1>26, <1>27, <1>28, <1>29
     DEF Next, Serve, HandleControl, Client

-----------------------------------------------------------------------------
(* What a call is to its caller: every step is one of RemoteCall, or none.  *)

LEMMA Simulation == IInv /\ [Next]_vars => [RC!Next]_RC!vars
<1> SUFFICES ASSUME IInv, [Next]_vars PROVE [RC!Next]_RC!vars
  OBVIOUS
<1>1. CASE \/ CreatePipe \/ Loop \/ Connect \/ Accept \/ ReadRequest \/ AwaitRequest
           \/ WriteResponse \/ ReadAck \/ AwaitAck \/ Disconnect \/ Return \/ ReportStopped
  BY <1>1
     DEF CreatePipe, Loop, Connect, Accept, ReadRequest, AwaitRequest, WriteResponse, ReadAck,
         AwaitAck, Disconnect, Return, ReportStopped, ReadFile, AwaitRead, clients, history,
         RC!vars
<1>2. CASE HandleControl \/ Start \/ Control \/ Exit \/ Crash \/ UNCHANGED vars
  BY <1>2
     DEF HandleControl, ReportAndSignal, WakeUp, CloseWake, Start, Control, Exit, Crash, vars,
         clients, history, RC!vars
<1>3. CASE ProcessRequest
  <2>1. PICK c \in Clients, n \in Nat : n \in 1 .. MaxCalls[c] /\ current = <<c, n>>
    BY <1>3, Distinct DEF IInv, TypeOK, ProcessRequest
  <2>2. n <= calls[c] /\ \A m \in n .. calls[c] : <<c, m>> \notin handled
    <3>1. n \in Nat /\ calls[c] \in Nat
      BY BrokerPipeAssumption DEF IInv, TypeOK
    <3>2. n <= calls[c] /\ \A m \in Nat : m >= n => <<c, m>> \notin handled
      BY <1>3, <2>1 DEF IInv, FlightInv, InFlight, Unhandled, ProcessRequest
    <3>3. QED  BY <3>1, <3>2
  <2>3. UNCHANGED <<calls, outcome>>
    BY <1>3 DEF ProcessRequest, clients
  <2>4. CASE handled' = handled \cup {current}
    <3>1. accepted' \in {accepted, accepted \cup {<<c, n>>}}
      BY <1>3, <2>1 DEF ProcessRequest
    <3>2. RC!Handle(c, n)
      BY <2>1, <2>2, <2>3, <2>4, <3>1 DEF RC!Handle
    <3>3. QED  BY <2>1, <3>2 DEF RC!Next
  <2>5. CASE handled' # handled \cup {current}
    BY <1>3, <2>3, <2>5 DEF ProcessRequest, RC!vars
  <2>6. QED  BY <2>4, <2>5
<1>4. ASSUME NEW c \in Clients, Begin(c)  PROVE RC!Next
  BY <1>4 DEF IInv, ClientInv, Begin, Outside, history, RC!Next, RC!Begin
<1>5. ASSUME NEW c \in Clients, GiveUp(c)  PROVE RC!Next
  BY <1>5 DEF IInv, ClientInv, GiveUp, Finish, Outside, history, RC!Next, RC!Fail
<1>6. ASSUME NEW c \in Clients, CloseAndParse(c)  PROVE RC!Next
  <2>1. /\ outcome[c] = "pending"
        /\ got[c].ok => <<c, calls[c]>> \in accepted
    BY <1>6 DEF IInv, ClientInv, Genuine, CloseAndParse
  <2>2. CASE got[c].ok
    <3>1. RC!Succeed(c)
      BY <1>6, <2>1, <2>2 DEF CloseAndParse, Finish, Verdict, Outside, history, RC!Succeed
    <3>2. QED  BY <3>1 DEF RC!Next
  <2>3. CASE ~ got[c].ok
    <3>1. RC!Fail(c)
      BY <1>6, <2>1, <2>3 DEF CloseAndParse, Finish, Verdict, Outside, history, RC!Fail
    <3>2. QED  BY <3>1 DEF RC!Next
  <2>4. QED  BY <2>2, <2>3
<1>7. ASSUME NEW c \in Clients,
             \/ WaitNamedPipe(c) \/ CreateFile(c) \/ SendRequest(c)
             \/ Receive(c) \/ Acknowledge(c)
      PROVE  UNCHANGED RC!vars
  BY <1>7 DEF WaitNamedPipe, CreateFile, SendRequest, Receive, Acknowledge, Outside, history,
              RC!vars
<1>8. QED
  BY <1>1, <1>2, <1>3, <1>4, <1>5, <1>6, <1>7 DEF Next, Serve, Client

-----------------------------------------------------------------------------
(* The theorems.                                                            *)

\* The inductive invariant of the pipe, its server and its clients.
THEOREM Inductive == Spec => []IInv
<1>1. IInv /\ [Next]_vars => IInv'
  BY TypeStep, EventStep, PipeStep, FlightStep, ClientStep DEF IInv
<1>2. QED  BY InitInv, <1>1, PTL DEF Spec

\* Type correctness.
THEOREM TypeCorrect == Spec => []TypeOK
<1>1. IInv => TypeOK
  BY DEF IInv
<1>2. QED  BY <1>1, Inductive, PTL

\* Control requests and the end of a Run that served, on two threads, keep the
\* service manager and the event in step (ServiceMain, ControlHandler); only after
\* an early return of Run can they fail to.
THEOREM StopAlwaysOrderly == Spec => []StopIsOrderly
<1>1. IInv => StopIsOrderly
  BY DEF IInv, TypeOK, EventInv, StopIsOrderly
<1>2. QED  BY <1>1, Inductive, PTL

\* An answer is thrown away unread only for a reason (Run, the acknowledgement).
THEOREM AnswersAlwaysRead == Spec => AnswersAreRead
<1>1. IInv => (pc = "disconnect" /\ outbox # None => cut \/ pipe = "closing")
  BY DEF IInv, FlightInv
<1>2. IInv /\ [Next]_vars =>
        [(pc = "disconnect" /\ pc' = "loop" /\ outbox # None) => cut \/ pipe = "closing"]_vars
  BY <1>1
<1>3. QED  BY <1>2, Inductive, PTL DEF Spec, AnswersAreRead

\* The pipe with its protocol implements RemoteCall: a call is handled at most
\* once and never after a later one, and success is never imagined (Call).
THEOREM CallsAreAlwaysServed == Spec => CallsAreServed
<1>1. Init => RC!Init
  BY DEF Init, RC!Init
<1>2. QED  BY <1>1, Simulation, Inductive, PTL DEF Spec, CallsAreServed, RC!Spec
=============================================================================
