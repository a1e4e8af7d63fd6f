------------------------------ MODULE BrokerPipe ------------------------------
(***************************************************************************)
(* The Broker service, its one pipe instance, and the clients that call it:*)
(* BrokerService::Run and main.cpp of the service, BrokerClient::Call of   *)
(* the credential provider and the manager.                                *)
(*                                                                         *)
(* Three kinds of threads interleave: the service's main thread, the       *)
(* dispatcher thread that runs ControlHandler, and the clients.  A deadline*)
(* may pass at any moment of the wait it limits.  A message fits the pipe's*)
(* buffer, so that a write completes or fails at once.                     *)
(***************************************************************************)
EXTENDS Naturals

CONSTANTS Clients, None,
          Wake,       \* the connection ControlHandler makes to wake the service
          Ack,        \* the client's one-byte message
          MaxCalls,   \* bound: calls of each client, a function
          MaxStarts   \* bound: starts of the service

ASSUME BrokerPipeAssumption ==
  /\ MaxCalls \in [Clients -> Nat] /\ MaxStarts \in Nat
  /\ Wake \notin Clients /\ None \notin Clients \cup {Wake}
  /\ Ack \notin Clients \X Nat /\ None \notin (Clients \X Nat) \cup {Ack}
  /\ None \notin [call : Clients \X Nat, ok : BOOLEAN]

VARIABLES
  \* the service
  pc,         \* of ServiceMain and Run; "off" when the process is not there
  current,    \* the message read
  reply,      \* the response to it
  cut,        \* history: the exchange was ended by a deadline, a stop, no event
  status,     \* what the service manager was told
  stopEvent,  \* g_stopEvent
  handler,    \* pc of ControlHandler
  starts,
  \* the pipe instance
  pipe, end,  \* its state; the client it was connected to
  inbox, outbox,
  \* the clients
  cpc, calls, got, outcome,
  \* history: calls accepted and handled; Run returned before it served
  accepted, handled, early

instance == <<pipe, end, inbox, outbox>>
service == <<pc, current, reply, cut>>
control == <<status, stopEvent, handler, starts>>
clients == <<cpc, calls, got, outcome>>
history == <<accepted, handled, early>>
vars == <<service, control, instance, clients, history>>

Call == {p \in Clients \X Nat : p[2] \in 1 .. MaxCalls[p[1]]}
Response == [call : Call, ok : BOOLEAN]

Init ==
  /\ pc = "off" /\ current = None /\ reply = None /\ cut = FALSE
  /\ status = "stopped" /\ stopEvent = "closed" /\ handler = "idle" /\ starts = 0
  /\ pipe = "none" /\ end = None /\ inbox = None /\ outbox = None
  /\ cpc = [c \in Clients |-> "idle"] /\ calls = [c \in Clients |-> 0]
  /\ got = [c \in Clients |-> None] /\ outcome = [c \in Clients |-> "none"]
  /\ accepted = {} /\ handled = {} /\ early = FALSE

-----------------------------------------------------------------------------
(* ServiceMain and Run.                                                     *)

\* ServiceMain; when it cannot register its handler or create the event, the
\* service stays stopped.
Start ==
  /\ pc = "off" /\ handler = "idle" /\ status = "stopped" /\ starts < MaxStarts
  /\ pc' = "run" /\ status' = "running" /\ stopEvent' = "clear"
  /\ starts' = starts + 1 /\ early' = FALSE
  /\ UNCHANGED <<current, reply, cut, handler, instance, clients, accepted, handled>>

\* Run, up to its loop: the accounts are refreshed and the pipe is created, or
\* Run returns.
CreatePipe ==
  /\ pc = "run"
  /\ \/ pc' = "return" /\ early' = TRUE /\ UNCHANGED pipe
     \/ pc' = "loop" /\ pipe' = "listening" /\ UNCHANGED early
  /\ UNCHANGED <<current, reply, cut, end, inbox, outbox, control, clients, accepted,
                 handled>>

Loop ==
  /\ pc = "loop"
  /\ \/ /\ stopEvent = "set" /\ pc' = "return"
        /\ pipe' = "none" /\ end' = None /\ inbox' = None /\ outbox' = None
     \/ /\ stopEvent # "set" /\ pc' = "connect" /\ UNCHANGED instance
  /\ UNCHANGED <<current, reply, cut, control, clients, history>>

\* ConnectNamedPipe, or no event for it.  A client that is there already is
\* served; one that came and went makes it fail.
Connect ==
  /\ pc = "connect"
  /\ \/ pc' = "loop" /\ UNCHANGED pipe
     \/ /\ pipe \in {"listening", "disconnected"}
        /\ pipe' = "listening" /\ pc' = "accept"
     \/ pipe = "connected" /\ pc' = "read" /\ UNCHANGED pipe
     \/ pipe = "closing" /\ pc' = "loop" /\ UNCHANGED pipe
  /\ UNCHANGED <<current, reply, cut, end, inbox, outbox, control, clients, history>>

Deaf == FALSE  \* mutant: AwaitOverlapped does not look at the stop event

\* WaitForMultipleObjects reports the stop event before the completed operation.
Stopping == stopEvent = "set"

Accept ==
  /\ pc = "accept"
  /\ \/ Stopping /\ pc' = "loop"
     \/ ~ Stopping /\ pipe \in {"connected", "closing"} /\ pc' = "read"
  /\ UNCHANGED <<current, reply, cut, control, instance, clients, history>>

\* ReadWithDeadline, its ReadFile: done, failed, or pending at "waiting".  The
\* request is followed up at "got", the acknowledgement at "disconnect".
ReadFile(waiting, next) ==
  /\ UNCHANGED <<reply, control, pipe, end, outbox, clients, history>>
  /\ \/ /\ inbox # None /\ pc' = next
        /\ current' = inbox /\ inbox' = None /\ UNCHANGED cut
     \/ /\ inbox = None /\ pipe = "closing" /\ pc' = "disconnect"
        /\ UNCHANGED <<current, cut, inbox>>
     \/ /\ inbox = None /\ pipe = "connected" /\ pc' = waiting
        /\ UNCHANGED <<current, cut, inbox>>
     \/ /\ pc' = "disconnect" /\ cut' = TRUE /\ UNCHANGED <<current, inbox>>

NoDeadline(next) ==  \* mutant: the pending operation has no deadline
  /\ UNCHANGED <<reply, control, pipe, end, outbox, clients, history>>
  /\ \/ /\ Stopping /\ pc' = "disconnect" /\ cut' = TRUE
        /\ UNCHANGED <<current, inbox>>
     \/ /\ ~ Stopping /\ inbox # None /\ pc' = next
        /\ current' = inbox /\ inbox' = None /\ UNCHANGED cut
     \/ /\ ~ Stopping /\ inbox = None /\ pipe = "closing" /\ pc' = "disconnect"
        /\ UNCHANGED <<current, cut, inbox>>

\* AwaitOverlapped: what arrives together with the stop or the deadline is lost.
AwaitRead(next) ==
  /\ UNCHANGED <<reply, control, pipe, end, outbox, clients, history>>
  /\ \/ /\ pc' = "disconnect" /\ cut' = TRUE   \* the stop, or the deadline
        /\ UNCHANGED <<current, inbox>>
     \/ /\ ~ Stopping /\ inbox # None /\ pc' = next
        /\ current' = inbox /\ inbox' = None /\ UNCHANGED cut
     \/ /\ ~ Stopping /\ inbox = None /\ pipe = "closing" /\ pc' = "disconnect"
        /\ UNCHANGED <<current, cut, inbox>>

ReadRequest == pc = "read" /\ ReadFile("reading", "process")
AwaitRequest == pc = "reading" /\ AwaitRead("process")

\* ProcessRequest.  It refuses what it cannot parse and a caller it cannot
\* identify; everything else goes to Handle, which answers yes or no.
ProcessRequest ==
  /\ pc = "process" /\ pc' = "write"
  /\ \E ok \in BOOLEAN :
       /\ reply' = [call |-> current, ok |-> ok]
       /\ accepted' = IF ok THEN accepted \cup {current} ELSE accepted
       /\ \/ handled' = handled \cup {current}
          \/ ~ ok /\ UNCHANGED handled
  /\ UNCHANGED <<current, cut, control, instance, clients, early>>

WriteWithoutWaiting ==  \* mutant: the acknowledgement is not awaited
  /\ pc = "write" /\ pc' = "disconnect"
  /\ IF pipe = "connected" THEN outbox' = reply ELSE UNCHANGED outbox
  /\ UNCHANGED <<current, reply, cut, pipe, end, inbox, control, clients, history>>

\* WriteWithDeadline.
WriteResponse ==
  /\ pc = "write"
  /\ \/ /\ pipe = "connected" /\ outbox' = reply /\ pc' = "ack" /\ UNCHANGED cut
     \/ /\ pipe = "closing" /\ pc' = "disconnect" /\ UNCHANGED <<cut, outbox>>
     \/ /\ pc' = "disconnect" /\ cut' = TRUE /\ UNCHANGED outbox
  /\ UNCHANGED <<current, reply, pipe, end, inbox, control, clients, history>>

ReadAck == pc = "ack" /\ ReadFile("acking", "disconnect")
AwaitAck == pc = "acking" /\ AwaitRead("disconnect")

\* DisconnectNamedPipe discards what nobody read.
Discard ==
  /\ pipe' = "disconnected" /\ end' = None /\ inbox' = None /\ outbox' = None

Disconnect ==
  /\ pc = "disconnect" /\ pc' = "loop"
  /\ Discard /\ current' = None /\ reply' = None /\ cut' = FALSE
  /\ UNCHANGED <<control, clients, history>>

Return ==
  /\ pc = "return" /\ pc' = "report" /\ stopEvent' = "closed"
  /\ UNCHANGED <<current, reply, cut, status, handler, starts, instance, clients, history>>

ReportStopped ==
  /\ pc = "report" /\ pc' = "off" /\ status' = "stopped"
  /\ UNCHANGED <<current, reply, cut, stopEvent, handler, starts, instance, clients, history>>

\* The process ends with its dispatcher; the service manager notices.
Exit ==
  /\ pc = "off" /\ handler = "idle" /\ status # "stopped" /\ status' = "stopped"
  /\ UNCHANGED <<service, stopEvent, handler, starts, instance, clients, history>>

-----------------------------------------------------------------------------
(* ControlHandler.  Only a running service accepts the control.             *)

Control ==
  /\ handler = "idle" /\ status = "running" /\ pc # "off" /\ handler' = "report"
  /\ UNCHANGED <<service, status, stopEvent, starts, instance, clients, history>>

SignalFirst ==  \* mutant: the event is set before the state is reported
  /\ \/ /\ handler = "report" /\ handler' = "signal" /\ UNCHANGED status
        /\ stopEvent' = IF stopEvent = "clear" THEN "set" ELSE stopEvent
     \/ /\ handler = "signal" /\ handler' = "wake"
        /\ status' = "pending" /\ UNCHANGED stopEvent
  /\ UNCHANGED <<service, starts, instance, clients, history>>

\* SetState(SERVICE_STOP_PENDING), then SetEvent, which a closed event ignores.
ReportAndSignal ==
  /\ \/ /\ handler = "report" /\ handler' = "signal"
        /\ status' = "pending" /\ UNCHANGED stopEvent
     \/ /\ handler = "signal" /\ handler' = "wake" /\ UNCHANGED status
        /\ stopEvent' = IF stopEvent = "clear" THEN "set" ELSE stopEvent
  /\ UNCHANGED <<service, starts, instance, clients, history>>

\* CreateFileW on the service's own pipe, where it listens.
WakeUp ==
  /\ handler = "wake"
  /\ IF pipe = "listening"
       THEN pipe' = "connected" /\ end' = Wake /\ handler' = "close"
       ELSE UNCHANGED <<pipe, end>> /\ handler' = "idle"
  /\ UNCHANGED <<service, status, stopEvent, starts, inbox, outbox, clients, history>>

\* CloseHandle of whoever is connected.
CloseEnd(c) == pipe' = IF end = c /\ pipe = "connected" THEN "closing" ELSE pipe

CloseWake ==
  /\ handler = "close" /\ handler' = "idle" /\ CloseEnd(Wake)
  /\ UNCHANGED <<service, status, stopEvent, starts, end, inbox, outbox, clients, history>>

-----------------------------------------------------------------------------
(* The clients: BrokerClient::Call.                                         *)

Outside == UNCHANGED <<service, control, history>>

Begin(c) ==
  /\ cpc[c] = "idle" /\ calls[c] < MaxCalls[c]
  /\ cpc' = [cpc EXCEPT ![c] = "wait"]
  /\ calls' = [calls EXCEPT ![c] = calls[c] + 1]
  /\ outcome' = [outcome EXCEPT ![c] = "pending"]
  /\ UNCHANGED <<got, instance>> /\ Outside

\* The call returns; what was received is gone with its buffer.
Finish(c, result) ==
  /\ cpc' = [cpc EXCEPT ![c] = "idle"]
  /\ got' = [got EXCEPT ![c] = None]
  /\ outcome' = [outcome EXCEPT ![c] = result]
  /\ UNCHANGED calls

\* The call fails, wherever it is: the pipe is not there or busy, not the
\* Broker's, the request cannot be serialized or is too large, a transfer is
\* broken or past its deadline; or the calling process dies.
GiveUp(c) ==
  /\ cpc[c] # "idle"
  /\ CloseEnd(c) /\ Finish(c, "failed")
  /\ UNCHANGED <<end, inbox, outbox>> /\ Outside

Advance(c, from, to) == cpc[c] = from /\ cpc' = [cpc EXCEPT ![c] = to]

WaitNamedPipe(c) ==
  /\ Advance(c, "wait", "create") /\ pipe = "listening"
  /\ UNCHANGED <<calls, got, outcome, instance>> /\ Outside

\* Of several clients that waited, one gets the instance; the others give up.
CreateFile(c) ==
  /\ Advance(c, "create", "send") /\ pipe = "listening"
  /\ pipe' = "connected" /\ end' = c
  /\ UNCHANGED <<inbox, outbox, calls, got, outcome>> /\ Outside

\* IsTrustedPipeServer, the envelope and its size, and the request is written.
SendRequest(c) ==
  /\ Advance(c, "send", "receive") /\ end = c /\ pipe = "connected"
  /\ inbox' = <<c, calls[c]>>
  /\ UNCHANGED <<pipe, end, outbox, calls, got, outcome>> /\ Outside

Receive(c) ==
  /\ Advance(c, "receive", "ack") /\ end = c /\ outbox # None
  /\ got' = [got EXCEPT ![c] = outbox] /\ outbox' = None
  /\ UNCHANGED <<pipe, end, inbox, calls, outcome>> /\ Outside

\* The result of writing the acknowledgement is ignored.
Acknowledge(c) ==
  /\ Advance(c, "ack", "close")
  /\ \/ end = c /\ pipe = "connected" /\ inbox' = Ack
     \/ UNCHANGED inbox
  /\ UNCHANGED <<pipe, end, outbox, calls, got, outcome>> /\ Outside

AnyAnswer(c) == "ok"  \* mutant: the answer's "ok" is not looked at

Verdict(c) == IF got[c].ok THEN "ok" ELSE "failed"

CloseAndParse(c) ==
  /\ cpc[c] = "close" /\ CloseEnd(c) /\ Finish(c, Verdict(c))
  /\ UNCHANGED <<end, inbox, outbox>> /\ Outside

-----------------------------------------------------------------------------

\* The process dies.  Its end of the pipe goes; a client still gets what was
\* written to it, or does not come to read it.
Crash ==
  /\ pc # "off" /\ pc' = "off" /\ current' = None /\ reply' = None /\ cut' = FALSE
  /\ status' = "stopped" /\ stopEvent' = "closed" /\ handler' = "idle"
  /\ pipe' = "none" /\ end' = None /\ inbox' = None /\ outbox' = None
  /\ \/ UNCHANGED <<cpc, got>>
     \/ \E c \in Clients :
          /\ Advance(c, "receive", "ack") /\ end = c /\ outbox # None
          /\ got' = [got EXCEPT ![c] = outbox]
  /\ UNCHANGED <<starts, calls, outcome, history>>

Serve ==
  \/ CreatePipe \/ Loop \/ Connect \/ Accept \/ ReadRequest \/ AwaitRequest
  \/ ProcessRequest \/ WriteResponse \/ ReadAck \/ AwaitAck \/ Disconnect
  \/ Return \/ ReportStopped

HandleControl == ReportAndSignal \/ WakeUp \/ CloseWake

Client(c) ==
  \/ Begin(c) \/ WaitNamedPipe(c) \/ CreateFile(c) \/ SendRequest(c) \/ Receive(c)
  \/ Acknowledge(c) \/ CloseAndParse(c) \/ GiveUp(c)

Next ==
  \/ Serve \/ HandleControl \/ Start \/ Control \/ Exit \/ Crash
  \/ \E c \in Clients : Client(c)

\* The threads of the service run; no client has to do anything.
Spec == Init /\ [][Next]_vars /\ WF_vars(Serve) /\ WF_vars(HandleControl)

-----------------------------------------------------------------------------
(* Properties.                                                              *)

TypeOK ==
  /\ pc \in {"off", "run", "loop", "connect", "accept", "read", "reading", "process",
             "write", "ack", "acking", "disconnect", "return", "report"}
  /\ current \in {None, Ack} \cup Call /\ reply \in {None} \cup Response
  /\ cut \in BOOLEAN
  /\ status \in {"stopped", "running", "pending"}
  /\ stopEvent \in {"closed", "clear", "set"}
  /\ handler \in {"idle", "report", "signal", "wake", "close"}
  /\ starts \in 0 .. MaxStarts
  /\ pipe \in {"none", "listening", "connected", "closing", "disconnected"}
  /\ end \in Clients \cup {None, Wake}
  /\ inbox \in {None, Ack} \cup Call /\ outbox \in {None} \cup Response
  /\ cpc \in [Clients -> {"idle", "wait", "create", "send", "receive", "ack", "close"}]
  /\ calls \in [Clients -> Nat] /\ \A c \in Clients : calls[c] <= MaxCalls[c]
  /\ got \in [Clients -> {None} \cup Response]
  /\ outcome \in [Clients -> {"none", "pending", "ok", "failed"}]
  /\ accepted \subseteq handled /\ handled \subseteq Call /\ early \in BOOLEAN
  /\ (pc = "process" => current \in Call) /\ (pc = "write" => reply \in Response)

\* A Run that served ends only because it was told to, and in order:
\* ControlHandler has reported STOP_PENDING and set a live event before the event
\* is closed and STOPPED is reported.  The code breaks this order in one case
\* only: Run has returned early, because the startup refresh or the creation of
\* the pipe failed (BrokerService.cpp:249-267).  A control that arrives meanwhile
\* may then report STOP_PENDING after STOPPED and set an event that is closed
\* (main.cpp:28-29 against 46-48).  An event that is set was always announced.
StopIsOrderly ==
  /\ stopEvent = "set" => handler \notin {"report", "signal"} /\ status = "pending"
  /\ ~ early => /\ handler = "signal" => stopEvent = "clear"
                /\ handler \in {"report", "signal"} => pc \notin {"return", "report", "off"}
                /\ pc \in {"return", "report"} => status = "pending"

\* "The acknowledgement proves the client consumed the response before
\* DisconnectNamedPipe discards any unread pipe data" (Run): an answer is
\* discarded unread only when its client has left, a deadline passed, the
\* service stops, or it lacked an event.
AnswersAreRead ==
  [][(pc = "disconnect" /\ pc' = "loop" /\ outbox # None) => cut \/ pipe = "closing"]_vars

\* A call is what RemoteCall promises: handled at most once, never reported as
\* done when this very request was not accepted, and never handled after a
\* later call of the same client, although the client may have given up, died
\* and called again meanwhile.
RC == INSTANCE RemoteCall
CallsAreServed == RC!Spec

\* Whoever connects and does nothing holds the one pipe instance for a bounded
\* time: it is freed, whatever the clients do.
PipeIsFreed == (pc = "read") ~> (pipe \in {"disconnected", "none"})

\* "So the service can stop promptly" (ControlHandler): a stop is carried out
\* wherever the main thread is, in the middle of a call or before the pipe
\* listens.
StopsWhenAsked == (handler = "signal") ~> (pc = "off")
=============================================================================
