------------------------------ MODULE GdbClient ------------------------------
(* GdbDebugDriver over RspHandler over the TCP transport: the user's thread,  *)
(* the thread that handles stop replies and the thread that receives bytes,   *)
(* with the queues and the lock between them, and a gdb stub that runs the    *)
(* debugged program.  The two byte streams are sequences of packets.  The     *)
(* driver has no event listeners and swbrkpt is off (the default).            *)
EXTENDS Naturals, Sequences, FiniteSets

CONSTANTS
  None,
  Commands,   \* what the user calls, a subset of AllCommands
  StopCodes,  \* why the program may halt by itself
  Patient,    \* the user waits for everything to settle before each call, and
              \* does not call run on a running program
  MaxCalls,   \* bound on the user's calls
  MaxNacks    \* bound on the packets that reach the stub damaged

AllCommands == {"run", "step", "restart", "stop", "mem", "regs", "setregs", "pc", "disconnect"}

ASSUME ConstantsAssumption ==
  /\ Commands \subseteq AllCommands
  /\ StopCodes \subseteq {"breakpoint", "fault"}
  /\ Patient \in BOOLEAN
  /\ MaxCalls \in Nat /\ MaxNacks \in Nat

VARIABLES
  status,   \* GdbDebugDriver.status
  cache,    \* the pc in _register_value_cache; None when it holds none
  lock,     \* who holds RspHandler._lock
  ackq,     \* _ack_queue, maxsize 1
  msgq,     \* _msg_queue, maxsize 1
  stopq,    \* _stop_msg_queue, unbounded
  pc,       \* what each of the driver's threads does next
  cmd,      \* the RSP command a sender has under way
  hand,     \* what the receiving thread took from the socket and must deliver
  open,     \* TCP._running
  tx, rx,   \* the byte streams to and from the stub
  target,   \* is the debugged program running?
  tpc,      \* its program counter
  calls, nacks,
  timedOut  \* has a call given up waiting for an ack or a response?

driver == <<status, cache, calls>>
queues == <<ackq, msgq, stopq>>
threads == <<pc, cmd>>
stub == <<target, tpc, nacks>>
vars == <<driver, lock, queues, threads, hand, open, tx, rx, stub, timedOut>>

Senders == {"main", "handler"}
Ack == [type |-> "ack"]
Nack == [type |-> "nack"]
Break == [type |-> "break"]

Packet(t) == [type |-> "packet", from |-> t, cmd |-> cmd[t]]
Response(p, v) == [type |-> "response", to |-> p.from, cmd |-> p.cmd, pc |-> v]
StopReply(code) == [type |-> "stop", code |-> code]

\* RSP commands; "m" stands for those that leave the driver as it is.
Resumes == {"c", "s"}           \* run, step: answered by a stop reply, later
Reads == {"g", "p"}             \* their response fills the cache
Writes == {"G", "P"}            \* set_registers, set_pc
Cmds == {"m"} \cup Resumes \cup Reads \cup Writes

Responses == [type : {"response"}, to : Senders, cmd : Cmds, pc : Nat]
Stops == [type : {"stop"}, code : {"pill", "breakpoint", "fault", "interrupt"}]
ASSUME NoneAssumption ==
  /\ None \notin Senders /\ None \notin {Ack, Nack}
  /\ None \notin Responses /\ None \notin Stops

Init ==
  /\ status = "RUNNING" /\ target = "running"
  /\ cache = None /\ tpc = 1
  /\ lock = None
  /\ ackq = <<>> /\ msgq = <<>> /\ stopq = <<>>
  /\ pc = [main |-> "idle", handler |-> "idle", receiver |-> "loop"]
  /\ cmd = [t \in Senders |-> "m"]
  /\ hand = None
  /\ open = TRUE
  /\ tx = <<>> /\ rx = <<>>
  /\ calls = 0 /\ nacks = 0
  /\ timedOut = FALSE

-----------------------------------------------------------------------------
(* RspHandler.sendpkt and GdbDebugDriver._recv_message, in thread t *)

Closed == pc["main"] \in {"pill", "closed"}    \* the socket

\* Mutant: the lock is not taken.
BugSendpkt(t) ==
  /\ pc[t] = "send" /\ ~Closed
  /\ lock' = t
  /\ tx' = Append(tx, Packet(t))
  /\ pc' = [pc EXCEPT ![t] = "ack"]
  /\ UNCHANGED <<driver, queues, cmd, hand, open, rx, stub, timedOut>>

\* Mutant: the stop handler sends its "g" without waiting for the ack.
BugUnacked(t) ==
  /\ pc[t] = "send" /\ lock = None /\ ~Closed
  /\ lock' = IF t = "handler" THEN None ELSE t
  /\ tx' = Append(tx, Packet(t))
  /\ pc' = [pc EXCEPT ![t] = IF t = "handler" THEN "response" ELSE "ack"]
  /\ UNCHANGED <<driver, queues, cmd, hand, open, rx, stub, timedOut>>

\* Take the lock and put the packet on the wire.  A packet for a closed socket
\* raises, which releases the lock and ends the stop handler.
Sendpkt(t) ==
  /\ pc[t] = "send" /\ lock = None /\ ~Closed
  /\ lock' = t
  /\ tx' = Append(tx, Packet(t))
  /\ pc' = [pc EXCEPT ![t] = "ack"]
  /\ UNCHANGED <<driver, queues, cmd, hand, open, rx, stub, timedOut>>

SendFails ==
  /\ pc["handler"] = "send" /\ Closed
  /\ pc' = [pc EXCEPT !["handler"] = "dead"]
  /\ UNCHANGED <<driver, lock, queues, cmd, hand, open, tx, rx, stub, timedOut>>

\* Mutant: the "OK" of a memory write or a breakpoint is not waited for.
BugAcked(t) ==
  /\ pc[t] = "ack" /\ ackq # <<>>
  /\ ackq' = Tail(ackq)
  /\ lock' = None
  /\ pc' = [pc EXCEPT ![t] = IF cmd[t] \in Resumes THEN "start"
                             ELSE IF cmd[t] = "m" THEN "idle" ELSE "response"]
  /\ UNCHANGED <<driver, msgq, stopq, cmd, hand, open, tx, rx, stub, timedOut>>

\* The ack queue only ever holds a "+", because decoder() yields nothing for a
\* "-": the branch of sendpkt that sends a packet again is never taken.
Acked(t) ==
  /\ pc[t] = "ack" /\ ackq # <<>>
  /\ ackq' = Tail(ackq)
  /\ lock' = None
  /\ pc' = [pc EXCEPT ![t] = IF cmd[t] \in Resumes THEN "start" ELSE "response"]
  /\ UNCHANGED <<driver, msgq, stopq, cmd, hand, open, tx, rx, stub, timedOut>>

\* _get_general_registers and _get_register cache what they decode: 0 stands
\* for what the response to another command decodes to.
Decoded(t, msg) == IF msg.cmd = cmd[t] THEN msg.pc ELSE 0
AfterResponse(t) ==
  IF t = "handler" THEN "stop" ELSE IF cmd[t] = "P" THEN "send" ELSE "idle"

\* "OK", the response to a write of registers, memory or a breakpoint, is no
\* register data and does not decode.
IsOk(msg) == msg.cmd \in Writes
MayBeOk(msg) == IsOk(msg) \/ msg.cmd = "m"

Receive(t) ==
  /\ pc[t] = "response" /\ msgq # <<>>
  /\ ~(cmd[t] \in Reads /\ IsOk(Head(msgq)))
  /\ msgq' = Tail(msgq)
  /\ cache' = IF cmd[t] \in Reads THEN Decoded(t, Head(msgq)) ELSE cache
  /\ pc' = [pc EXCEPT ![t] = AfterResponse(t)]
  /\ cmd' = [cmd EXCEPT ![t] = IF @ = "P" THEN "c" ELSE @]
  /\ UNCHANGED <<status, calls, lock, ackq, stopq, hand, open, tx, rx, stub, timedOut>>

\* An exception leaves the call of the user, or ends the stop handler.
Raised(t) == pc' = [pc EXCEPT ![t] = IF t = "handler" THEN "dead" ELSE "idle"]

ReceiveFails(t) ==
  /\ pc[t] = "response" /\ msgq # <<>>
  /\ cmd[t] \in Reads /\ MayBeOk(Head(msgq))
  /\ msgq' = Tail(msgq)
  /\ Raised(t)
  /\ UNCHANGED <<driver, lock, ackq, stopq, cmd, hand, open, tx, rx, stub, timedOut>>

\* The stub, the wire and the receiving thread take far less than the half
\* second of sendpkt and the three seconds of _recv_message: a wait times out
\* only when none of them can do anything.
StubReady == tx # <<>> /\ (target = "halted" \/ Head(tx) = Break)

\* Mutant: the queues are not bounded.
BugDeliverable == hand = None => open /\ rx # <<>>

Deliverable == /\ hand = Ack => ackq = <<>>
               /\ hand # None /\ hand.type = "response" => msgq = <<>>
               /\ hand = None => open /\ rx # <<>>
ReceiverReady == pc["receiver"] = "loop" /\ Deliverable
Quiet == ~StubReady /\ ~ReceiverReady

\* Mutant: the lock is acquired and released by hand, not with "with".
BugTimesOut(t, where, q) ==
  /\ pc[t] = where /\ q = <<>> /\ Quiet
  /\ Raised(t)
  /\ timedOut' = TRUE
  /\ UNCHANGED <<driver, lock, queues, cmd, hand, open, tx, rx, stub>>

\* queue.Empty.
TimesOut(t, where, q) ==
  /\ pc[t] = where /\ q = <<>> /\ Quiet
  /\ lock' = IF where = "ack" THEN None ELSE lock
  /\ Raised(t)
  /\ timedOut' = TRUE
  /\ UNCHANGED <<driver, queues, cmd, hand, open, tx, rx, stub>>
AckTimeout(t) == TimesOut(t, "ack", ackq)
ResponseTimeout(t) == TimesOut(t, "response", msgq)

-----------------------------------------------------------------------------
(* The user's thread *)

Settled ==
  /\ tx = <<>> /\ rx = <<>> /\ hand = None
  /\ ackq = <<>> /\ msgq = <<>> /\ stopq = <<>>
  /\ pc["main"] = "idle" /\ pc["handler"] \in {"idle", "dead"}

Call(name) ==
  /\ name \in Commands
  /\ pc["main"] = "idle" /\ calls < MaxCalls
  /\ Patient => Settled
  /\ calls' = calls + 1

\* A call that starts with sendpkt(c).
Issue(name, c) ==
  /\ Call(name)
  /\ pc' = [pc EXCEPT !["main"] = "send"]
  /\ cmd' = [cmd EXCEPT !["main"] = c]
  /\ UNCHANGED <<status, cache, lock, queues, hand, open, tx, rx, stub, timedOut>>

\* run only warns when the driver is running already: it sends "c" all the same.
Run == (Patient => status = "STOPPED") /\ Issue("run", "c")
Step == status = "STOPPED" /\ Issue("step", "s")
Restart == status = "STOPPED" /\ Issue("restart", "P")
AccessMemory == status = "STOPPED" /\ Issue("mem", "m")
GetRegisters == status = "STOPPED" /\ Issue("regs", "g")
SetRegisters == status = "STOPPED" /\ Issue("setregs", "G")
GetPc == status = "STOPPED" /\ cache = None /\ Issue("pc", "p")

\* stop writes the break character without taking the lock, and takes the
\* program to be stopped at once.
Stop ==
  /\ status = "RUNNING" /\ Call("stop")
  /\ tx' = Append(tx, Break)
  /\ pc' = [pc EXCEPT !["main"] = "stopping"]
  /\ UNCHANGED <<status, cache, lock, queues, cmd, hand, open, rx, stub, timedOut>>
SetStopped ==
  /\ pc["main"] = "stopping"
  /\ status' = "STOPPED"
  /\ pc' = [pc EXCEPT !["main"] = "idle"]
  /\ UNCHANGED <<cache, calls, lock, queues, cmd, hand, open, tx, rx, stub, timedOut>>

\* Mutant: _start forgets the status.
BugSetRunning ==
  /\ pc["main"] = "start"
  /\ pc' = [pc EXCEPT !["main"] = "clear"]
  /\ UNCHANGED <<driver, lock, queues, cmd, hand, open, tx, rx, stub, timedOut>>

\* _start, after the ack of "c" or "s".
SetRunning ==
  /\ pc["main"] = "start"
  /\ status' = "RUNNING"
  /\ pc' = [pc EXCEPT !["main"] = "clear"]
  /\ UNCHANGED <<cache, calls, lock, queues, cmd, hand, open, tx, rx, stub, timedOut>>

\* Mutant: _start leaves the cached registers.
BugClearCache ==
  /\ pc["main"] = "clear"
  /\ pc' = [pc EXCEPT !["main"] = "idle"]
  /\ UNCHANGED <<driver, lock, queues, cmd, hand, open, tx, rx, stub, timedOut>>

ClearCache ==
  /\ pc["main"] = "clear"
  /\ cache' = None
  /\ pc' = [pc EXCEPT !["main"] = "idle"]
  /\ UNCHANGED <<status, calls, lock, queues, cmd, hand, open, tx, rx, stub, timedOut>>

\* disconnect: end the receiving thread, close, then end the stop handler.
Disconnect ==
  /\ Call("disconnect")
  /\ open' = FALSE
  /\ pc' = [pc EXCEPT !["main"] = "join"]
  /\ UNCHANGED <<status, cache, lock, queues, cmd, hand, tx, rx, stub, timedOut>>

\* Mutant: the stop handler is joined without being told to end.
BugJoinReceiver ==
  /\ pc["main"] = "join" /\ pc["receiver"] = "dead"
  /\ pc' = [pc EXCEPT !["main"] = "pill"]
  /\ UNCHANGED <<driver, lock, queues, cmd, hand, open, tx, rx, stub, timedOut>>

JoinReceiver ==
  /\ pc["main"] = "join" /\ pc["receiver"] = "dead"
  /\ stopq' = Append(stopq, StopReply("pill"))
  /\ pc' = [pc EXCEPT !["main"] = "pill"]
  /\ UNCHANGED <<driver, lock, ackq, msgq, cmd, hand, open, tx, rx, stub, timedOut>>
JoinHandler ==
  /\ pc["main"] = "pill" /\ pc["handler"] = "dead"
  /\ pc' = [pc EXCEPT !["main"] = "closed"]
  /\ UNCHANGED <<driver, lock, queues, cmd, hand, open, tx, rx, stub, timedOut>>

-----------------------------------------------------------------------------
(* The stop handler: _handle_stop_queue and _process_stop_status *)

Takes(code) ==
  /\ pc["handler"] = "idle" /\ stopq # <<>> /\ Head(stopq).code = code
  /\ stopq' = Tail(stopq)

EndHandler ==
  /\ Takes("pill")
  /\ pc' = [pc EXCEPT !["handler"] = "dead"]
  /\ UNCHANGED <<driver, lock, ackq, msgq, cmd, hand, open, tx, rx, stub, timedOut>>

\* A signal whose number has none of the bits of BRKPOINT | INTERRUPT.
FaultReply ==
  /\ Takes("fault")
  /\ status' = "RUNNING"
  /\ UNCHANGED <<cache, calls, lock, ackq, msgq, threads, hand, open, tx, rx, stub, timedOut>>

HaltReply ==
  /\ \E code \in {"breakpoint", "interrupt"} : Takes(code)
  /\ pc' = [pc EXCEPT !["handler"] = IF cache = None THEN "send" ELSE "stop"]
  /\ cmd' = [cmd EXCEPT !["handler"] = "g"]
  /\ UNCHANGED <<driver, lock, ackq, msgq, hand, open, tx, rx, stub, timedOut>>

HandlerStops ==
  /\ pc["handler"] = "stop"
  /\ status' = "STOPPED"
  /\ pc' = [pc EXCEPT !["handler"] = "idle"]
  /\ UNCHANGED <<cache, calls, lock, queues, cmd, hand, open, tx, rx, stub, timedOut>>

-----------------------------------------------------------------------------
(* The receiving thread: TCP.recv_thread, _process_byte and _handle_message *)

Take ==
  /\ pc["receiver"] = "loop" /\ hand = None /\ open /\ rx # <<>>
  /\ hand' = IF Head(rx) = Nack THEN None ELSE Head(rx)
  /\ rx' = Tail(rx)
  /\ UNCHANGED <<driver, lock, queues, threads, open, tx, stub, timedOut>>

\* A put waits for a full queue: the one of an ack half a second, after which
\* queue.Full ends the thread, the one of a response for ever.
Deliver ==
  /\ pc["receiver"] = "loop" /\ hand # None /\ Deliverable
  /\ ackq' = IF hand = Ack THEN Append(ackq, hand) ELSE ackq
  /\ msgq' = IF hand.type = "response" THEN Append(msgq, hand) ELSE msgq
  /\ stopq' = IF hand.type = "stop" THEN Append(stopq, hand) ELSE stopq
  /\ hand' = None
  /\ UNCHANGED <<driver, lock, threads, open, tx, rx, stub, timedOut>>

AckQueueFull ==
  /\ pc["receiver"] = "loop" /\ hand = Ack /\ ackq # <<>>
  /\ \A t \in Senders : pc[t] # "ack"
  /\ pc' = [pc EXCEPT !["receiver"] = "dead"]
  /\ UNCHANGED <<driver, lock, queues, cmd, hand, open, tx, rx, stub, timedOut>>

EndReceiver ==
  /\ pc["receiver"] = "loop" /\ hand = None /\ ~open
  /\ pc' = [pc EXCEPT !["receiver"] = "dead"]
  /\ UNCHANGED <<driver, lock, queues, cmd, hand, open, tx, rx, stub, timedOut>>

-----------------------------------------------------------------------------
(* The gdb stub (external): it acknowledges and answers the packets it reads  *)
(* in order, and while the program runs it looks for the break character only *)

StubPacket ==
  /\ tx # <<>> /\ target = "halted" /\ Head(tx).type = "packet"
  /\ LET p == Head(tx)
     IN  /\ tpc' = IF p.cmd \in Resumes \cup Writes THEN tpc + 1 ELSE tpc
         /\ target' = IF p.cmd \in Resumes THEN "running" ELSE "halted"
         /\ rx' = IF p.cmd \in Resumes THEN Append(rx, Ack)
                  ELSE rx \o <<Ack, Response(p, tpc)>>
  /\ tx' = Tail(tx)
  /\ UNCHANGED <<driver, lock, queues, threads, hand, open, nacks, timedOut>>

StubNack ==
  /\ tx # <<>> /\ target = "halted" /\ Head(tx).type = "packet"
  /\ nacks < MaxNacks
  /\ nacks' = nacks + 1
  /\ tx' = Tail(tx)
  /\ rx' = Append(rx, Nack)
  /\ UNCHANGED <<driver, lock, queues, threads, hand, open, target, tpc, timedOut>>

StubBreak ==
  /\ tx # <<>> /\ Head(tx) = Break
  /\ tx' = Tail(tx)
  /\ target' = "halted"
  /\ rx' = IF target = "running" THEN Append(rx, StopReply("interrupt")) ELSE rx
  /\ UNCHANGED <<driver, lock, queues, threads, hand, open, tpc, nacks, timedOut>>

ProgramHalts ==
  /\ target = "running"
  /\ target' = "halted"
  /\ \E code \in StopCodes : rx' = Append(rx, StopReply(code))
  /\ UNCHANGED <<driver, lock, queues, threads, hand, open, tx, tpc, nacks, timedOut>>

-----------------------------------------------------------------------------
UserCalls == \/ Run \/ Step \/ Restart \/ AccessMemory \/ GetRegisters
             \/ SetRegisters \/ GetPc \/ Stop \/ Disconnect

Sends(t) == \/ Sendpkt(t) \/ Acked(t) \/ Receive(t) \/ ReceiveFails(t)
            \/ AckTimeout(t) \/ ResponseTimeout(t)
MainSteps == \/ Sends("main") \/ SetStopped \/ SetRunning \/ ClearCache
             \/ JoinReceiver \/ JoinHandler
HandlerSteps == \/ Sends("handler") \/ SendFails \/ EndHandler
                \/ FaultReply \/ HaltReply \/ HandlerStops
ReceiverSteps == Take \/ Deliver \/ AckQueueFull \/ EndReceiver
StubSteps == StubPacket \/ StubNack \/ StubBreak

Next == \/ UserCalls \/ MainSteps \/ HandlerSteps \/ ReceiverSteps
        \/ StubSteps \/ ProgramHalts

\* The operating system runs every thread that can run, and the stub reads
\* what it is sent; neither the user nor the program has to do anything.
Fairness == /\ WF_vars(MainSteps) /\ WF_vars(HandlerSteps)
            /\ WF_vars(ReceiverSteps) /\ WF_vars(StubSteps)
Spec == Init /\ [][Next]_vars /\ Fairness

-----------------------------------------------------------------------------
(* Properties *)

TypeOK ==
  /\ status \in {"STOPPED", "RUNNING"} /\ target \in {"halted", "running"}
  /\ cache \in {None} \cup 0 .. 2 * MaxCalls + 1
  /\ lock \in {None} \cup Senders
  /\ Len(ackq) <= 1 /\ Len(msgq) <= 1
  /\ pc["receiver"] \in {"loop", "dead"}
  /\ pc["handler"] \in {"idle", "send", "ack", "response", "stop", "dead"}
  /\ pc["main"] \in {"idle", "send", "ack", "response", "start", "clear", "stopping",
                     "join", "pill", "closed"}

\* Until a call has timed out, the "+" in the ack queue or on its way to it is
\* the one of the packet the lock holder has just sent, so that sendpkt never
\* returns on the ack of another packet (rsp.py: one queue, one lock).
AcksOf(s) == {i \in DOMAIN s : s[i] = Ack}
PacketsOf(s) == {i \in DOMAIN s : s[i].type = "packet"}
SendersAt(where) == {t \in Senders : pc[t] = where}
AcksPending == Len(ackq) + Cardinality(AcksOf(rx)) + (IF hand = Ack THEN 1 ELSE 0)
OneAckOutstanding ==
  ~timedOut => /\ AcksPending + Cardinality(PacketsOf(tx)) <= 1
               /\ AcksPending + Cardinality(PacketsOf(tx)) = 1 => lock # None

\* Until a call has timed out, somebody waits for every response: the put of
\* the receiving thread into the full message queue never blocks it for good.
ResponsesOf(s) == {i \in DOMAIN s : s[i].type = "response"}
ResponsesPending == Len(msgq) + Cardinality(ResponsesOf(rx))
                    + (IF hand # None /\ hand.type = "response" THEN 1 ELSE 0)
EveryResponseAwaited ==
  ~timedOut => ResponsesPending <= Cardinality({t \in Senders : /\ pc[t] \in {"ack", "response"}
                                                          /\ cmd[t] \notin Resumes})

\* The receiving thread only dies, unasked, after a call has timed out.
ReceiverLives == pc["receiver"] = "dead" => timedOut \/ ~open

\* Every response reaches the call that asked for it.
OwnResponse ==
  [][\A t \in Senders : Receive(t) => /\ Head(msgq).to = t
                                      /\ Head(msgq).cmd = cmd[t]]_vars

\* When all is quiet, a driver that calls the program stopped is right.
StoppedIsTrue == Settled /\ status = "STOPPED" => target = "halted"

\* ... and so is one that calls it running.
RunningIsTrue == Settled /\ status = "RUNNING" => target = "running"

\* When all is quiet, get_pc of a stopped program returns its program counter.
CachedPcIsTrue == Settled /\ status = "STOPPED" /\ cache # None => cache = tpc

\* Every call of the user returns or raises, whatever the stub and the other
\* threads do.
CallsReturn == pc["main"] \in {"send", "ack", "response", "start", "clear", "stopping"}
                 ~> pc["main"] = "idle"

\* disconnect ends both threads and returns.
Disconnects == pc["main"] = "join" ~> pc["main"] = "closed"
=============================================================================
