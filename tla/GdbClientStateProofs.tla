------------------------- MODULE GdbClientStateProofs -------------------------
(* What the driver holds to be the state of the program: its status and its  *)
(* cached pc.  Both are right when all is quiet, for a user who waits for    *)
(* that before every call; and in any case they are of their type.           *)
EXTENDS GdbClientProofs, SequencesExt

\* What the receiving thread, the two queues of responses and the wire hold.
InFlight == ToSet(rx) \cup ToSet(msgq) \cup ({hand} \ {None})

\* The elements of a sequence, as it grows and shrinks.
LEMMA ElementsOf ==
  ASSUME NEW T, NEW s \in Seq(T)
  PROVE  /\ ToSet(s) \subseteq T
         /\ ToSet(s) = {} <=> s = <<>>
         /\ s # <<>> => Head(s) \in ToSet(s) /\ ToSet(s) = {Head(s)} \cup ToSet(Tail(s))
         /\ \A e \in T : ToSet(Append(s, e)) = ToSet(s) \cup {e}
<1>1. ToSet(s) \subseteq T
  BY ElementOfSeq DEF ToSet
<1>2. ToSet(s) = {} <=> s = <<>>
  BY EmptySeq DEF ToSet
<1>3. ASSUME s # <<>>
      PROVE  Head(s) \in ToSet(s) /\ ToSet(s) = {Head(s)} \cup ToSet(Tail(s))
  <2>1. /\ Tail(s) \in Seq(T) /\ Len(Tail(s)) = Len(s) - 1 /\ Len(s) >= 1
        /\ \A i \in 1 .. Len(Tail(s)) : Tail(s)[i] = s[i + 1]
        /\ Head(s) = s[1]
    BY <1>3, HeadTailProperties, EmptySeq
  <2>2. DOMAIN s = 1 .. Len(s) /\ DOMAIN Tail(s) = 1 .. Len(Tail(s)) /\ Len(s) \in Nat
    BY <2>1, LenProperties
  <2>3. ASSUME NEW x \in ToSet(s) PROVE x \in {Head(s)} \cup ToSet(Tail(s))
    <3>1. PICK i \in 1 .. Len(s) : x = s[i]
      BY <2>2 DEF ToSet
    <3>2. CASE i = 1
      BY <2>1, <3>1, <3>2
    <3>3. CASE i # 1
      <4>1. i - 1 \in 1 .. Len(Tail(s)) /\ (i - 1) + 1 = i
        BY <2>1, <2>2, <3>1, <3>3
      <4>2. x = Tail(s)[i - 1]
        BY <2>1, <3>1, <4>1
      <4> QED
        BY <2>2, <4>1, <4>2 DEF ToSet
    <3> QED
      BY <3>2, <3>3
  <2>4. ASSUME NEW x \in ToSet(Tail(s)) PROVE x \in ToSet(s)
    <3>1. PICK i \in 1 .. Len(Tail(s)) : x = Tail(s)[i]
      BY <2>2 DEF ToSet
    <3>2. i + 1 \in 1 .. Len(s) /\ x = s[i + 1]
      BY <2>1, <2>2, <3>1
    <3> QED
      BY <2>2, <3>2 DEF ToSet
  <2>5. Head(s) \in ToSet(s)
    BY <2>1, <2>2 DEF ToSet
  <2> QED
    BY <2>3, <2>4, <2>5
<1>4. ASSUME NEW e \in T PROVE ToSet(Append(s, e)) = ToSet(s) \cup {e}
  <2>1. /\ DOMAIN Append(s, e) = 1 .. Len(s) + 1 /\ DOMAIN s = 1 .. Len(s) /\ Len(s) \in Nat
        /\ \A i \in 1 .. Len(s) : Append(s, e)[i] = s[i]
        /\ Append(s, e)[Len(s) + 1] = e
    BY AppendProperties, LenProperties
  <2>2. 1 .. Len(s) + 1 = (1 .. Len(s)) \cup {Len(s) + 1}
    BY <2>1
  <2> QED
    BY <2>1, <2>2 DEF ToSet
<1> QED
  BY <1>1, <1>2, <1>3, <1>4

\* The kinds of messages are apart, and none of them is the empty hand.
LEMMA Kinds ==
  /\ Ack \notin Responses \cup Stops /\ Nack \notin {Ack} \cup Responses \cup Stops
  /\ Responses \cap Stops = {}
  /\ Break \notin Packets
  /\ None \notin FromStub
  /\ \A m \in FromStub : m.type = "response" <=> m \in Responses
  /\ \A m \in FromStub : m.type = "stop" <=> m \in Stops
  /\ \A m \in ToStub : m.type = "packet" <=> m \in Packets
BY NoneAssumption DEF Ack, Nack, Responses, Stops, Break, Packets, FromStub, ToStub

-----------------------------------------------------------------------------
(* Types.  Every resumption and every write moves the program counter, and a *)
(* call of the user sends two of them at most.                               *)
Moving == {p \in Packets : p.cmd \in Resumes \cup Writes}
Due == IF pc["main"] = "send"
       THEN IF cmd["main"] = "P" THEN 2 ELSE IF cmd["main"] \in Resumes \cup Writes THEN 1 ELSE 0
       ELSE IF pc["main"] \in {"ack", "response"} /\ cmd["main"] = "P" THEN 1 ELSE 0
Budget == calls \in 0 .. MaxCalls /\ tpc + Count(tx, Moving) + Due <= 2 * calls + 1
PcsPast == /\ \A m \in InFlight \cap Responses : m.pc <= tpc
           /\ cache # None => cache \in 0 .. tpc
DriverTypes ==
  /\ status \in {"STOPPED", "RUNNING"} /\ target \in {"halted", "running"}
  /\ stopq \in Seq(Stops) /\ cmd["handler"] \in {"m", "g"}
  /\ Len(ackq) <= 1 /\ Len(msgq) <= 1
  /\ pc["receiver"] \in {"loop", "dead"}
  /\ pc["handler"] \in {"idle", "send", "ack", "response", "stop", "dead"}
  /\ pc["main"] \in Places \ {"stop", "loop", "dead"}
TypeInv == Typed /\ DriverTypes /\ Budget /\ PcsPast

-----------------------------------------------------------------------------
(* How each step changes what is in flight.                                  *)

\* What is in flight comes from the stub.
LEMMA FlightType ==
  ASSUME Typed
  PROVE  /\ InFlight \subseteq FromStub /\ ToSet(msgq) \subseteq Responses
         /\ \A m \in InFlight \cap Responses : m.to \in Senders /\ m.cmd \in Cmds /\ m.pc \in Nat
<1>1. ToSet(rx) \subseteq FromStub /\ ToSet(msgq) \subseteq Responses
  BY ElementsOf DEF Typed
<1>2. hand \in {None} \cup FromStub
  BY DEF Typed
<1> QED
  BY <1>1, <1>2 DEF InFlight, FromStub, Responses

\* The receiving thread takes a message in hand, or drops a "-".
LEMMA TakeFlight ==
  ASSUME Typed, Take
  PROVE  InFlight' \subseteq InFlight /\ InFlight \ {Nack} \subseteq InFlight'
<1>1. /\ hand = None /\ rx # <<>> /\ rx' = Tail(rx) /\ UNCHANGED msgq
      /\ hand' = IF Head(rx) = Nack THEN None ELSE Head(rx)
  BY DEF Take, queues
<1>2. ToSet(rx) = {Head(rx)} \cup ToSet(rx')
  BY <1>1, ElementsOf DEF Typed
<1>3. InFlight = ToSet(rx) \cup ToSet(msgq) /\ InFlight' = ToSet(rx') \cup ToSet(msgq) \cup ({hand'} \ {None})
  BY <1>1 DEF InFlight
<1>4. Head(rx) \in FromStub /\ None \notin FromStub
  BY <1>1, HeadTailProperties, Kinds DEF Typed
<1> HIDE DEF Nack
<1>5. CASE Head(rx) = Nack
  <2>1. hand' = None
    BY <1>1, <1>5
  <2> QED
    BY <1>2, <1>3, <1>5, <2>1
<1>6. CASE Head(rx) # Nack
  <2>1. hand' = Head(rx) /\ hand' # None
    BY <1>1, <1>4, <1>6
  <2> QED
    BY <1>2, <1>3, <2>1
<1> QED
  BY <1>5, <1>6

\* What it has in hand goes to one of the queues.
LEMMA DeliverFlight ==
  ASSUME Typed, stopq \in Seq(Stops), Deliver
  PROVE  /\ hand \in InFlight /\ hand' = None
         /\ InFlight' \subseteq InFlight /\ InFlight \ {hand} \subseteq InFlight'
         /\ hand \in Stops => stopq' # <<>>
         /\ hand \notin Stops => stopq' = stopq
         /\ stopq' \in Seq(Stops)
         /\ hand = Ack => ackq' # <<>>
         /\ hand # Ack => ackq' = ackq
<1>1. /\ hand # None /\ hand \in FromStub /\ hand' = None /\ UNCHANGED rx
      /\ ackq' = IF hand = Ack THEN Append(ackq, hand) ELSE ackq
      /\ msgq' = IF hand.type = "response" THEN Append(msgq, hand) ELSE msgq
      /\ stopq' = IF hand.type = "stop" THEN Append(stopq, hand) ELSE stopq
  BY DEF Deliver, Typed
<1>2. /\ hand.type = "response" <=> hand \in Responses
      /\ hand.type = "stop" <=> hand \in Stops
  BY <1>1, Kinds
<1>3. ToSet(msgq') = ToSet(msgq) \cup (IF hand \in Responses THEN {hand} ELSE {})
  BY <1>1, <1>2, ElementsOf DEF Typed
<1>4. hand = Ack => ackq' # <<>>
  BY <1>1, AppendProperties DEF Typed
<1>5. hand \in Stops => stopq' \in Seq(Stops) /\ stopq' # <<>>
  BY <1>1, <1>2, AppendProperties
<1>6. ToSet(rx') = ToSet(rx)
  BY <1>1
<1>7. InFlight = ToSet(rx) \cup ToSet(msgq) \cup {hand} /\ InFlight' = ToSet(rx') \cup ToSet(msgq')
  BY <1>1 DEF InFlight
<1>8. InFlight' \subseteq InFlight /\ InFlight \ {hand} \subseteq InFlight' /\ hand \in InFlight
  BY <1>3, <1>6, <1>7
<1> QED
  BY <1>1, <1>2, <1>4, <1>5, <1>8

\* A sender takes the response at the head of the queue.
LEMMA ReceiveFlight ==
  ASSUME Typed, msgq # <<>>, msgq' = Tail(msgq), UNCHANGED <<rx, hand>>
  PROVE  /\ Head(msgq) \in InFlight \cap Responses
         /\ InFlight' \subseteq InFlight /\ InFlight \ Responses \subseteq InFlight'
<1>1. ToSet(msgq) = {Head(msgq)} \cup ToSet(msgq') /\ ToSet(msgq) \subseteq Responses
  BY ElementsOf DEF Typed
<1>2. ToSet(rx') = ToSet(rx)
  OBVIOUS
<1>3. InFlight' = ToSet(rx') \cup ToSet(msgq') \cup ({hand} \ {None})
  BY DEF InFlight
<1> QED
  BY <1>1, <1>2, <1>3 DEF InFlight

\* The stub writes to the wire.
LEMMA WriteFlight ==
  ASSUME Typed, UNCHANGED <<msgq, hand>>, NEW e \in FromStub
  PROVE  /\ rx' = Append(rx, e) => InFlight' = InFlight \cup {e}
         /\ \A d \in FromStub : rx' = rx \o <<d, e>> => InFlight' = InFlight \cup {d, e}
<1>1. ToSet(msgq') = ToSet(msgq)
  OBVIOUS
<1>2. InFlight' = ToSet(rx') \cup ToSet(msgq') \cup ({hand} \ {None})
  BY DEF InFlight
<1>3. rx' = Append(rx, e) => ToSet(rx') = ToSet(rx) \cup {e}
  BY ElementsOf DEF Typed
<1>4. ASSUME NEW d \in FromStub, rx' = rx \o <<d, e>> PROVE ToSet(rx') = ToSet(rx) \cup {d, e}
  <2>1. Append(rx, d) \in Seq(FromStub) /\ rx' = Append(Append(rx, d), e)
    BY <1>4, AppendProperties DEF Typed
  <2>2. ToSet(Append(rx, d)) = ToSet(rx) \cup {d}
    BY ElementsOf DEF Typed
  <2>3. ToSet(Append(Append(rx, d), e)) = ToSet(Append(rx, d)) \cup {e}
    BY <2>1, ElementsOf
  <2> QED
    BY <2>1, <2>2, <2>3
<1> QED
  BY <1>1, <1>2, <1>3, <1>4 DEF InFlight

-----------------------------------------------------------------------------
(* The types, for every step.                                                *)

\* The steps, the calls that start with sendpkt and the two senders taken together.
LEMMA NextSteps ==
  Next => \/ \E name, c : Issue(name, c)
          \/ Stop \/ Disconnect
          \/ \E t \in Senders : Sends(t)
          \/ SetStopped \/ SetRunning \/ ClearCache \/ JoinReceiver \/ JoinHandler
          \/ SendFails \/ EndHandler \/ FaultReply \/ HaltReply \/ HandlerStops
          \/ ReceiverSteps \/ StubSteps \/ ProgramHalts
  BY DEF Next, UserCalls, Run, Step, Restart, AccessMemory, GetRegisters, SetRegisters, GetPc,
     MainSteps, HandlerSteps, Senders

\* The driver starts in the types.
LEMMA InitTypeInv == Init => TypeInv
<1> SUFFICES ASSUME Init PROVE TypeInv
  OBVIOUS
<1>1. /\ tx = <<>> /\ rx = <<>> /\ ackq = <<>> /\ msgq = <<>> /\ stopq = <<>> /\ hand = None
      /\ pc = [main |-> "idle", handler |-> "idle", receiver |-> "loop"]
      /\ cmd = [t \in Senders |-> "m"] /\ cache = None /\ tpc = 1 /\ calls = 0
      /\ status = "RUNNING" /\ target = "running"
  BY DEF Init
<1>2. Typed
  BY InitTyped
<1>3. DriverTypes
  BY <1>1, EmptySeq DEF DriverTypes, Senders, Places
<1>4. Count(tx, Moving) = 0 /\ Due = 0
  BY <1>1, CountEmpty DEF Due
<1>5. Budget
  BY <1>1, <1>4, ConstantsAssumption DEF Budget
<1>6. InFlight = {}
  BY <1>1 DEF InFlight, ToSet
<1>7. PcsPast
  BY <1>1, <1>6 DEF PcsPast
<1> QED
  BY <1>2, <1>3, <1>5, <1>7 DEF TypeInv

\* The queues of one hold at most one, the stop handler only ever asks for the
\* registers, and every thread is where its code can be.
LEMMA StepDriverTypes ==
  ASSUME Typed, DriverTypes, [Next]_vars
  PROVE  DriverTypes'
<1> USE DEF Typed, DriverTypes, Threads, Senders, Places
<1>1. /\ stopq # <<>> => Tail(stopq) \in Seq(Stops)
      /\ \A code \in {"pill", "breakpoint", "fault", "interrupt"} :
           Append(stopq, StopReply(code)) \in Seq(Stops)
  BY HeadTailProperties, AppendProperties DEF StopReply, Stops
<1>2. /\ ackq # <<>> => Len(Tail(ackq)) <= 1
      /\ msgq # <<>> => Len(Tail(msgq)) <= 1
  BY HeadTailProperties, LenProperties
<1>3. CASE UNCHANGED vars
  BY <1>3 DEF vars, driver, queues, threads, stub
<1>4. CASE \E name, c : Issue(name, c)
  BY <1>4 DEF Issue, Call, queues, stub
<1>5. CASE Stop \/ Disconnect
  BY <1>5 DEF Stop, Disconnect, Call, queues, stub
<1>6. ASSUME NEW t \in Senders, Sends(t) PROVE DriverTypes'
  <2>1. CASE Sendpkt(t)
    BY <2>1 DEF Sendpkt, driver, queues, stub
  <2>2. CASE Acked(t)
    BY <1>2, <2>2 DEF Acked, driver, stub, Resumes
  <2>3. CASE Receive(t)
    BY <1>2, <2>3 DEF Receive, AfterResponse, stub
  <2>4. CASE ReceiveFails(t)
    BY <1>2, <2>4 DEF ReceiveFails, Raised, driver, stub
  <2>5. CASE AckTimeout(t) \/ ResponseTimeout(t)
    BY <2>5 DEF AckTimeout, ResponseTimeout, TimesOut, Raised, driver, queues, stub
  <2> QED
    BY <1>6, <2>1, <2>2, <2>3, <2>4, <2>5 DEF Sends
<1>7. CASE SetStopped \/ SetRunning \/ ClearCache \/ JoinReceiver \/ JoinHandler
  BY <1>1, <1>7 DEF SetStopped, SetRunning, ClearCache, JoinReceiver, JoinHandler, driver,
     queues, stub
<1>8. CASE SendFails \/ EndHandler \/ FaultReply \/ HaltReply \/ HandlerStops
  <2>1. CASE SendFails
    BY <2>1 DEF SendFails, driver, queues, stub
  <2>2. CASE EndHandler \/ FaultReply
    BY <1>1, <2>2 DEF EndHandler, FaultReply, Takes, driver, threads, stub
  <2>3. CASE HaltReply
    BY <1>1, <2>3 DEF HaltReply, Takes, driver, stub
  <2>4. CASE HandlerStops
    BY <2>4 DEF HandlerStops, queues, stub
  <2> QED
    BY <1>8, <2>1, <2>2, <2>3, <2>4
<1>9. CASE Deliver
  <2>1. stopq' \in Seq(Stops)
    BY <1>9, DeliverFlight
  <2>2. Len(ackq') <= 1 /\ Len(msgq') <= 1
    <3>1. /\ hand # None
          /\ hand = Ack => ackq = <<>>
          /\ hand # None /\ hand.type = "response" => msgq = <<>>
          /\ ackq' = IF hand = Ack THEN Append(ackq, hand) ELSE ackq
          /\ msgq' = IF hand.type = "response" THEN Append(msgq, hand) ELSE msgq
      BY <1>9 DEF Deliver, Deliverable
    <3>2. Len(Append(<<>>, hand)) = 1
      BY AppendProperties, EmptySeq
    <3> QED
      BY <3>1, <3>2
  <2> QED
    BY <1>9, <2>1, <2>2 DEF Deliver, driver, threads, stub
<1>10. CASE Take \/ AckQueueFull \/ EndReceiver
  BY <1>10 DEF Take, AckQueueFull, EndReceiver, driver, queues, threads, stub
<1>11. CASE StubSteps \/ ProgramHalts
  BY <1>11 DEF StubSteps, StubPacket, StubNack, StubBreak, ProgramHalts, driver, queues, threads
<1> QED
  BY <1>3, <1>4, <1>5, <1>6, <1>7, <1>8, <1>9, <1>10, <1>11, NextSteps DEF ReceiverSteps

\* No response and no cached pc is of a point the program has not reached.
LEMMA PcsPastFrom ==
  ASSUME Typed, PcsPast, tpc' \in Nat, tpc <= tpc',
         cache' = cache \/ cache' = None \/ cache' \in 0 .. tpc,
         \A m \in InFlight' \cap Responses : m \in InFlight \/ m.pc = tpc
  PROVE  PcsPast'
<1>1. tpc \in Nat
  BY DEF Typed
<1>2. ASSUME NEW m \in InFlight' \cap Responses PROVE m.pc <= tpc'
  <2>1. m.pc \in Nat
    BY DEF Responses
  <2> QED
    BY <1>1, <1>2, <2>1 DEF PcsPast
<1>3. cache' # None => cache' \in 0 .. tpc'
  BY <1>1 DEF PcsPast
<1> QED
  BY <1>2, <1>3 DEF PcsPast

\* Only the stub moves the program counter, and only a response is cached.
LEMMA StepPcsPast ==
  ASSUME Typed, DriverTypes, PcsPast, [Next]_vars
  PROVE  PcsPast'
<1>1. tpc \in Nat
  BY DEF Typed
<1>2. ASSUME UNCHANGED <<rx, hand, msgq, tpc>>, cache' = cache \/ cache' = None PROVE PcsPast'
  <2>1. InFlight' = InFlight
    BY <1>2 DEF InFlight
  <2> QED
    BY <1>1, <1>2, <2>1, PcsPastFrom
<1>3. ASSUME NEW t \in Senders, Sends(t) PROVE PcsPast'
  <2>1. CASE Sendpkt(t) \/ Acked(t) \/ AckTimeout(t) \/ ResponseTimeout(t)
    BY <1>2, <2>1 DEF Sendpkt, Acked, AckTimeout, ResponseTimeout, TimesOut, driver, queues, stub
  <2>2. CASE Receive(t) \/ ReceiveFails(t)
    <3>1. msgq # <<>> /\ msgq' = Tail(msgq) /\ UNCHANGED <<rx, hand, tpc>>
      BY <2>2 DEF Receive, ReceiveFails, stub
    <3>2. Head(msgq) \in InFlight \cap Responses /\ InFlight' \subseteq InFlight
      BY <3>1, ReceiveFlight
    <3>3. Head(msgq).pc \in 0 .. tpc
      BY <1>1, <3>2 DEF PcsPast, Responses
    <3>4. cache' = cache \/ cache' \in 0 .. tpc
      BY <1>1, <2>2, <3>3 DEF Receive, ReceiveFails, Decoded, driver
    <3> QED
      BY <1>1, <3>1, <3>2, <3>4, PcsPastFrom
  <2> QED
    BY <1>3, <2>1, <2>2 DEF Sends
<1>4. CASE Take \/ Deliver
  <2>1. InFlight' \subseteq InFlight
    BY <1>4, TakeFlight, DeliverFlight DEF DriverTypes
  <2>2. UNCHANGED <<cache, tpc>>
    BY <1>4 DEF Take, Deliver, driver, stub
  <2> QED
    BY <1>1, <2>1, <2>2, PcsPastFrom
<1>5. CASE StubPacket
  <2> DEFINE p == Head(tx)
  <2>1. p \in Packets
    <3>1. p \in ToStub /\ p.type = "packet"
      BY <1>5, HeadTailProperties DEF StubPacket, Typed
    <3> QED
      BY <3>1, Kinds
  <2>2. /\ rx' = (IF p.cmd \in Resumes THEN Append(rx, Ack) ELSE rx \o <<Ack, Response(p, tpc)>>)
        /\ tpc' \in {tpc, tpc + 1} /\ UNCHANGED <<msgq, hand, cache>>
    BY <1>5 DEF StubPacket, driver, queues
  <2>3. Ack \in FromStub /\ Response(p, tpc) \in FromStub /\ Response(p, tpc).pc = tpc
    BY <1>1, <2>1 DEF FromStub, Response, Responses, Packets
  <2>4. InFlight' \subseteq InFlight \cup {Ack, Response(p, tpc)}
    <3> HIDE DEF p
    <3> QED
      BY <2>2, <2>3, WriteFlight
  <2>5. \A m \in InFlight' \cap Responses : m \in InFlight \/ m.pc = tpc
    BY <2>3, <2>4, Kinds
  <2> QED
    BY <1>1, <2>2, <2>5, PcsPastFrom
<1>6. CASE StubNack \/ StubBreak \/ ProgramHalts
  <2>1. UNCHANGED <<msgq, hand, cache, tpc>>
    BY <1>6 DEF StubNack, StubBreak, ProgramHalts, driver, queues
  <2>2. rx' = rx \/ \E e \in {Nack} \cup Stops : rx' = Append(rx, e)
    <3>1. \A code \in StopCodes \cup {"interrupt"} : StopReply(code) \in Stops
      BY ConstantsAssumption DEF StopReply, Stops
    <3> QED
      BY <1>6, <3>1 DEF StubNack, StubBreak, ProgramHalts
  <2>3. CASE rx' = rx
    BY <1>2, <2>1, <2>3
  <2>4. ASSUME NEW e \in {Nack} \cup Stops, rx' = Append(rx, e) PROVE PcsPast'
    <3>1. e \in FromStub /\ e \notin Responses
      BY Kinds DEF FromStub
    <3>2. InFlight' = InFlight \cup {e}
      BY <2>1, <2>4, <3>1, WriteFlight
    <3> QED
      BY <1>1, <2>1, <3>1, <3>2, PcsPastFrom
  <2> QED
    BY <2>2, <2>3, <2>4
<1>7. CASE UNCHANGED vars
  BY <1>2, <1>7 DEF vars, driver, queues, stub
<1>8. CASE (\E name, c : Issue(name, c)) \/ Stop \/ Disconnect
  BY <1>2, <1>8 DEF Issue, Stop, Disconnect, queues, stub
<1>9. CASE SetStopped \/ SetRunning \/ ClearCache \/ JoinReceiver \/ JoinHandler
  BY <1>2, <1>9 DEF SetStopped, SetRunning, ClearCache, JoinReceiver, JoinHandler, driver,
     queues, stub
<1>10. CASE SendFails \/ EndHandler \/ FaultReply \/ HaltReply \/ HandlerStops
  BY <1>2, <1>10 DEF SendFails, EndHandler, FaultReply, HaltReply, HandlerStops, driver,
     queues, stub
<1>11. CASE AckQueueFull \/ EndReceiver
  BY <1>2, <1>11 DEF AckQueueFull, EndReceiver, driver, queues, stub
<1> QED
  BY <1>3, <1>4, <1>5, <1>6, <1>7, <1>8, <1>9, <1>10, <1>11, NextSteps
  DEF ReceiverSteps, StubSteps

\* A call has at most two moves of the program counter to its account: those
\* made, those on the wire and those it is still to send.
LEMMA StepBudget ==
  ASSUME Typed, DriverTypes, Budget, [Next]_vars
  PROVE  Budget'
<1>1. /\ tpc \in Nat /\ Count(tx, Moving) \in Nat /\ calls \in Nat /\ calls <= MaxCalls
      /\ MaxCalls \in Nat /\ Due \in 0 .. 2 /\ Due' \in 0 .. 2
      /\ tpc + Count(tx, Moving) + Due <= 2 * calls + 1
  BY CountType, ConstantsAssumption DEF Typed, Budget, Due
<1>2. ASSUME UNCHANGED <<tx, tpc, calls>>, Due' <= Due PROVE Budget'
  BY <1>1, <1>2 DEF Budget
<1>3. ASSUME pc'["main"] = pc["main"], cmd'["main"] = cmd["main"] PROVE Due' = Due
  BY <1>3 DEF Due
<1>4. ASSUME NEW name, NEW c, Issue(name, c) PROVE Budget'
  <2>1. pc["main"] = "idle" /\ calls < MaxCalls /\ calls' = calls + 1 /\ UNCHANGED <<tx, tpc>>
    BY <1>4 DEF Issue, Call, stub
  <2>2. Due = 0
    BY <2>1 DEF Due
  <2> QED
    BY <1>1, <2>1, <2>2 DEF Budget
<1>5. CASE Stop
  <2>1. /\ pc["main"] = "idle" /\ calls < MaxCalls /\ calls' = calls + 1
        /\ tx' = Append(tx, Break) /\ UNCHANGED tpc
    BY <1>5 DEF Stop, Call, stub
  <2>2. Break \in ToStub /\ Break \notin Moving
    BY Kinds DEF ToStub, Moving
  <2>3. Count(tx', Moving) = Count(tx, Moving)
    BY <1>1, <2>1, <2>2, CountAppend DEF Typed, One
  <2>4. Due = 0
    BY <2>1 DEF Due
  <2> QED
    BY <1>1, <2>1, <2>3, <2>4 DEF Budget
<1>6. CASE Disconnect
  BY <1>1, <1>6 DEF Disconnect, Call, stub, Budget, Due, Typed, Threads, Senders
<1>7. ASSUME NEW t \in Senders, Sends(t) PROVE Budget'
  <2>1. CASE Sendpkt(t)
    <3>1. /\ pc[t] = "send" /\ pc' = [pc EXCEPT ![t] = "ack"] /\ tx' = Append(tx, Packet(t))
          /\ UNCHANGED <<cmd, tpc, calls>>
      BY <2>1 DEF Sendpkt, driver, stub
    <3>2. /\ Packet(t) \in ToStub
          /\ Packet(t) \in Moving <=> cmd[t] \in Resumes \cup Writes
      BY DEF Packet, Packets, ToStub, Moving, Typed
    <3>3. Count(tx', Moving) = Count(tx, Moving) + One(Packet(t), Moving)
      BY <3>1, <3>2, CountAppend DEF Typed
    <3>4. Due' + One(Packet(t), Moving) <= Due
      <4>1. CASE t = "main"
        <5>1. pc["main"] = "send" /\ pc'["main"] = "ack" /\ cmd' = cmd
          BY <3>1, <4>1 DEF Typed, Threads
        <5> QED
          BY <3>2, <4>1, <5>1 DEF Due, One, Resumes, Writes
      <4>2. CASE t = "handler"
        <5>1. pc'["main"] = pc["main"] /\ cmd' = cmd
          BY <3>1, <4>2 DEF Typed, Threads
        <5>2. cmd[t] \notin Resumes \cup Writes
          BY <4>2 DEF DriverTypes, Resumes, Writes
        <5> QED
          BY <1>1, <1>3, <3>2, <5>1, <5>2 DEF One
      <4> QED
        BY <4>1, <4>2 DEF Senders
    <3>5. One(Packet(t), Moving) \in 0 .. 1
      BY DEF One
    <3> QED
      BY <1>1, <3>1, <3>3, <3>4, <3>5 DEF Budget
  <2>2. CASE ~Sendpkt(t)
    <3>1. UNCHANGED <<tx, tpc, calls>>
      BY <1>7, <2>2 DEF Sends, Acked, Receive, ReceiveFails, AckTimeout, ResponseTimeout,
         TimesOut, driver, stub
    <3>2. CASE t = "main"
      <4>1. CASE Acked(t) \/ ReceiveFails(t) \/ AckTimeout(t) \/ ResponseTimeout(t)
        <5>1. pc'["main"] \notin {"send", "ack"} /\ cmd' = cmd
              /\ (pc'["main"] = "response" => pc["main"] = "ack")
          BY <3>2, <4>1 DEF Acked, ReceiveFails, Raised, AckTimeout, ResponseTimeout, TimesOut,
             Typed, Threads, Senders
        <5>2. Due' <= Due
          BY <1>1, <5>1 DEF Due
        <5> QED
          BY <1>2, <3>1, <5>2
      <4>2. CASE Receive(t)
        <5>1. /\ pc["main"] = "response"
              /\ pc'["main"] = (IF cmd["main"] = "P" THEN "send" ELSE "idle")
              /\ cmd'["main"] = (IF cmd["main"] = "P" THEN "c" ELSE cmd["main"])
          BY <3>2, <4>2 DEF Receive, AfterResponse, Typed, Threads, Senders
        <5>2. Due' <= Due
          BY <5>1 DEF Due, Resumes, Writes
        <5> QED
          BY <1>2, <3>1, <5>2
      <4> QED
        BY <1>7, <2>2, <4>1, <4>2 DEF Sends
    <3>3. CASE t = "handler"
      <4>1. pc'["main"] = pc["main"] /\ cmd'["main"] = cmd["main"]
        BY <1>7, <2>2, <3>3 DEF Sends, Acked, Receive, ReceiveFails, Raised, AckTimeout,
           ResponseTimeout, TimesOut, Typed, Threads, Senders
      <4> QED
        BY <1>1, <1>2, <1>3, <3>1, <4>1
    <3> QED
      BY <3>2, <3>3 DEF Senders
  <2> QED
    BY <2>1, <2>2
<1>8. CASE SetStopped \/ SetRunning \/ ClearCache \/ JoinReceiver \/ JoinHandler
  <2>1. UNCHANGED <<tx, tpc, calls>> /\ pc'["main"] \notin {"send", "ack", "response"}
    BY <1>8 DEF SetStopped, SetRunning, ClearCache, JoinReceiver, JoinHandler, driver, stub,
       Typed, Threads, Senders
  <2>2. Due' = 0
    BY <2>1 DEF Due
  <2> QED
    BY <1>1, <1>2, <2>1, <2>2
<1>9. CASE \/ SendFails \/ EndHandler \/ FaultReply \/ HaltReply \/ HandlerStops
           \/ ReceiverSteps \/ UNCHANGED vars
  <2>1. UNCHANGED <<tx, tpc, calls>> /\ pc'["main"] = pc["main"] /\ cmd'["main"] = cmd["main"]
    BY <1>9 DEF SendFails, EndHandler, FaultReply, HaltReply, HandlerStops, ReceiverSteps, Take,
       Deliver, AckQueueFull, EndReceiver, vars, driver, threads, stub, Typed, Threads, Senders
  <2> QED
    BY <1>1, <1>2, <1>3, <2>1
<1>10. CASE StubSteps
  <2> DEFINE p == Head(tx)
  <2>1. /\ tx # <<>> /\ tx' = Tail(tx) /\ UNCHANGED <<pc, cmd, calls>>
        /\ \/ tpc' = tpc
           \/ StubPacket /\ p.cmd \in Resumes \cup Writes /\ tpc' = tpc + 1
    <3>1. CASE StubPacket
      BY <3>1 DEF StubPacket, driver, threads
    <3>2. CASE StubNack \/ StubBreak
      BY <3>2 DEF StubNack, StubBreak, driver, threads
    <3> QED
      BY <1>10, <3>1, <3>2 DEF StubSteps
  <2>2. Count(tx, Moving) = Count(tx', Moving) + One(p, Moving)
    BY <2>1, CountTail DEF Typed
  <2>3. tx' \in Seq(ToStub) /\ p \in ToStub
    BY <2>1, HeadTailProperties DEF Typed
  <2>4. Count(tx', Moving) \in Nat /\ One(p, Moving) \in 0 .. 1
    BY <2>3, CountType DEF One
  <2>5. StubPacket /\ p.cmd \in Resumes \cup Writes => p \in Moving
    BY <2>3, Kinds DEF StubPacket, Moving
  <2>6. tpc' <= tpc + One(p, Moving) /\ tpc' \in Nat
    BY <1>1, <2>1, <2>4, <2>5 DEF One
  <2>7. Due' = Due
    BY <1>3, <2>1
  <2> QED
    BY <1>1, <2>1, <2>2, <2>4, <2>6, <2>7 DEF Budget
<1>11. CASE ProgramHalts
  <2>1. UNCHANGED <<tx, tpc, calls, pc, cmd>>
    BY <1>11 DEF ProgramHalts, driver, threads
  <2> QED
    BY <1>1, <1>2, <1>3, <2>1
<1> QED
  BY <1>4, <1>5, <1>6, <1>7, <1>8, <1>9, <1>10, <1>11, NextSteps

\* The types always hold.
LEMMA SpecTypeInv == Spec => []TypeInv
<1>1. TypeInv /\ [Next]_vars => TypeInv'
  BY StepTyped, StepDriverTypes, StepBudget, StepPcsPast DEF TypeInv
<1> QED
  BY <1>1, InitTypeInv, PTL DEF Spec

\* Queues of one, threads where their code can be, and no program counter that
\* the calls so far cannot have brought about.
THEOREM TypesHold == Spec => []TypeOK
<1>1. TypeInv => TypeOK
  <2> SUFFICES ASSUME TypeInv PROVE TypeOK
    OBVIOUS
  <2>1. tpc \in Nat /\ Count(tx, Moving) \in Nat /\ Due \in 0 .. 2
    BY CountType DEF TypeInv, Typed, Due
  <2>2. tpc <= 2 * MaxCalls + 1
    BY <2>1, ConstantsAssumption DEF TypeInv, Budget
  <2>3. cache \in {None} \cup 0 .. 2 * MaxCalls + 1
    BY <2>1, <2>2, ConstantsAssumption DEF TypeInv, PcsPast
  <2> QED
    BY <2>3 DEF TypeInv, Typed, DriverTypes, TypeOK, Places
<1> QED
  BY <1>1, SpecTypeInv, PTL

-----------------------------------------------------------------------------
(* The user who waits.                                                       *)
Connected == pc["main"] \notin {"join", "pill", "closed"}
MainBusy == \/ pc["main"] = "send"
            \/ pc["main"] \in {"ack", "response"} /\ cmd["main"] \notin Resumes
            \/ \E p \in ToSet(tx) \cap Packets : p.from = "main"
StopComing == \/ pc["handler"] \in {"send", "ack", "response", "stop"}
              \/ InFlight \cap Stops # {}
              \/ stopq # <<>>
AckComing == Ack \in InFlight \/ ackq # <<>>

\* A packet on the wire is that of a thread in sendpkt,
PacketsCurrent == \A p \in ToSet(tx) \cap Packets : pc[p.from] = "ack" /\ cmd[p.from] = p.cmd
\* ... a response that of the thread that waits for it, read from the program as it is,
ResponsesCurrent ==
  \A m \in InFlight \cap Responses : /\ pc[m.to] \in {"ack", "response"} /\ cmd[m.to] = m.cmd
                                     /\ m.cmd \notin Resumes
                                     /\ m.cmd \notin Writes => m.pc = tpc
                                     /\ pc[m.to] = "ack" => AckComing
\* ... of which there is no other while the user's thread is in sendpkt,
HandlerWaits == pc["main"] = "ack" => pc["handler"] # "response"
\* ... and while a call talks to the stub the program is halted and nothing else goes on.
MainAlone == MainBusy => ~StopComing /\ target = "halted" /\ status = "STOPPED"
\* A stop reply on its way is that of the halt the program is in.
StopsHalted == StopComing => target = "halted"
\* A running program that is called stopped is about to be called running, or to be stopped.
RunningSoon == target = "running" /\ status = "STOPPED" =>
  \/ Break \in ToSet(tx)
  \/ pc["main"] = "start"
  \/ pc["main"] = "ack" /\ cmd["main"] \in Resumes /\ AckComing
BreakSent == pc["main"] = "stopping" => target = "halted" \/ Break \in ToSet(tx)
Orderly == /\ open /\ pc["receiver"] = "loop"
           /\ PacketsCurrent /\ ResponsesCurrent /\ HandlerWaits /\ MainAlone /\ StopsHalted
           /\ RunningSoon /\ BreakSent
PatientInv == Connected => InStep /\ Orderly

\* A cached pc is the program's, or will be dropped by the _start under way.
CacheCurrent == cache # None => \/ cache = tpc
                                \/ pc["main"] \in {"start", "clear"}
                                \/ pc["main"] = "ack" /\ cmd["main"] \in Resumes /\ AckComing
CacheInv == Connected => CacheCurrent /\ cmd["main"] \notin Writes

\* What the counts of GdbClientProofs say of the sets here.
LEMMA CountNone ==
  ASSUME NEW T, NEW s \in Seq(T), NEW S
  PROVE  Count(s, S) = 0 <=> ToSet(s) \cap S = {}
<1>1. IsFiniteSet(Positions(s, S))
  BY CountType
<1>2. Count(s, S) = 0 <=> Positions(s, S) = {}
  BY <1>1, FS_EmptySet DEF Count
<1>3. Positions(s, S) = {} <=> ToSet(s) \cap S = {}
  BY DEF Positions, ToSet
<1> QED
  BY <1>2, <1>3

\* One ack at a time: an ack in the queue leaves no packet on the wire, and one
\* packet on the wire no other.
LEMMA OnePacket ==
  ASSUME Typed, InStep
  PROVE  /\ ackq # <<>> => ToSet(tx) \cap Packets = {}
         /\ tx # <<>> /\ Head(tx) \in Packets => ToSet(Tail(tx)) \cap Packets = {}
         /\ ToSet(tx) \cap Packets # {} => lock # None
         /\ ~(hand = Ack /\ ackq # <<>>)
<1>1. /\ Len(ackq) \in Nat /\ Count(rx, {Ack}) \in Nat /\ Count(tx, Packets) \in Nat
      /\ One(hand, {Ack}) \in 0 .. 1 /\ (hand = Ack => One(hand, {Ack}) = 1)
      /\ Acks = Len(ackq) + Count(rx, {Ack}) + One(hand, {Ack}) + Count(tx, Packets)
      /\ Acks <= 1 /\ (Acks = 1 => lock # None)
  BY CountsType DEF InStep, AckSound, Acks, One
<1>2. ackq # <<>> => Len(ackq) >= 1
  BY <1>1, EmptySeq DEF Typed
<1>3. Count(tx, Packets) = 0 <=> ToSet(tx) \cap Packets = {}
  BY CountNone DEF Typed
<1>4. ASSUME tx # <<>>, Head(tx) \in Packets PROVE ToSet(Tail(tx)) \cap Packets = {}
  <2>1. Count(tx, Packets) = Count(Tail(tx), Packets) + 1
    BY <1>4, CountTail DEF Typed, One
  <2>2. Tail(tx) \in Seq(ToStub) /\ Count(Tail(tx), Packets) \in Nat
    BY <1>4, HeadTailProperties, CountType DEF Typed
  <2>3. Count(Tail(tx), Packets) = 0
    BY <1>1, <2>1, <2>2
  <2> QED
    BY <2>2, <2>3, CountNone
<1> QED
  BY <1>1, <1>2, <1>3, <1>4

\* The user's thread and the stop handler never wait for a response together.
LEMMA OneWaits ==
  ASSUME Typed, DriverTypes, InStep, Orderly
  PROVE  /\ \A t, u \in Senders : /\ pc[t] = "response"
                                  /\ pc[u] \in {"ack", "response"} /\ cmd[u] \notin Resumes
                                  => u = t
         /\ Waits("main") + Waits("handler") <= 1
         /\ \A t \in Senders : pc[t] = "response" => ToSet(tx) \cap Packets = {}
<1>1. pc["main"] \in {"ack", "response"} /\ cmd["main"] \notin Resumes
        => pc["handler"] \notin {"send", "ack", "response", "stop"}
  BY DEF Orderly, MainAlone, MainBusy, StopComing
<1>2. \A t \in Senders : pc[t] = "response" => cmd[t] \notin Resumes
  BY DEF InStep, AskSound
<1>3. ASSUME NEW t \in Senders, pc[t] = "response", NEW p \in ToSet(tx) \cap Packets PROVE FALSE
  <2>1. pc[p.from] = "ack" /\ p.from \in Senders
    BY <1>3 DEF Orderly, PacketsCurrent, Packets
  <2>2. CASE t = "main"
    BY <1>1, <1>2, <1>3, <2>1, <2>2 DEF Senders
  <2>3. CASE t = "handler"
    <3>1. p.from = "main"
      BY <1>3, <2>1, <2>3 DEF Senders
    <3>2. MainBusy /\ StopComing
      BY <1>3, <2>3, <3>1 DEF MainBusy, StopComing
    <3> QED
      BY <3>2 DEF Orderly, MainAlone
  <2> QED
    BY <2>2, <2>3 DEF Senders
<1> QED
  BY <1>1, <1>2, <1>3 DEF Senders, Waits

\* Nothing answers a thread that gives up: the wires and the hand of the
\* receiving thread are empty, so that what it waited for was lost on the way.
LEMMA Drained ==
  ASSUME Typed, DriverTypes, InStep, Orderly, NEW t \in Senders,
         AckTimeout(t) \/ ResponseTimeout(t)
  PROVE  /\ ToSet(tx) \cap Packets = {} /\ rx = <<>> /\ hand = None
         /\ AckTimeout(t) => Acks = 0 /\ ~AckComing
         /\ Replies = 0
<1>1. /\ Quiet
      /\ AckTimeout(t) => pc[t] = "ack" /\ ackq = <<>>
      /\ ResponseTimeout(t) => pc[t] = "response" /\ msgq = <<>>
  BY DEF AckTimeout, ResponseTimeout, TimesOut
<1>2. ToSet(tx) \cap Packets = {}
  <2> SUFFICES ASSUME NEW p \in ToSet(tx) \cap Packets PROVE FALSE
    OBVIOUS
  <2>1. pc[p.from] = "ack" /\ p.from \in Senders /\ p.cmd = cmd[p.from]
    BY DEF Orderly, PacketsCurrent, Packets
  <2>2. target = "halted"
    <3>1. CASE p.from = "main"
      BY <3>1 DEF Orderly, MainAlone, MainBusy
    <3>2. CASE p.from = "handler"
      BY <2>1, <3>2 DEF Orderly, StopsHalted, StopComing
    <3> QED
      BY <2>1, <3>1, <3>2 DEF Senders
  <2>3. tx # <<>>
    BY ElementsOf DEF Typed
  <2> QED
    BY <1>1, <2>2, <2>3 DEF Quiet, StubReady
<1>3. ~Deliverable
  BY <1>1 DEF Quiet, ReceiverReady, Orderly
<1>4. /\ Len(ackq) \in Nat /\ Len(msgq) \in Nat /\ Count(rx, Responses) \in Nat
      /\ Count(tx, Asking) \in Nat /\ InHand \in 0 .. 1
      /\ Replies = Len(msgq) + Count(rx, Responses) + InHand + Count(tx, Asking)
      /\ Replies <= 1
  <2>1. Replies <= Waits("main") + Waits("handler") /\ Waits("main") + Waits("handler") <= 1
    BY OneWaits DEF InStep, ReplySound
  <2>2. Waits("main") \in Nat /\ Waits("handler") \in Nat
    BY DEF Waits
  <2> QED
    BY <2>1, <2>2, CountsType DEF Replies
<1>5. hand = None /\ rx = <<>>
  <2>1. \/ hand = Ack /\ ackq # <<>>
        \/ hand # None /\ hand.type = "response" /\ msgq # <<>>
        \/ hand = None /\ rx = <<>>
    BY <1>3 DEF Deliverable, Orderly
  <2>2. ~(hand # None /\ hand.type = "response" /\ msgq # <<>>)
    <3>1. msgq # <<>> => Len(msgq) >= 1
      BY <1>4, EmptySeq DEF Typed
    <3> QED
      BY <1>4, <3>1 DEF InHand
  <2> QED
    BY <2>1, <2>2, OnePacket
<1>6. AckTimeout(t) => ~AckComing
  <2> SUFFICES ASSUME AckTimeout(t) PROVE ~AckComing
    OBVIOUS
  <2>1. InFlight = ToSet(msgq) /\ ToSet(msgq) \subseteq Responses
    <3>1. ToSet(rx) = {}
      BY <1>5, ElementsOf DEF Typed
    <3> QED
      BY <1>5, <3>1, ElementsOf DEF InFlight, Typed
  <2> QED
    BY <1>1, <2>1, Kinds DEF AckComing
<1>7. msgq = <<>>
  <2> SUFFICES ASSUME msgq # <<>> PROVE FALSE
    OBVIOUS
  <2> DEFINE m == Head(msgq)
  <2>1. AckTimeout(t) /\ pc[t] = "ack"
    BY <1>1
  <2>2. m \in InFlight \cap Responses
    BY ElementsOf DEF Typed, InFlight
  <2>3. /\ m.to \in Senders /\ pc[m.to] = "response"
        /\ cmd[m.to] \notin Resumes
    BY <1>6, <2>1, <2>2 DEF Orderly, ResponsesCurrent, Responses
  <2>4. m.to = "main" /\ t = "handler"
    BY <2>1, <2>3 DEF Orderly, HandlerWaits, Senders
  <2> QED
    BY <2>1, <2>3, <2>4 DEF Orderly, MainAlone, MainBusy, StopComing
<1>8. Count(tx, Packets) = 0 /\ Count(tx, Asking) = 0
  BY <1>2, CountNone DEF Typed, Asking
<1>9. Count(rx, {Ack}) = 0 /\ Count(rx, Responses) = 0
  BY <1>5, CountEmpty
<1>10. AckTimeout(t) => Acks = 0
  BY <1>1, <1>5, <1>8, <1>9, NoneAssumption, EmptySeq DEF Acks, One
<1>11. Replies = 0
  BY <1>5, <1>7, <1>8, <1>9, EmptySeq DEF Replies, InHand
<1> QED
  BY <1>2, <1>5, <1>6, <1>10, <1>11

\* Nothing is under way when all is quiet.
LEMMA SettledMeans ==
  ASSUME Typed, Settled
  PROVE  /\ ToSet(tx) = {} /\ InFlight = {} /\ ~StopComing /\ ~AckComing
         /\ pc["main"] = "idle" /\ ~MainBusy
<1>1. /\ tx = <<>> /\ rx = <<>> /\ msgq = <<>> /\ hand = None /\ ackq = <<>> /\ stopq = <<>>
      /\ pc["main"] = "idle" /\ pc["handler"] \in {"idle", "dead"}
  BY DEF Settled
<1>2. ToSet(tx) = {} /\ ToSet(rx) = {} /\ ToSet(msgq) = {}
  BY <1>1, ElementsOf DEF Typed
<1>3. InFlight = {}
  BY <1>1, <1>2 DEF InFlight
<1> QED
  BY <1>1, <1>2, <1>3 DEF StopComing, AckComing, MainBusy

\* A thread that gives up leaves the counts in step: nothing will come for it.
LEMMA GivesUpInStep ==
  ASSUME Typed, DriverTypes, InStep, Orderly, NEW t \in Senders,
         AckTimeout(t) \/ ResponseTimeout(t)
  PROVE  InStep'
<1>1. /\ UNCHANGED <<tx, rx, hand, ackq, msgq, cmd>>
      /\ pc'[t] \in {"idle", "dead"} /\ \A u \in Senders : u # t => pc'[u] = pc[u]
      /\ AckTimeout(t) => pc[t] = "ack" /\ lock' = None
      /\ ResponseTimeout(t) => pc[t] = "response" /\ lock' = lock
  BY DEF AckTimeout, ResponseTimeout, TimesOut, Raised, queues, Typed, Threads
<1>2. Acks' = Acks /\ Replies' = 0
  BY <1>1, Drained DEF Acks, Replies, InHand
<1>3. LockSound' /\ AskSound'
  BY <1>1, NoneAssumption DEF InStep, LockSound, AskSound
<1>4. AckSound'
  BY <1>1, <1>2, Drained DEF InStep, AckSound
<1>5. ReplySound'
  <2>1. Waits("main")' \in 0 .. 1 /\ Waits("handler")' \in 0 .. 1
    BY DEF Waits
  <2> QED
    BY <1>2, <2>1 DEF ReplySound
<1> QED
  BY <1>3, <1>4, <1>5 DEF InStep

-----------------------------------------------------------------------------
(* Every step of the user who waits leaves the conversation orderly.         *)

\* What is in flight stays when the wire, the hand and the queue do.
LEMMA SameFlight ==
  ASSUME UNCHANGED <<rx, hand, msgq>>
  PROVE  InFlight' = InFlight
BY DEF InFlight

\* A call is made when all is quiet; all but stop and disconnect are made of a
\* program that is called stopped, and so is halted.
LEMMA UserOrderly ==
  ASSUME Patient, Typed, DriverTypes, InStep, Orderly, UserCalls, Connected'
  PROVE  Orderly'
<1>1. \/ status = "STOPPED" /\ \E name, c : Issue(name, c)
      \/ Stop
      \/ Disconnect
  BY DEF UserCalls, Run, Step, Restart, AccessMemory, GetRegisters, SetRegisters, GetPc
<1>2. Settled
  BY <1>1 DEF Issue, Stop, Disconnect, Call
<1>3. /\ ToSet(tx) = {} /\ InFlight = {} /\ ~StopComing /\ ~AckComing
      /\ pc["main"] = "idle" /\ ~MainBusy
  BY <1>2, SettledMeans
<1>4. CASE status = "STOPPED" /\ \E name, c : Issue(name, c)
  <2>1. target = "halted"
    BY <1>3, <1>4 DEF Orderly, RunningSoon, DriverTypes
  <2>2. /\ UNCHANGED <<status, tx, rx, hand, msgq, ackq, stopq, target, tpc, open>>
        /\ pc' = [pc EXCEPT !["main"] = "send"]
    BY <1>4 DEF Issue, queues, stub
  <2>3. InFlight' = {} /\ ToSet(tx') = {}
    BY <1>3, <2>2, SameFlight
  <2>4. pc'["main"] = "send" /\ \A t \in {"handler", "receiver"} : pc'[t] = pc[t]
    BY <2>2 DEF Typed, Threads, Senders
  <2>5. ~StopComing'
    BY <1>3, <2>2, <2>3, <2>4 DEF StopComing
  <2> QED
    BY <1>4, <2>1, <2>2, <2>3, <2>4, <2>5 DEF Orderly, PacketsCurrent, ResponsesCurrent,
       HandlerWaits, MainAlone, StopsHalted, RunningSoon, BreakSent
<1>5. CASE Stop
  <2>1. /\ UNCHANGED <<status, rx, hand, msgq, ackq, stopq, target, tpc, open>>
        /\ tx' = Append(tx, Break) /\ pc' = [pc EXCEPT !["main"] = "stopping"]
    BY <1>5 DEF Stop, queues, stub
  <2>2. InFlight' = {}
    BY <1>3, <2>1, SameFlight
  <2>3. ToSet(tx') = {Break}
    <3>1. Break \in ToStub
      BY DEF ToStub
    <3>2. ToSet(Append(tx, Break)) = ToSet(tx) \cup {Break}
      BY <3>1, ElementsOf DEF Typed
    <3> QED
      BY <1>3, <2>1, <3>2
  <2>4. pc'["main"] = "stopping" /\ \A t \in {"handler", "receiver"} : pc'[t] = pc[t]
    BY <2>1 DEF Typed, Threads, Senders
  <2>5. ~StopComing' /\ ~MainBusy' /\ ToSet(tx') \cap Packets = {}
    BY <1>3, <2>1, <2>2, <2>3, <2>4, Kinds DEF StopComing, MainBusy
  <2> QED
    BY <2>1, <2>2, <2>3, <2>4, <2>5 DEF Orderly, PacketsCurrent, ResponsesCurrent,
       HandlerWaits, MainAlone, StopsHalted, RunningSoon, BreakSent
<1>6. ~Disconnect
  BY DEF Disconnect, Connected, Typed, Threads, Senders
<1> QED
  BY <1>1, <1>4, <1>5, <1>6

\* A packet goes on an empty wire.
LEMMA SendpktOrderly ==
  ASSUME Typed, DriverTypes, InStep, Orderly, NEW t \in Senders, Sendpkt(t)
  PROVE  Orderly'
<1>1. /\ pc[t] = "send" /\ lock = None /\ tx' = Append(tx, Packet(t))
      /\ pc' = [pc EXCEPT ![t] = "ack"]
      /\ UNCHANGED <<status, rx, hand, msgq, ackq, stopq, target, tpc, open, cmd>>
  BY DEF Sendpkt, driver, queues, stub
<1>2. /\ pc'[t] = "ack" /\ \A u \in Threads : u # t => pc'[u] = pc[u]
      /\ {"main", "handler", "receiver"} \subseteq Threads /\ t # "receiver"
  BY <1>1 DEF Typed, Threads, Senders
<1>3. InFlight' = InFlight
  BY <1>1, SameFlight
<1>4. Packet(t) \in Packets /\ Packet(t).from = t /\ Packet(t).cmd = cmd[t]
  BY DEF Packet, Packets, Typed
<1>5. ToSet(tx') = ToSet(tx) \cup {Packet(t)} /\ ToSet(tx) \cap Packets = {}
  <2>1. Packet(t) \in ToStub
    BY <1>4 DEF ToStub
  <2> QED
    BY <1>1, <2>1, ElementsOf, OnePacket DEF Typed
<1>6. ToSet(tx') \cap Packets = {Packet(t)}
  BY <1>4, <1>5
<1>7. PacketsCurrent'
  BY <1>1, <1>2, <1>4, <1>6 DEF PacketsCurrent
<1>8. /\ StopComing' <=> StopComing
      /\ AckComing' <=> AckComing
  BY <1>1, <1>2, <1>3 DEF StopComing, AckComing, Senders
<1>9. \A m \in InFlight \cap Responses : m.to \in Senders /\ m.to # t
  BY <1>1, FlightType DEF Orderly, ResponsesCurrent
<1>10. ResponsesCurrent'
  BY <1>1, <1>2, <1>3, <1>8, <1>9 DEF Orderly, ResponsesCurrent, Threads
<1>11. CASE t = "main"
  <2>1. MainBusy
    BY <1>1, <1>11 DEF MainBusy
  <2> QED
    BY <1>1, <1>2, <1>7, <1>8, <1>10, <1>11, <2>1 DEF Orderly, HandlerWaits, MainAlone,
       StopsHalted, RunningSoon, BreakSent, StopComing
<1>12. CASE t = "handler"
  <2>1. StopComing
    BY <1>1, <1>12 DEF StopComing
  <2>2. ~MainBusy /\ pc'["main"] = pc["main"]
    BY <1>2, <1>12, <2>1 DEF Orderly, MainAlone
  <2>3. ~MainBusy'
    BY <1>1, <1>4, <1>6, <1>12, <2>2 DEF MainBusy
  <2> QED
    BY <1>1, <1>2, <1>5, <1>7, <1>8, <1>10, <1>12, <2>1, <2>2, <2>3 DEF Orderly, HandlerWaits,
       MainAlone, StopsHalted, RunningSoon, BreakSent
<1> QED
  BY <1>11, <1>12 DEF Senders

\* The ack a thread takes is that of its packet, which the stub has answered.
LEMMA AckedOrderly ==
  ASSUME Typed, DriverTypes, InStep, Orderly, NEW t \in Senders, Acked(t)
  PROVE  Orderly'
<1>1. /\ pc[t] = "ack" /\ ackq # <<>>
      /\ pc' = [pc EXCEPT ![t] = IF cmd[t] \in Resumes THEN "start" ELSE "response"]
      /\ UNCHANGED <<status, tx, rx, hand, msgq, stopq, target, tpc, open, cmd>>
  BY DEF Acked, driver, stub
<1>2. /\ pc'[t] = (IF cmd[t] \in Resumes THEN "start" ELSE "response")
      /\ \A u \in Threads : u # t => pc'[u] = pc[u]
      /\ {"main", "handler", "receiver"} \subseteq Threads /\ t # "receiver"
  BY <1>1 DEF Typed, Threads, Senders
<1>3. InFlight' = InFlight /\ ToSet(tx') = ToSet(tx)
  BY <1>1, SameFlight
<1>4. ToSet(tx) \cap Packets = {}
  BY <1>1, OnePacket
<1>5. \A u \in Senders : u # t => pc[u] # "ack"
  BY <1>1 DEF InStep, LockSound
<1>6. cmd["handler"] \notin Resumes
  BY DEF DriverTypes, Resumes
<1>7. StopComing' <=> StopComing
  BY <1>1, <1>2, <1>3, <1>6 DEF StopComing, Senders
<1>8. MainBusy' <=> MainBusy
  BY <1>1, <1>2, <1>3, <1>4 DEF MainBusy, Senders
<1>9. ResponsesCurrent'
  <2> SUFFICES ASSUME NEW m \in InFlight \cap Responses
               PROVE  /\ pc'[m.to] \in {"ack", "response"} /\ cmd[m.to] = m.cmd
                      /\ m.cmd \notin Resumes
                      /\ m.cmd \notin Writes => m.pc = tpc
                      /\ pc'[m.to] # "ack"
    BY <1>1, <1>3 DEF ResponsesCurrent
  <2>1. /\ pc[m.to] \in {"ack", "response"} /\ cmd[m.to] = m.cmd /\ m.cmd \notin Resumes
        /\ m.cmd \notin Writes => m.pc = tpc
        /\ m.to \in Senders
    BY FlightType DEF Orderly, ResponsesCurrent
  <2> QED
    BY <1>2, <1>5, <2>1 DEF Threads
<1>10. PacketsCurrent' /\ HandlerWaits'
  BY <1>2, <1>3, <1>4, <1>5, <1>1 DEF PacketsCurrent, HandlerWaits, Senders
<1>11. RunningSoon'
  BY <1>1, <1>2, <1>3, <1>5 DEF Orderly, RunningSoon, Senders
<1>12. BreakSent'
  BY <1>1, <1>2, <1>3 DEF Orderly, BreakSent
<1> QED
  BY <1>1, <1>2, <1>7, <1>8, <1>9, <1>10, <1>11, <1>12 DEF Orderly, MainAlone, StopsHalted

\* The response a thread takes is the only one.
LEMMA ReceiveOrderly ==
  ASSUME Typed, DriverTypes, InStep, Orderly, NEW t \in Senders, Receive(t) \/ ReceiveFails(t)
  PROVE  Orderly' /\ InFlight' \cap Responses = {}
<1>1. /\ pc[t] = "response" /\ msgq # <<>> /\ msgq' = Tail(msgq)
      /\ UNCHANGED <<status, tx, rx, hand, ackq, stopq, target, tpc, open>>
  BY DEF Receive, ReceiveFails, driver, stub
<1>2. /\ \/ pc' = [pc EXCEPT ![t] = AfterResponse(t)]
            /\ cmd' = [cmd EXCEPT ![t] = IF @ = "P" THEN "c" ELSE @]
         \/ pc' = [pc EXCEPT ![t] = IF t = "handler" THEN "dead" ELSE "idle"] /\ cmd' = cmd
      /\ {"main", "handler", "receiver"} \subseteq Threads /\ t # "receiver"
  BY DEF Receive, ReceiveFails, Raised, Threads, Senders
<1>3. /\ pc'[t] \in {"stop", "send", "idle", "dead"}
      /\ t = "main" => pc'[t] \in {"send", "idle"}
      /\ t = "handler" => pc'[t] \in {"stop", "dead"}
      /\ \A u \in Threads : u # t => pc'[u] = pc[u]
      /\ \A u \in Senders : u # t => cmd'[u] = cmd[u]
  BY <1>2 DEF AfterResponse, Typed, Threads, Senders
<1>4. cmd[t] \notin Resumes
  BY <1>1 DEF InStep, AskSound
<1>5. ToSet(tx') = ToSet(tx) /\ ToSet(tx) \cap Packets = {}
  BY <1>1, OneWaits
<1>6. InFlight' \subseteq InFlight /\ InFlight \ Responses \subseteq InFlight'
  BY <1>1, ReceiveFlight
<1>7. InFlight' \cap Responses = {}
  <2> SUFFICES ASSUME NEW m \in InFlight' \cap Responses PROVE FALSE
    OBVIOUS
  <2>1. InStep' /\ Typed'
    BY ReceiveInStep, SendsTyped DEF Sends
  <2>2. Waits("main")' = 0 /\ Waits("handler")' = 0
    <3>1. ASSUME NEW u \in Senders PROVE Waits(u)' = 0
      <4>1. CASE u = t
        BY <1>3, <4>1 DEF Waits
      <4>2. CASE u # t
        <5>1. pc'[u] = pc[u] /\ cmd'[u] = cmd[u]
          BY <1>3, <4>2 DEF Threads
        <5>2. ~(pc[u] \in {"ack", "response"} /\ cmd[u] \notin Resumes)
          BY <1>1, <4>2, OneWaits
        <5> QED
          BY <5>1, <5>2 DEF Waits
      <4> QED
        BY <4>1, <4>2
    <3> QED
      BY <3>1 DEF Senders
  <2>3. /\ Len(msgq)' \in Nat /\ Count(rx, Responses)' \in Nat /\ InHand' \in 0 .. 1
        /\ Count(tx, Asking)' \in Nat
    BY <2>1, CountsType, CountType, LenProperties DEF Typed, InHand
  <2>4. Len(msgq') + Count(rx', Responses) + InHand' + Count(tx', Asking) <= 0
    BY <2>1, <2>2 DEF InStep, ReplySound, Replies
  <2>5. Len(msgq') = 0 /\ Count(rx', Responses) = 0 /\ InHand' = 0
    BY <2>3, <2>4
  <2>6. ToSet(msgq') = {} /\ ToSet(rx') \cap Responses = {}
    <3>1. msgq' \in Seq(Responses) /\ rx' \in Seq(FromStub)
      BY <2>1 DEF Typed
    <3>2. msgq' = <<>>
      BY <2>5, <3>1, EmptySeq
    <3>3. ToSet(msgq') = {}
      BY <3>1, <3>2, ElementsOf
    <3>4. ToSet(rx') \cap Responses = {}
      BY <2>5, <3>1, CountNone
    <3> QED
      BY <3>3, <3>4
  <2>7. m \in {hand'} \ {None} /\ m \in FromStub
    BY <2>1, <2>6, FlightType DEF InFlight, FromStub
  <2> QED
    BY <2>5, <2>7, Kinds DEF InHand
<1>8. AckComing' <=> AckComing
  BY <1>1, <1>6, Kinds DEF AckComing
<1>9. StopComing' => StopComing
  <2>1. CASE t = "handler"
    BY <1>1, <2>1 DEF StopComing
  <2>2. CASE t = "main"
    <3>1. pc'["handler"] = pc["handler"]
      BY <1>3, <2>2 DEF Threads, Senders
    <3> QED
      BY <1>1, <1>6, <3>1 DEF StopComing
  <2> QED
    BY <2>1, <2>2 DEF Senders
<1>10. MainBusy' => MainBusy
  <2>1. CASE t = "main"
    BY <1>1, <1>4, <2>1 DEF MainBusy
  <2>2. CASE t = "handler"
    <3>1. pc'["main"] = pc["main"] /\ cmd'["main"] = cmd["main"]
      BY <1>3, <2>2 DEF Threads, Senders
    <3> QED
      BY <1>5, <3>1 DEF MainBusy
  <2> QED
    BY <2>1, <2>2 DEF Senders
<1>11. RunningSoon' /\ BreakSent' /\ HandlerWaits'
  <2>1. CASE t = "main"
    <3>1. MainBusy
      BY <1>1, <1>4, <2>1 DEF MainBusy
    <3> QED
      BY <1>1, <1>3, <2>1, <3>1 DEF Orderly, MainAlone, RunningSoon, BreakSent, HandlerWaits
  <2>2. CASE t = "handler"
    <3>1. pc'["main"] = pc["main"] /\ cmd'["main"] = cmd["main"] /\ pc'["handler"] # "response"
      BY <1>3, <2>2 DEF Threads, Senders
    <3> QED
      BY <1>1, <1>5, <1>8, <3>1 DEF Orderly, RunningSoon, BreakSent, HandlerWaits
  <2> QED
    BY <2>1, <2>2 DEF Senders
<1>12. pc'["receiver"] = "loop"
  BY <1>2, <1>3 DEF Orderly
<1> QED
  BY <1>1, <1>5, <1>7, <1>9, <1>10, <1>11, <1>12 DEF Orderly, PacketsCurrent, ResponsesCurrent,
     MainAlone, StopsHalted

\* A thread that gives up leaves nothing behind.
LEMMA GivesUpOrderly ==
  ASSUME Typed, DriverTypes, InStep, Orderly, NEW t \in Senders,
         AckTimeout(t) \/ ResponseTimeout(t)
  PROVE  Orderly'
<1>1. /\ UNCHANGED <<status, tx, rx, hand, ackq, msgq, stopq, target, tpc, open, cmd>>
      /\ pc' = [pc EXCEPT ![t] = IF t = "handler" THEN "dead" ELSE "idle"]
      /\ pc[t] \in {"ack", "response"}
      /\ pc[t] = "ack" => AckTimeout(t)
  BY DEF AckTimeout, ResponseTimeout, TimesOut, Raised, driver, queues, stub
<1>2. /\ pc'[t] = (IF t = "handler" THEN "dead" ELSE "idle")
      /\ \A u \in Threads : u # t => pc'[u] = pc[u]
      /\ {"main", "handler", "receiver"} \subseteq Threads /\ t # "receiver"
  BY <1>1 DEF Typed, Threads, Senders
<1>3. /\ ToSet(tx') = ToSet(tx) /\ ToSet(tx) \cap Packets = {}
      /\ InFlight' = InFlight
  BY <1>1, Drained, SameFlight
<1>4. InFlight \cap Responses = {}
  <2>1. Len(msgq) = 0
    <3>1. Len(msgq) \in Nat /\ Count(rx, Responses) \in Nat /\ InHand \in 0 .. 1
          /\ Count(tx, Asking) \in Nat
      BY CountsType
    <3> QED
      BY <3>1, Drained DEF Replies
  <2>2. ToSet(msgq) = {} /\ ToSet(rx) = {}
    BY <2>1, Drained, ElementsOf, EmptySeq DEF Typed
  <2> QED
    BY <2>2, Drained DEF InFlight
<1>5. StopComing' => StopComing
  BY <1>1, <1>2, <1>3 DEF StopComing, Senders
<1>6. MainBusy' => MainBusy
  BY <1>1, <1>2, <1>3 DEF MainBusy, Senders
<1>7. RunningSoon'
  <2>1. CASE t = "main"
    <3>1. pc["main"] = "response" => MainBusy
      BY <2>1 DEF MainBusy, InStep, AskSound
    <3>2. pc["main"] = "ack" => ~AckComing
      BY <1>1, <2>1, Drained
    <3> QED
      BY <1>1, <1>3, <2>1, <3>1, <3>2 DEF Orderly, MainAlone, RunningSoon
  <2>2. CASE t = "handler"
    <3>1. pc'["main"] = pc["main"] /\ (AckComing' <=> AckComing)
      BY <1>1, <1>2, <1>3, <2>2 DEF AckComing
    <3> QED
      BY <1>1, <1>3, <3>1 DEF Orderly, RunningSoon
  <2> QED
    BY <2>1, <2>2 DEF Senders
<1>8. BreakSent' /\ HandlerWaits' /\ pc'["receiver"] = "loop"
  BY <1>1, <1>2, <1>3 DEF Orderly, BreakSent, HandlerWaits, Senders
<1> QED
  BY <1>1, <1>3, <1>4, <1>5, <1>6, <1>7, <1>8 DEF Orderly, PacketsCurrent, ResponsesCurrent,
     MainAlone, StopsHalted

\* Steps of the user's thread that send nothing.
LEMMA MainOrderly ==
  ASSUME Typed, DriverTypes, InStep, Orderly, SetStopped \/ SetRunning \/ ClearCache
  PROVE  Orderly'
<1>1. /\ UNCHANGED <<tx, rx, hand, ackq, msgq, stopq, target, tpc, open, cmd>>
      /\ pc["main"] \in {"stopping", "start", "clear"}
      /\ \E where \in {"idle", "clear"} : pc' = [pc EXCEPT !["main"] = where]
  BY DEF SetStopped, SetRunning, ClearCache, driver, queues, stub
<1>2. /\ pc'["main"] \in {"idle", "clear"}
      /\ pc'["handler"] = pc["handler"] /\ pc'["receiver"] = pc["receiver"]
  BY <1>1 DEF Typed, Threads, Senders
<1>3. InFlight' = InFlight /\ ToSet(tx') = ToSet(tx)
  BY <1>1, SameFlight
<1>4. \A p \in ToSet(tx) \cap Packets : p.from = "handler"
  BY <1>1 DEF Orderly, PacketsCurrent, Packets, Senders
<1>5. \A m \in InFlight \cap Responses : m.to = "handler"
  BY <1>1, FlightType DEF Orderly, ResponsesCurrent, Senders
<1>6. /\ StopComing' <=> StopComing
      /\ AckComing' <=> AckComing
      /\ ~MainBusy'
  BY <1>1, <1>2, <1>3, <1>4 DEF StopComing, AckComing, MainBusy
<1>7. PacketsCurrent' /\ ResponsesCurrent'
  BY <1>1, <1>2, <1>3, <1>4, <1>5, <1>6 DEF Orderly, PacketsCurrent, ResponsesCurrent
<1>8. RunningSoon'
  <2>1. CASE SetStopped
    <3>1. pc["main"] = "stopping"
      BY <2>1 DEF SetStopped
    <3> QED
      BY <1>1, <1>3, <3>1 DEF Orderly, BreakSent, RunningSoon, DriverTypes
  <2>2. CASE SetRunning
    <3>1. status' = "RUNNING"
      BY <2>2 DEF SetRunning
    <3> QED
      BY <3>1 DEF RunningSoon
  <2>3. CASE ClearCache
    <3>1. pc["main"] = "clear" /\ status' = status
      BY <2>3 DEF ClearCache
    <3> QED
      BY <1>1, <1>3, <3>1 DEF Orderly, RunningSoon
  <2> QED
    BY <2>1, <2>2, <2>3
<1> QED
  BY <1>1, <1>2, <1>6, <1>7, <1>8 DEF Orderly, HandlerWaits, MainAlone, StopsHalted, BreakSent

\* A stop reply, from the queue to the status, is of a program that is halted.
LEMMA HandlerOrderly ==
  ASSUME Typed, DriverTypes, InStep, Orderly,
         EndHandler \/ FaultReply \/ HaltReply \/ HandlerStops
  PROVE  Orderly'
<1>1. /\ UNCHANGED <<tx, rx, hand, ackq, msgq, target, tpc, open>>
      /\ StopComing
      /\ pc["handler"] \notin {"send", "ack", "response"}
      /\ pc'["handler"] \notin {"ack", "response"}
      /\ pc'["main"] = pc["main"] /\ pc'["receiver"] = pc["receiver"]
      /\ cmd'["main"] = cmd["main"]
  BY DEF EndHandler, FaultReply, HaltReply, HandlerStops, Takes, StopComing, driver, queues,
     threads, stub, Typed, Threads, Senders
<1>2. InFlight' = InFlight /\ ToSet(tx') = ToSet(tx)
  BY <1>1, SameFlight
<1>3. ~MainBusy /\ target = "halted"
  BY <1>1 DEF Orderly, MainAlone, StopsHalted
<1>4. ~MainBusy' /\ (AckComing' <=> AckComing)
  BY <1>1, <1>2, <1>3 DEF MainBusy, AckComing
<1>5. \A p \in ToSet(tx) \cap Packets : p.from = "main"
  BY <1>1 DEF Orderly, PacketsCurrent, Packets, Senders
<1>6. \A m \in InFlight \cap Responses : m.to = "main"
  BY <1>1, FlightType DEF Orderly, ResponsesCurrent, Senders
<1>7. PacketsCurrent' /\ ResponsesCurrent'
  BY <1>1, <1>2, <1>4, <1>5, <1>6 DEF Orderly, PacketsCurrent, ResponsesCurrent
<1> QED
  BY <1>1, <1>2, <1>3, <1>4, <1>7 DEF Orderly, HandlerWaits, MainAlone, StopsHalted,
     RunningSoon, BreakSent

\* The receiving thread does not end, and what it passes on is still to come.
LEMMA ReceiverFlight ==
  ASSUME Typed, DriverTypes, InStep, Orderly, ReceiverSteps
  PROVE  /\ UNCHANGED <<status, cache, tx, target, tpc, open, pc, cmd>>
         /\ InFlight' \subseteq InFlight
         /\ StopComing' <=> StopComing
         /\ AckComing' <=> AckComing
<1>1. Take \/ Deliver
  BY NoFullAckQueue DEF ReceiverSteps, EndReceiver, Orderly
<1>2. UNCHANGED <<status, cache, tx, target, tpc, open, pc, cmd>>
  BY <1>1 DEF Take, Deliver, driver, threads, stub
<1>3. /\ InFlight' \subseteq InFlight
      /\ StopComing' <=> StopComing
      /\ AckComing' <=> AckComing
  <2>1. CASE Take
    <3>1. UNCHANGED <<ackq, stopq>>
      BY <2>1 DEF Take, queues
    <3>2. InFlight' \subseteq InFlight /\ InFlight \ {Nack} \subseteq InFlight'
      BY <2>1, TakeFlight
    <3> QED
      BY <1>2, <3>1, <3>2, Kinds DEF StopComing, AckComing
  <2>2. CASE Deliver
    <3>1. /\ hand \in InFlight /\ InFlight' \subseteq InFlight
          /\ InFlight \ {hand} \subseteq InFlight'
          /\ hand \in Stops => stopq' # <<>>
          /\ hand \notin Stops => stopq' = stopq
          /\ hand = Ack => ackq' # <<>>
          /\ hand # Ack => ackq' = ackq
      BY <2>2, DeliverFlight DEF DriverTypes
    <3>2. StopComing' <=> StopComing
      BY <1>2, <3>1 DEF StopComing
    <3>3. AckComing' <=> AckComing
      BY <3>1 DEF AckComing
    <3> QED
      BY <3>1, <3>2, <3>3
  <2> QED
    BY <1>1, <2>1, <2>2
<1> QED
  BY <1>2, <1>3

\* The receiving thread passes everything on.
LEMMA ReceiverOrderly ==
  ASSUME Typed, DriverTypes, InStep, Orderly, ReceiverSteps
  PROVE  Orderly'
<1>1. MainBusy' <=> MainBusy
  BY ReceiverFlight DEF MainBusy
<1> QED
  BY <1>1, ReceiverFlight DEF Orderly, PacketsCurrent, ResponsesCurrent, HandlerWaits, MainAlone,
     StopsHalted, RunningSoon, BreakSent

\* The stub answers the only packet there is.
LEMMA StubPacketOrderly ==
  ASSUME Typed, DriverTypes, InStep, Orderly, StubPacket
  PROVE  Orderly'
<1> DEFINE p == Head(tx)
           resumes == p.cmd \in Resumes
<1>1. /\ tx # <<>> /\ tx' = Tail(tx) /\ target = "halted"
      /\ target' = (IF resumes THEN "running" ELSE "halted")
      /\ tpc' = (IF p.cmd \in Resumes \cup Writes THEN tpc + 1 ELSE tpc)
      /\ rx' = (IF resumes THEN Append(rx, Ack) ELSE rx \o <<Ack, Response(p, tpc)>>)
      /\ UNCHANGED <<status, hand, ackq, msgq, stopq, open, pc, cmd>>
  BY DEF StubPacket, driver, queues, threads
<1>2. p \in Packets /\ p \in ToSet(tx)
  <2>1. p \in ToStub /\ p.type = "packet"
    BY HeadTailProperties DEF StubPacket, Typed
  <2> QED
    BY <1>1, <2>1, Kinds, ElementsOf DEF Typed
<1>3. p.from \in Senders /\ p.cmd \in Cmds /\ pc[p.from] = "ack" /\ cmd[p.from] = p.cmd
  BY <1>2 DEF Orderly, PacketsCurrent, Packets
<1>4. ToSet(tx') \cap Packets = {}
  BY <1>1, <1>2, OnePacket
<1>5. Break \in ToSet(tx) => Break \in ToSet(tx')
  BY <1>1, <1>2, Kinds, ElementsOf DEF Typed
<1>6. /\ resumes => InFlight' = InFlight \cup {Ack}
      /\ ~resumes => InFlight' = InFlight \cup {Ack, Response(p, tpc)}
  <2>1. Ack \in FromStub /\ Response(p, tpc) \in FromStub
    BY <1>3 DEF FromStub, Response, Responses, Typed
  <2> HIDE DEF p
  <2> QED
    BY <1>1, <2>1, WriteFlight
<1>7. /\ Response(p, tpc) \in Responses /\ Response(p, tpc).to = p.from
      /\ Response(p, tpc).cmd = p.cmd /\ Response(p, tpc).pc = tpc
  BY <1>3 DEF Response, Responses, Typed
<1>8. /\ p.from = "handler" => p.cmd \notin Resumes \cup Writes
      /\ p.cmd \in Resumes \cup Writes => p.from = "main"
  BY <1>3 DEF DriverTypes, Senders, Resumes, Writes
<1>9. p.from = "main" => MainBusy /\ ~StopComing /\ status = "STOPPED"
  BY <1>2 DEF MainBusy, Orderly, MainAlone
<1>10. AckComing'
  BY <1>6 DEF AckComing
<1> HIDE DEF p
<1>11. StopComing' <=> StopComing
  BY <1>1, <1>6, <1>7, Kinds DEF StopComing
<1>12. PacketsCurrent'
  BY <1>4 DEF PacketsCurrent
<1>13. ResponsesCurrent'
  <2> SUFFICES ASSUME NEW m \in InFlight' \cap Responses
               PROVE  /\ pc[m.to] \in {"ack", "response"} /\ cmd[m.to] = m.cmd
                      /\ m.cmd \notin Resumes
                      /\ m.cmd \notin Writes => m.pc = tpc'
    BY <1>1, <1>10 DEF ResponsesCurrent
  <2>1. CASE m \in InFlight
    <3>1. /\ pc[m.to] \in {"ack", "response"} /\ cmd[m.to] = m.cmd /\ m.cmd \notin Resumes
          /\ m.cmd \notin Writes => m.pc = tpc
          /\ m.to \in Senders
      BY <2>1, FlightType DEF Orderly, ResponsesCurrent
    <3>2. ASSUME p.cmd \in Resumes \cup Writes PROVE m.cmd = p.cmd
      <4>1. p.from = "main" /\ ~StopComing
        BY <1>8, <1>9, <3>2
      <4>2. m.to = "main"
        BY <3>1, <4>1 DEF StopComing, Senders
      <4> QED
        BY <1>3, <3>1, <4>1, <4>2
    <3> QED
      BY <1>1, <3>1, <3>2
  <2>2. CASE m \notin InFlight
    <3>1. m = Response(p, tpc) /\ ~resumes
      BY <1>6, <2>2, Kinds
    <3> QED
      BY <1>1, <1>3, <1>7, <3>1
  <2> QED
    BY <2>1, <2>2
<1>14. MainAlone' /\ StopsHalted' /\ RunningSoon' /\ BreakSent'
  <2>1. CASE resumes
    <3>1. /\ p.from = "main" /\ pc["main"] = "ack" /\ cmd["main"] \in Resumes
          /\ ~StopComing /\ status = "STOPPED"
      BY <1>3, <1>8, <1>9, <2>1
    <3>2. ~MainBusy'
      BY <1>1, <1>4, <3>1 DEF MainBusy
    <3> QED
      BY <1>1, <1>10, <1>11, <3>1, <3>2 DEF MainAlone, StopsHalted, RunningSoon, BreakSent
  <2>2. CASE ~resumes
    <3>1. target' = "halted"
      BY <1>1, <2>2
    <3>2. MainBusy' => MainBusy
      BY <1>1, <1>4 DEF MainBusy
    <3> QED
      BY <1>1, <1>11, <3>1, <3>2 DEF Orderly, MainAlone, StopsHalted, RunningSoon, BreakSent
  <2> QED
    BY <2>1, <2>2
<1> QED
  BY <1>1, <1>12, <1>13, <1>14 DEF Orderly, HandlerWaits

\* What else the stub reads and writes: damaged packets, the break, a halt.
LEMMA StubOtherFlight ==
  ASSUME Typed, StubNack \/ StubBreak \/ ProgramHalts
  PROVE  /\ UNCHANGED <<status, cache, hand, ackq, msgq, stopq, open, pc, cmd, tpc>>
         /\ target' = "halted" /\ ToSet(tx') \subseteq ToSet(tx)
         /\ \/ InFlight' = InFlight
            \/ InFlight' = InFlight \cup {Nack}
            \/ target = "running" /\ \E e \in Stops : InFlight' = InFlight \cup {e}
<1>1. /\ UNCHANGED <<status, cache, hand, ackq, msgq, stopq, open, pc, cmd, tpc>> /\ target' = "halted"
      /\ \/ tx' = tx
         \/ tx # <<>> /\ tx' = Tail(tx)
  <2>1. CASE StubNack
    BY <2>1 DEF StubNack, driver, queues, threads
  <2>2. CASE StubBreak
    BY <2>2 DEF StubBreak, driver, queues, threads
  <2>3. CASE ProgramHalts
    BY <2>3 DEF ProgramHalts, driver, queues, threads
  <2> QED
    BY <2>1, <2>2, <2>3
<1>2. ToSet(tx') \subseteq ToSet(tx)
  <2>1. tx # <<>> => ToSet(Tail(tx)) \subseteq ToSet(tx)
    BY ElementsOf DEF Typed
  <2> QED
    BY <1>1, <2>1
<1>3. \/ InFlight' = InFlight
      \/ InFlight' = InFlight \cup {Nack}
      \/ target = "running" /\ \E e \in Stops : InFlight' = InFlight \cup {e}
  <2>1. \A code \in StopCodes \cup {"interrupt"} : StopReply(code) \in Stops
    BY ConstantsAssumption DEF StopReply, Stops
  <2>2. \/ rx' = rx
        \/ rx' = Append(rx, Nack)
        \/ target = "running" /\ \E e \in Stops : rx' = Append(rx, e)
    BY <2>1 DEF StubNack, StubBreak, ProgramHalts
  <2>3. {Nack} \cup Stops \subseteq FromStub
    BY DEF FromStub
  <2>4. \A e \in {Nack} \cup Stops : rx' = Append(rx, e) => InFlight' = InFlight \cup {e}
    BY <1>1, <2>3, WriteFlight
  <2>5. rx' = rx => InFlight' = InFlight
    BY <1>1, SameFlight
  <2> QED
    BY <2>2, <2>4, <2>5
<1> QED
  BY <1>1, <1>2, <1>3

\* ... of which none disturbs a conversation.
LEMMA StubOtherOrderly ==
  ASSUME Typed, DriverTypes, InStep, Orderly, StubNack \/ StubBreak \/ ProgramHalts
  PROVE  Orderly'
<1>1. /\ UNCHANGED <<status, cache, hand, ackq, msgq, stopq, open, pc, cmd, tpc>>
      /\ target' = "halted" /\ ToSet(tx') \subseteq ToSet(tx)
      /\ \/ InFlight' = InFlight
         \/ InFlight' = InFlight \cup {Nack}
         \/ target = "running" /\ \E e \in Stops : InFlight' = InFlight \cup {e}
  BY StubOtherFlight
<1>2. MainBusy' => MainBusy
  BY <1>1 DEF MainBusy
<1>3. AckComing => AckComing'
  BY <1>1 DEF AckComing
<1>4. MainAlone'
  BY <1>1, <1>2, Kinds DEF Orderly, MainAlone, StopComing
<1>5. ResponsesCurrent'
  BY <1>1, <1>3, Kinds DEF Orderly, ResponsesCurrent
<1>6. PacketsCurrent'
  BY <1>1 DEF Orderly, PacketsCurrent
<1> QED
  BY <1>1, <1>4, <1>5, <1>6 DEF Orderly, HandlerWaits, StopsHalted, RunningSoon, BreakSent

\* Nobody connects again after disconnect.
LEMMA ConnectedBefore ==
  ASSUME Typed, DriverTypes, Next, Connected'
  PROVE  Connected /\ ~JoinReceiver /\ ~JoinHandler /\ ~SendFails
<1> USE DEF Connected, Typed, Threads, Senders
<1>1. ~JoinReceiver /\ ~JoinHandler
  BY DEF JoinReceiver, JoinHandler
<1>2. SendFails => ~Connected
  BY DEF SendFails, Closed
<1> SUFFICES ASSUME ~Connected PROVE FALSE
  BY <1>1, <1>2
<1>3. ~((\E name, c : Issue(name, c)) \/ Stop \/ Disconnect)
  BY DEF Issue, Stop, Disconnect, Call
<1>4. ~(SetStopped \/ SetRunning \/ ClearCache)
  BY DEF SetStopped, SetRunning, ClearCache
<1>5. ASSUME NEW t \in Senders, Sends(t) PROVE pc'["main"] = pc["main"]
  <2>1. pc[t] \in {"send", "ack", "response"}
    BY <1>5 DEF Sends, Sendpkt, Acked, Receive, ReceiveFails, AckTimeout, ResponseTimeout, TimesOut
  <2>2. t = "handler"
    BY <2>1
  <2> QED
    BY <1>5, <2>2 DEF Sends, Sendpkt, Acked, Receive, ReceiveFails, AckTimeout, ResponseTimeout,
       TimesOut, Raised
<1>6. ASSUME SendFails \/ EndHandler \/ FaultReply \/ HaltReply \/ HandlerStops
      PROVE  pc'["main"] = pc["main"]
  BY <1>6 DEF SendFails, EndHandler, FaultReply, HaltReply, HandlerStops, threads
<1>7. ASSUME ReceiverSteps \/ StubSteps \/ ProgramHalts PROVE pc'["main"] = pc["main"]
  BY <1>7 DEF ReceiverSteps, Take, Deliver, AckQueueFull, EndReceiver, StubSteps, StubPacket,
     StubNack, StubBreak, ProgramHalts, threads
<1> QED
  BY <1>1, <1>3, <1>4, <1>5, <1>6, <1>7, NextSteps

\* Any step: while the user is connected, the conversation stays orderly.
LEMMA StepPatient ==
  ASSUME Patient, Typed, DriverTypes, PatientInv, [Next]_vars
  PROVE  PatientInv'
<1> SUFFICES ASSUME Connected' PROVE InStep' /\ Orderly'
  BY DEF PatientInv
<1>1. CASE UNCHANGED vars
  <2>1. UNCHANGED <<status, tx, rx, hand, ackq, msgq, stopq, target, tpc, open, pc, cmd, lock>>
    BY <1>1 DEF vars, driver, queues, threads, stub
  <2>2. Connected /\ InStep /\ Orderly
    BY <2>1 DEF Connected, PatientInv
  <2>3. InStep'
    BY <2>1, <2>2, QuietKeeps
  <2>4. InFlight' = InFlight
    BY <2>1, SameFlight
  <2>5. /\ MainBusy' <=> MainBusy
        /\ StopComing' <=> StopComing
        /\ AckComing' <=> AckComing
    BY <2>1, <2>4 DEF MainBusy, StopComing, AckComing
  <2> QED
    BY <2>1, <2>2, <2>3, <2>4, <2>5 DEF Orderly, PacketsCurrent, ResponsesCurrent, HandlerWaits,
       MainAlone, StopsHalted, RunningSoon, BreakSent
<1>2. CASE Next
  <2>1. Connected /\ ~JoinReceiver /\ ~JoinHandler /\ ~SendFails
    BY <1>2, ConnectedBefore
  <2>2. InStep /\ Orderly
    BY <2>1 DEF PatientInv
  <2>3. InStep'
    <3>1. CASE GivesUp
      BY <2>2, <3>1, GivesUpInStep DEF GivesUp
    <3>2. CASE ~GivesUp
      BY <1>2, <2>2, <3>2, StepInStep
    <3> QED
      BY <3>1, <3>2
  <2>4. Orderly'
    <3>1. CASE UserCalls
      BY <2>2, <3>1, UserOrderly
    <3>2. ASSUME NEW t \in Senders, Sends(t) PROVE Orderly'
      BY <2>2, <3>2, SendpktOrderly, AckedOrderly, ReceiveOrderly, GivesUpOrderly DEF Sends
    <3>3. CASE MainSteps \/ HandlerSteps
      BY <2>1, <2>2, <3>2, <3>3, MainOrderly, HandlerOrderly
      DEF MainSteps, HandlerSteps, Senders
    <3>4. CASE ReceiverSteps
      BY <2>2, <3>4, ReceiverOrderly
    <3>5. CASE StubSteps \/ ProgramHalts
      BY <2>2, <3>5, StubPacketOrderly, StubOtherOrderly DEF StubSteps
    <3> QED
      BY <1>2, <3>1, <3>3, <3>4, <3>5 DEF Next
  <2> QED
    BY <2>3, <2>4
<1> QED
  BY <1>1, <1>2

\* connect leaves the program running, and called so.
LEMMA InitPatient == Init => PatientInv
<1> SUFFICES ASSUME Init PROVE PatientInv
  OBVIOUS
<1>1. /\ tx = <<>> /\ rx = <<>> /\ ackq = <<>> /\ msgq = <<>> /\ stopq = <<>> /\ hand = None
      /\ pc = [main |-> "idle", handler |-> "idle", receiver |-> "loop"]
      /\ status = "RUNNING" /\ open
  BY DEF Init
<1>2. ToSet(tx) = {} /\ InFlight = {}
  BY <1>1 DEF InFlight, ToSet
<1>3. ~MainBusy /\ ~StopComing
  BY <1>1, <1>2 DEF MainBusy, StopComing
<1>4. Orderly
  BY <1>1, <1>2, <1>3 DEF Orderly, PacketsCurrent, ResponsesCurrent, HandlerWaits, MainAlone,
     StopsHalted, RunningSoon, BreakSent
<1> QED
  BY <1>4, InitInStep DEF PatientInv

-----------------------------------------------------------------------------
(* The cached pc, for a user who waits and does not write registers.         *)
ReadsOnly == Commands \cap {"setregs", "restart"} = {}

\* What is taken is for the thread that takes it.
LEMMA OwnHead ==
  ASSUME Typed, DriverTypes, InStep, Orderly, NEW t \in Senders, Receive(t) \/ ReceiveFails(t)
  PROVE  /\ Head(msgq) \in InFlight \cap Responses
         /\ Head(msgq).to = t /\ Head(msgq).cmd = cmd[t]
         /\ cmd[t] \notin Writes => Head(msgq).pc = tpc
         /\ AckComing' <=> AckComing
<1>1. /\ pc[t] = "response" /\ msgq # <<>> /\ msgq' = Tail(msgq)
      /\ UNCHANGED <<rx, hand, ackq>>
  BY DEF Receive, ReceiveFails
<1>2. /\ Head(msgq) \in InFlight \cap Responses
      /\ InFlight' \subseteq InFlight /\ InFlight \ Responses \subseteq InFlight'
  BY <1>1, ReceiveFlight
<1> DEFINE m == Head(msgq)
<1>3. /\ m.to \in Senders /\ pc[m.to] \in {"ack", "response"} /\ cmd[m.to] = m.cmd
      /\ m.cmd \notin Resumes
      /\ m.cmd \notin Writes => m.pc = tpc
  BY <1>2, FlightType DEF Orderly, ResponsesCurrent
<1>4. m.to = t
  BY <1>1, <1>3, OneWaits
<1>5. AckComing' <=> AckComing
  BY <1>1, <1>2, Kinds DEF AckComing
<1> QED
  BY <1>2, <1>3, <1>4, <1>5

\* The stub acknowledges the packet it takes.
LEMMA StubPacketAcks ==
  ASSUME Typed, DriverTypes, StubPacket
  PROVE  AckComing'
<1> DEFINE p == Head(tx)
<1>1. /\ tx # <<>>
      /\ rx' = (IF p.cmd \in Resumes THEN Append(rx, Ack) ELSE rx \o <<Ack, Response(p, tpc)>>)
      /\ UNCHANGED <<hand, msgq>>
  BY DEF StubPacket, queues
<1>2. p \in Packets
  <2>1. p \in ToStub /\ p.type = "packet"
    BY HeadTailProperties DEF StubPacket, Typed
  <2> QED
    BY <2>1, Kinds
<1>3. Ack \in FromStub /\ Response(p, tpc) \in FromStub
  BY <1>2 DEF FromStub, Response, Responses, Packets, Typed
<1> HIDE DEF p
<1> QED
  BY <1>1, <1>3, WriteFlight DEF AckComing

\* The cache follows the program counter.
LEMMA StepCache ==
  ASSUME Patient, ReadsOnly, Typed, DriverTypes, PatientInv, CacheInv, [Next]_vars
  PROVE  CacheInv'
<1> SUFFICES ASSUME Connected' PROVE CacheCurrent' /\ cmd'["main"] \notin Writes
  BY DEF CacheInv
<1> DEFINE fresh == cache # None => cache = tpc
<1>1. CASE UNCHANGED vars
  <2>1. UNCHANGED <<cache, tpc, pc, cmd, rx, hand, msgq, ackq>>
    BY <1>1 DEF vars, driver, queues, threads, stub
  <2>2. InFlight' = InFlight
    BY <2>1, SameFlight
  <2> QED
    BY <2>1, <2>2 DEF CacheInv, CacheCurrent, Connected, AckComing
<1>2. CASE Next
  <2>1. Connected /\ ~JoinReceiver /\ ~JoinHandler /\ ~SendFails
    BY <1>2, ConnectedBefore
  <2>2. /\ InStep /\ Orderly /\ CacheCurrent /\ cmd["main"] \notin Writes
        /\ cmd["handler"] \in {"m", "g"}
    BY <2>1 DEF PatientInv, CacheInv, DriverTypes
  <2>3. CASE UserCalls
    <3>1. /\ pc["main"] = "idle" /\ UNCHANGED <<cache, tpc>>
          /\ cmd'["main"] \in {cmd["main"], "c", "s", "m", "g", "p"}
      BY <2>3 DEF UserCalls, Run, Step, Restart, AccessMemory, GetRegisters, SetRegisters, GetPc,
         Stop, Disconnect, Issue, Call, ReadsOnly, stub, Typed, Senders
    <3> QED
      BY <2>2, <3>1 DEF CacheCurrent, Writes
  <2>4. ASSUME NEW t \in Senders, Sends(t) PROVE CacheCurrent' /\ cmd'["main"] \notin Writes
    <3>1. CASE Sendpkt(t) \/ Acked(t)
      <4>1. UNCHANGED <<cache, tpc, cmd, rx, hand, msgq>>
        BY <3>1 DEF Sendpkt, Acked, driver, queues, stub
      <4>2. CASE t = "main"
        <5>1. \/ pc["main"] = "send"
              \/ pc["main"] = "ack" /\ pc'["main"] = (IF cmd["main"] \in Resumes THEN "start" ELSE "response")
          BY <3>1, <4>2 DEF Sendpkt, Acked, Typed, Threads, Senders
        <5> QED
          BY <2>2, <4>1, <5>1 DEF CacheCurrent
      <4>3. CASE t = "handler"
        <5>1. pc'["main"] = pc["main"] /\ (Sendpkt(t) => ackq' = ackq)
          BY <3>1, <4>3 DEF Sendpkt, Acked, queues, Typed, Threads, Senders
        <5>2. Acked(t) => pc["main"] # "ack"
          BY <2>2, <4>3 DEF Acked, InStep, LockSound, Senders
        <5>3. InFlight' = InFlight
          BY <4>1, SameFlight
        <5> QED
          BY <2>2, <3>1, <4>1, <5>1, <5>2, <5>3 DEF CacheCurrent, AckComing
      <4> QED
        BY <4>2, <4>3 DEF Senders
    <3>2. CASE Receive(t) \/ ReceiveFails(t)
      <4>1. /\ pc[t] = "response" /\ tpc' = tpc
            /\ t = "handler" => pc'["main"] = pc["main"]
        BY <3>2 DEF Receive, ReceiveFails, Raised, driver, stub, Typed, Threads, Senders
      <4>2. \/ cache' = cache
            \/ cache' = Decoded(t, Head(msgq)) /\ cmd[t] \in Reads
        BY <3>2 DEF Receive, ReceiveFails, driver
      <4>3. cmd["main"] # "P"
        BY <2>2 DEF Writes
      <4>4. cmd'["main"] = cmd["main"]
        BY <3>2, <4>3 DEF Receive, ReceiveFails, Typed, Senders
      <4>5. cmd[t] \in Reads => Decoded(t, Head(msgq)) = tpc
        BY <2>2, <3>2, OwnHead DEF Decoded, Reads, Writes
      <4>6. cache' = cache \/ cache' = tpc'
        BY <4>1, <4>5, <4>2
      <4>7. CASE t = "main"
        <5>1. fresh
          BY <2>2, <4>1, <4>7 DEF CacheCurrent
        <5> QED
          BY <2>2, <4>1, <4>4, <4>6, <5>1 DEF CacheCurrent
      <4>8. CASE t = "handler"
        <5>1. AckComing' <=> AckComing
          BY <2>2, <3>2, OwnHead
        <5> QED
          BY <2>2, <4>1, <4>4, <4>6, <4>8, <5>1 DEF CacheCurrent
      <4> QED
        BY <4>7, <4>8 DEF Senders
    <3>3. CASE AckTimeout(t) \/ ResponseTimeout(t)
      <4>1. /\ UNCHANGED <<cache, tpc, cmd, rx, hand, msgq, ackq>>
            /\ \/ pc[t] = "response"
               \/ pc[t] = "ack" /\ AckTimeout(t)
            /\ t = "handler" => pc'["main"] = pc["main"]
        BY <3>3 DEF AckTimeout, ResponseTimeout, TimesOut, Raised, driver, queues, stub, Typed,
           Threads, Senders
      <4>2. AckTimeout(t) => ~AckComing
        BY <2>2, <3>3, Drained
      <4>3. InFlight' = InFlight
        BY <4>1, SameFlight
      <4> QED
        BY <2>2, <4>1, <4>2, <4>3 DEF CacheCurrent, AckComing, Senders
    <3> QED
      BY <2>4, <3>1, <3>2, <3>3 DEF Sends
  <2>5. CASE SetStopped \/ SetRunning \/ ClearCache
    BY <2>2, <2>5 DEF SetStopped, SetRunning, ClearCache, CacheCurrent, driver, stub, Typed,
       Threads, Senders
  <2>6. CASE EndHandler \/ FaultReply \/ HaltReply \/ HandlerStops
    <3>1. /\ UNCHANGED <<cache, tpc, rx, hand, msgq, ackq>>
          /\ pc'["main"] = pc["main"] /\ cmd'["main"] = cmd["main"]
      BY <2>6 DEF EndHandler, FaultReply, HaltReply, HandlerStops, Takes, driver, queues, threads,
         stub, Typed, Threads, Senders
    <3>2. InFlight' = InFlight
      BY <3>1, SameFlight
    <3> QED
      BY <2>2, <3>1, <3>2 DEF CacheCurrent, AckComing
  <2>7. CASE ReceiverSteps
    BY <2>2, <2>7, ReceiverFlight DEF CacheCurrent
  <2>8. CASE StubPacket
    <3> DEFINE p == Head(tx)
    <3>1. /\ tpc' = (IF p.cmd \in Resumes \cup Writes THEN tpc + 1 ELSE tpc)
          /\ UNCHANGED <<cache, pc, cmd>>
      BY <2>8 DEF StubPacket, driver, threads
    <3>2. p \in Packets /\ p \in ToSet(tx)
      <4>1. tx # <<>> /\ p \in ToStub /\ p.type = "packet"
        BY <2>8, HeadTailProperties DEF StubPacket, Typed
      <4> QED
        BY <4>1, Kinds, ElementsOf DEF Typed
    <3>3. p.from \in Senders /\ pc[p.from] = "ack" /\ cmd[p.from] = p.cmd
      BY <2>2, <3>2 DEF Orderly, PacketsCurrent, Packets
    <3>4. p.cmd \in Resumes \cup Writes =>
            pc["main"] = "ack" /\ cmd["main"] \in Resumes
      BY <2>2, <3>3 DEF Senders, Resumes, Writes
    <3>5. AckComing'
      BY <2>8, StubPacketAcks
    <3> QED
      BY <2>2, <3>1, <3>4, <3>5 DEF CacheCurrent
  <2>9. CASE StubNack \/ StubBreak \/ ProgramHalts
    <3>1. AckComing => AckComing'
      BY <2>9, StubOtherFlight DEF AckComing
    <3> QED
      BY <2>2, <2>9, <3>1, StubOtherFlight DEF CacheCurrent
  <2> QED
    BY <1>2, <2>1, <2>3, <2>4, <2>5, <2>6, <2>7, <2>8, <2>9
    DEF Next, MainSteps, HandlerSteps, StubSteps, Senders
<1> QED
  BY <1>1, <1>2

\* At first nothing is cached.
LEMMA InitCache == Init => CacheInv
  BY DEF Init, CacheInv, CacheCurrent, Writes, Senders

\* Once the user has disconnected nothing is taken from the socket any more,
\* and nothing is left for a thread to take.
Silent == ~Connected => ~open /\ hand = None /\ msgq = <<>>

\* Any step: it stays that way.
LEMMA StepSilent ==
  ASSUME Patient, Typed, DriverTypes, Silent, [Next]_vars
  PROVE  Silent'
<1> USE DEF Typed, Threads, Senders
<1> SUFFICES ASSUME ~Connected' PROVE ~open' /\ hand' = None /\ msgq' = <<>>
  BY DEF Silent
<1>1. CASE UNCHANGED vars
  BY <1>1 DEF vars, driver, queues, threads, stub, Silent, Connected
<1>2. CASE Disconnect
  BY <1>2 DEF Disconnect, Call, Settled, queues
<1>3. CASE Next /\ ~Disconnect
  <2> DEFINE Kept == /\ pc["main"] \in {"join", "pill", "closed"}
                     /\ ~open => ~open'
                     /\ hand = None /\ ~open => hand' = None
                     /\ hand = None /\ msgq = <<>> => msgq' = <<>>
  <2>1. ~((\E name, c : Issue(name, c)) \/ Stop)
    BY DEF Issue, Stop, Call, Connected
  <2>2. ASSUME NEW t \in Senders, Sends(t) PROVE Kept
    <3>1. pc[t] \in {"send", "ack", "response"} /\ UNCHANGED <<open, hand>>
      BY <2>2 DEF Sends, Sendpkt, Acked, Receive, ReceiveFails, AckTimeout, ResponseTimeout, TimesOut
    <3>2. msgq = <<>> => msgq' = <<>>
      BY <2>2 DEF Sends, Sendpkt, Acked, Receive, ReceiveFails, AckTimeout, ResponseTimeout,
         TimesOut, queues
    <3>3. pc'["main"] \in {"join", "pill", "closed"}
      BY DEF Connected
    <3>4. t = "handler" => pc'["main"] = pc["main"]
      BY <2>2 DEF Sends, Sendpkt, Acked, Receive, ReceiveFails, AckTimeout, ResponseTimeout,
         TimesOut, Raised
    <3>5. t # "main"
      BY <2>2, <3>3 DEF Sends, Sendpkt, Acked, Receive, ReceiveFails, AckTimeout,
         ResponseTimeout, TimesOut, Raised, AfterResponse
    <3> QED
      BY <3>1, <3>2, <3>3, <3>4, <3>5
  <2>3. CASE SetStopped \/ SetRunning \/ ClearCache \/ JoinReceiver \/ JoinHandler
    BY <2>3 DEF SetStopped, SetRunning, ClearCache, JoinReceiver, JoinHandler, queues, Connected,
       Silent
  <2>4. CASE SendFails \/ EndHandler \/ FaultReply \/ HaltReply \/ HandlerStops
    BY <2>4 DEF SendFails, EndHandler, FaultReply, HaltReply, HandlerStops, Takes, queues, threads,
       Connected, Silent
  <2>5. CASE ReceiverSteps
    BY <2>5 DEF ReceiverSteps, Take, Deliver, AckQueueFull, EndReceiver, queues, threads,
       Connected, Silent
  <2>6. CASE StubSteps \/ ProgramHalts
    BY <2>6 DEF StubSteps, StubPacket, StubNack, StubBreak, ProgramHalts, queues, threads,
       Connected, Silent
  <2> QED
    BY <1>3, <2>1, <2>2, <2>3, <2>4, <2>5, <2>6, NextSteps DEF Connected, Silent
<1> QED
  BY <1>1, <1>2, <1>3

-----------------------------------------------------------------------------
(* The theorems about a user who waits.                                      *)

\* The conversation of a user who waits is always orderly.
LEMMA SpecPatient == ASSUME Patient PROVE Spec => []PatientInv
<1>1. TypeInv /\ PatientInv /\ [Next]_vars => PatientInv'
  BY StepPatient DEF TypeInv
<1> QED
  BY <1>1, InitPatient, SpecTypeInv, PTL DEF Spec

\* However many packets are damaged, and whenever the program halts by itself:
\* when everything has settled, a program the driver calls stopped is halted,
\* provided the user waits for that before each call.
THEOREM StoppedProgramHalted == ASSUME Patient PROVE Spec => []StoppedIsTrue
<1>1. TypeInv /\ PatientInv => StoppedIsTrue
  <2> SUFFICES ASSUME TypeInv, PatientInv, Settled, status = "STOPPED" PROVE target = "halted"
    BY DEF StoppedIsTrue
  <2>1. ToSet(tx) = {} /\ pc["main"] = "idle"
    BY SettledMeans DEF TypeInv
  <2>2. RunningSoon
    BY <2>1 DEF PatientInv, Connected, Orderly
  <2> QED
    BY <2>1, <2>2 DEF RunningSoon, TypeInv, DriverTypes, Typed
<1> QED
  BY <1>1, SpecTypeInv, SpecPatient, PTL

\* ... and if no call writes registers, the pc that get_pc returns from the
\* cache is the program's.
THEOREM CachedPcRight == ASSUME Patient, ReadsOnly PROVE Spec => []CachedPcIsTrue
<1>1. TypeInv /\ PatientInv /\ CacheInv /\ [Next]_vars => CacheInv'
  BY StepCache DEF TypeInv
<1>2. TypeInv /\ CacheInv => CachedPcIsTrue
  <2> SUFFICES ASSUME TypeInv, CacheInv, Settled, cache # None PROVE cache = tpc
    BY DEF CachedPcIsTrue
  <2> QED
    BY DEF Settled, CacheInv, Connected, CacheCurrent
<1> QED
  BY <1>1, <1>2, InitCache, SpecTypeInv, SpecPatient, PTL DEF Spec

\* The response that _recv_message takes is the one to the command its thread
\* has sent: no call of a user who waits is answered with the response to a
\* command of the stop handler, or to one that a call before gave up on.
THEOREM ResponsesReachCallers == ASSUME Patient PROVE Spec => OwnResponse
<1> DEFINE Own == \A t \in Senders : Receive(t) => /\ Head(msgq).to = t
                                                   /\ Head(msgq).cmd = cmd[t]
<1>1. TypeInv /\ PatientInv /\ Silent => Own
  <2> SUFFICES ASSUME TypeInv, PatientInv, Silent, NEW t \in Senders, Receive(t)
               PROVE  Head(msgq).to = t /\ Head(msgq).cmd = cmd[t]
    OBVIOUS
  <2>1. Connected
    BY DEF Receive, Silent
  <2> QED
    BY <2>1, OwnHead DEF TypeInv, PatientInv
<1>2. Init => Silent
  BY DEF Init, Silent, Connected
<1>3. TypeInv /\ Silent /\ [Next]_vars => Silent'
  BY StepSilent DEF TypeInv
<1>4. TypeInv /\ PatientInv /\ Silent /\ [Next]_vars => [Own]_vars
  BY <1>1
<1> QED
  BY <1>2, <1>3, <1>4, SpecTypeInv, SpecPatient, PTL DEF Spec, OwnResponse
=============================================================================
