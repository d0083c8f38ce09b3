--------------------------- MODULE GdbClientProofs ---------------------------
(* Acks and responses of the gdb client stay in step with the threads that   *)
(* wait for them, for any number of calls and of damaged packets.  The       *)
(* argument counts what is under way: an ack is in the queue, in the         *)
(* receiving thread's hand, on the wire, or still to come for a packet that  *)
(* the stub has not read.                                                    *)
EXTENDS GdbClient, FiniteSetTheorems, SequenceTheorems, TLAPS

\* How many elements of a sequence are in a set.
Positions(s, S) == {i \in DOMAIN s : s[i] \in S}
Count(s, S) == Cardinality(Positions(s, S))
One(x, S) == IF x \in S THEN 1 ELSE 0

\* How Count behaves: it is a number,
LEMMA CountType ==
  ASSUME NEW T, NEW s \in Seq(T), NEW S
  PROVE  IsFiniteSet(Positions(s, S)) /\ Count(s, S) \in Nat
<1>1. IsFiniteSet(1..Len(s)) BY FS_Interval
<1>2. Positions(s, S) \in SUBSET (1..Len(s)) BY DEF Positions
<1>3. IsFiniteSet(Positions(s, S)) BY <1>1, <1>2, FS_Subset
<1>4. QED BY <1>3, FS_CardinalityType DEF Count

\* ... zero of nothing,
LEMMA CountEmpty == ASSUME NEW S PROVE Count(<<>>, S) = 0
BY FS_EmptySet DEF Count, Positions

\* ... counts what is put behind,
LEMMA CountAppend ==
  ASSUME NEW T, NEW s \in Seq(T), NEW e \in T, NEW S
  PROVE  Count(Append(s, e), S) = Count(s, S) + One(e, S)
<1>1. Positions(Append(s, e), S) =
        IF e \in S THEN Positions(s, S) \cup {Len(s) + 1} ELSE Positions(s, S)
  BY DEF Positions
<1>2. Len(s) + 1 \notin Positions(s, S) BY DEF Positions
<1>3. IsFiniteSet(Positions(s, S)) /\ Count(s, S) \in Nat BY CountType
<1>4. CASE e \in S
  <2>1. Cardinality(Positions(s, S) \cup {Len(s) + 1}) = Cardinality(Positions(s, S)) + 1
    BY <1>2, <1>3, FS_AddElement
  <2>2. QED BY <1>1, <1>4, <2>1 DEF Count, One
<1>5. CASE e \notin S BY <1>1, <1>3, <1>5 DEF Count, One
<1>6. QED BY <1>4, <1>5

\* ... and no longer what was taken from the front.
LEMMA CountTail ==
  ASSUME NEW T, NEW s \in Seq(T), s # <<>>, NEW S
  PROVE  Count(s, S) = Count(Tail(s), S) + One(Head(s), S)
<1> DEFINE P == Positions(Tail(s), S)
           Q == Positions(s, S) \ {1}
           f == [i \in P |-> i + 1]
<1>1. /\ Tail(s) \in Seq(T) /\ Len(Tail(s)) = Len(s) - 1 /\ Len(s) >= 1
      /\ \A i \in 1..Len(Tail(s)) : Tail(s)[i] = s[i + 1]
      /\ Head(s) = s[1]
  BY HeadTailProperties, EmptySeq
<1>2. f \in Bijection(P, Q)
  <2>1. \A i \in P : i \in Nat /\ f[i] = i + 1 /\ i + 1 \in Q BY <1>1 DEF Positions
  <2>2. \A j \in Q : j - 1 \in P /\ f[j - 1] = j
    <3> SUFFICES ASSUME NEW j \in Q PROVE j - 1 \in P /\ f[j - 1] = j
      OBVIOUS
    <3>1. j \in 1..Len(s) /\ j # 1 /\ s[j] \in S BY DEF Positions
    <3>2. j - 1 \in 1..Len(Tail(s)) /\ (j - 1) + 1 = j BY <1>1, <3>1
    <3>3. Tail(s)[j - 1] \in S BY <1>1, <3>1, <3>2
    <3>4. j - 1 \in P BY <1>1, <3>2, <3>3 DEF Positions
    <3>5. QED BY <3>2, <3>4
  <2>3. f \in [P -> Q] BY <2>1
  <2>4. f \in Injection(P, Q)
    <3>1. \A a, b \in P : f[a] = f[b] => a = b BY <2>1
    <3> HIDE DEF f
    <3>2. QED BY <2>3, <3>1 DEF Injection, IsInjective
  <2>5. f \in Surjection(P, Q) BY <2>2, <2>3 DEF Surjection
  <2>6. QED BY <2>4, <2>5 DEF Bijection
<1>3. IsFiniteSet(P) /\ Count(Tail(s), S) \in Nat BY <1>1, CountType
<1>4. IsFiniteSet(Positions(s, S)) /\ Count(s, S) \in Nat BY CountType
<1>5. Cardinality(Q) = Cardinality(P)
  <2>1. ExistsBijection(P, Q) BY <1>2 DEF ExistsBijection
  <2> HIDE DEF P, Q
  <2>2. QED BY <1>3, <2>1, FS_Bijection
<1>6. Cardinality(Q) =
        IF 1 \in Positions(s, S) THEN Count(s, S) - 1 ELSE Count(s, S)
  BY <1>4, FS_RemoveElement DEF Count
<1>7. 1 \in Positions(s, S) <=> Head(s) \in S BY <1>1 DEF Positions
<1>8. QED BY <1>3, <1>4, <1>5, <1>6, <1>7 DEF Count, One

-----------------------------------------------------------------------------
(* Types.  What is on the wire, and where the threads are.                   *)
Packets == [type : {"packet"}, from : Senders, cmd : Cmds]
ToStub == Packets \cup {Break}
FromStub == {Ack, Nack} \cup Responses \cup Stops
Threads == Senders \cup {"receiver"}
Places == {"idle", "send", "ack", "response", "start", "clear", "stopping", "stop",
           "join", "pill", "closed", "loop", "dead"}

Typed ==
  /\ tx \in Seq(ToStub) /\ rx \in Seq(FromStub)
  /\ hand \in {None} \cup FromStub
  /\ ackq \in Seq({Ack}) /\ msgq \in Seq(Responses)
  /\ pc \in [Threads -> Places] /\ cmd \in [Senders -> Cmds]
  /\ lock \in {None} \cup Senders
  /\ tpc \in Nat /\ timedOut \in BOOLEAN

\* connect leaves both streams and all queues empty.
LEMMA InitTyped == Init => Typed
<1> SUFFICES ASSUME Init PROVE Typed
  OBVIOUS
<1>1. pc \in [Threads -> Places] BY DEF Init, Threads, Senders, Places
<1>2. cmd \in [Senders -> Cmds] BY DEF Init, Cmds
<1>3. /\ tx \in Seq(ToStub) /\ rx \in Seq(FromStub)
      /\ ackq \in Seq({Ack}) /\ msgq \in Seq(Responses)
  BY EmptySeq DEF Init
<1>4. QED BY <1>1, <1>2, <1>3 DEF Init, Typed

\* The calls of the user,
LEMMA UserTyped == Typed /\ UserCalls => Typed'
<1> SUFFICES ASSUME Typed, UserCalls PROVE Typed'
  OBVIOUS
<1> USE DEF Typed, Threads, Places, Senders, Cmds, Resumes, Reads, Writes
<1>1. CASE \E name, c : Issue(name, c) /\ c \in Cmds
  BY <1>1 DEF Issue, Call, queues, stub
<1>2. CASE Stop
  <2>1. Append(tx, Break) \in Seq(ToStub) BY AppendProperties DEF ToStub
  <2>2. QED BY <1>2, <2>1 DEF Stop, Call, queues, stub
<1>3. CASE Disconnect BY <1>3 DEF Disconnect, Call, queues, stub
<1>4. QED
  BY <1>1, <1>2, <1>3 DEF UserCalls, Run, Step, Restart, AccessMemory, GetRegisters,
     SetRegisters, GetPc

\* ... what each of the two senders does,
LEMMA SendsTyped ==
  ASSUME Typed, NEW t \in Senders, Sends(t)
  PROVE  Typed'
<1> USE DEF Typed, Threads, Places
<1>1. CASE Sendpkt(t)
  <2>1. Packet(t) \in ToStub BY DEF Packet, ToStub, Packets
  <2>2. Append(tx, Packet(t)) \in Seq(ToStub) BY <2>1, AppendProperties
  <2>3. QED BY <1>1, <2>2 DEF Sendpkt, queues, stub
<1>2. CASE Acked(t)
  <2>1. Tail(ackq) \in Seq({Ack}) BY <1>2, HeadTailProperties DEF Acked
  <2>2. QED BY <1>2, <2>1 DEF Acked, stub
<1>3. CASE Receive(t)
  <2>1. Tail(msgq) \in Seq(Responses) BY <1>3, HeadTailProperties DEF Receive
  <2>2. AfterResponse(t) \in Places BY DEF AfterResponse
  <2>3. cmd' \in [Senders -> Cmds] BY <1>3 DEF Receive, Cmds, Resumes
  <2>4. QED BY <1>3, <2>1, <2>2, <2>3 DEF Receive, stub
<1>4. CASE ReceiveFails(t)
  <2>1. Tail(msgq) \in Seq(Responses) BY <1>4, HeadTailProperties DEF ReceiveFails
  <2>2. QED BY <1>4, <2>1 DEF ReceiveFails, Raised, stub
<1>5. CASE AckTimeout(t) BY <1>5 DEF AckTimeout, TimesOut, Raised, queues, stub
<1>6. CASE ResponseTimeout(t) BY <1>6 DEF ResponseTimeout, TimesOut, Raised, queues, stub
<1>7. QED BY <1>1, <1>2, <1>3, <1>4, <1>5, <1>6 DEF Sends

\* ... their other steps,
LEMMA DriverTyped == Typed /\ (MainSteps \/ HandlerSteps) => Typed'
<1> SUFFICES ASSUME Typed, MainSteps \/ HandlerSteps PROVE Typed'
  OBVIOUS
<1> USE DEF Typed, Threads, Places, queues, stub
<1>1. CASE Sends("main") \/ Sends("handler")
  <2>1. {"main", "handler"} \subseteq Senders BY DEF Senders
  <2>2. QED BY <1>1, <2>1, SendsTyped
<1>2. CASE SetStopped \/ SetRunning \/ ClearCache \/ JoinReceiver \/ JoinHandler
  BY <1>2 DEF SetStopped, SetRunning, ClearCache, JoinReceiver, JoinHandler
<1>3. CASE SendFails \/ EndHandler \/ FaultReply \/ HandlerStops
  BY <1>3 DEF SendFails, EndHandler, FaultReply, HandlerStops, threads
<1>4. CASE HaltReply
  <2>1. cmd' \in [Senders -> Cmds] BY <1>4 DEF HaltReply, Cmds, Reads
  <2>2. QED BY <1>4, <2>1 DEF HaltReply
<1>5. QED BY <1>1, <1>2, <1>3, <1>4 DEF MainSteps, HandlerSteps

\* ... those of the receiving thread,
LEMMA ReceiverTyped == Typed /\ ReceiverSteps => Typed'
<1> SUFFICES ASSUME Typed, ReceiverSteps PROVE Typed'
  OBVIOUS
<1> USE DEF Typed
<1>1. CASE Take
  <2>1. Head(rx) \in FromStub /\ Tail(rx) \in Seq(FromStub)
    BY <1>1, HeadTailProperties DEF Take
  <2>2. QED BY <1>1, <2>1 DEF Take, queues, threads, stub
<1>2. CASE Deliver
  <2>1. ackq' \in Seq({Ack}) BY <1>2, AppendProperties DEF Deliver
  <2>2. hand.type = "response" /\ hand \in FromStub => hand \in Responses
    BY DEF FromStub, Ack, Nack, Stops
  <2>3. msgq' \in Seq(Responses)
    BY <1>2, <2>2, AppendProperties DEF Deliver
  <2>4. QED BY <1>2, <2>1, <2>3 DEF Deliver, threads, stub
<1>3. CASE AckQueueFull \/ EndReceiver
  BY <1>3 DEF AckQueueFull, EndReceiver, Threads, Places, queues, stub
<1>4. QED BY <1>1, <1>2, <1>3 DEF ReceiverSteps

\* ... and those of the stub keep the types.
LEMMA StubTyped == Typed /\ (StubSteps \/ ProgramHalts) => Typed'
<1> SUFFICES ASSUME Typed, StubSteps \/ ProgramHalts PROVE Typed'
  OBVIOUS
<1> USE DEF Typed
<1>1. tx # <<>> => Head(tx) \in ToStub /\ Tail(tx) \in Seq(ToStub)
  BY HeadTailProperties
<1>2. CASE StubPacket
  <2> DEFINE p == Head(tx)
  <2>1. p \in Packets BY <1>1, <1>2 DEF StubPacket, ToStub, Break
  <2>2. Response(p, tpc) \in FromStub BY <2>1 DEF Response, Packets, FromStub, Responses
  <2>3. Ack \in FromStub BY DEF FromStub
  <2>4. rx' \in Seq(FromStub)
    <3>1. CASE p.cmd \in Resumes BY <1>2, <2>3, <3>1, AppendProperties DEF StubPacket
    <3>2. CASE p.cmd \notin Resumes
      <4>1. <<Ack, Response(p, tpc)>> \in Seq(FromStub) BY <2>2, <2>3
      <4>2. QED BY <1>2, <3>2, <4>1, ConcatProperties DEF StubPacket
    <3>3. QED BY <3>1, <3>2
  <2>5. QED BY <1>1, <1>2, <2>4 DEF StubPacket, queues, threads
<1>3. CASE StubNack
  <2>1. Append(rx, Nack) \in Seq(FromStub) BY AppendProperties DEF FromStub
  <2>2. QED BY <1>1, <1>3, <2>1 DEF StubNack, queues, threads
<1>4. CASE StubBreak
  <2>1. StopReply("interrupt") \in FromStub BY DEF StopReply, FromStub, Stops
  <2>2. Append(rx, StopReply("interrupt")) \in Seq(FromStub) BY <2>1, AppendProperties
  <2>3. QED BY <1>1, <1>4, <2>2 DEF StubBreak, queues, threads
<1>5. CASE ProgramHalts
  <2>1. PICK code \in StopCodes : rx' = Append(rx, StopReply(code)) BY <1>5 DEF ProgramHalts
  <2>2. StopReply(code) \in FromStub
    BY ConstantsAssumption DEF StopReply, FromStub, Stops
  <2>3. Append(rx, StopReply(code)) \in Seq(FromStub) BY <2>2, AppendProperties
  <2>4. QED BY <1>5, <2>1, <2>3 DEF ProgramHalts, queues, threads
<1>6. QED BY <1>2, <1>3, <1>4, <1>5 DEF StubSteps

\* Every step does.
LEMMA StepTyped == Typed /\ [Next]_vars => Typed'
<1>1. Typed /\ UNCHANGED vars => Typed'
  BY DEF Typed, vars, queues, threads, stub
<1>2. QED
  BY <1>1, UserTyped, DriverTyped, ReceiverTyped, StubTyped DEF Next

-----------------------------------------------------------------------------
(* What is under way, until a call times out.                                *)
Acks == Len(ackq) + Count(rx, {Ack}) + One(hand, {Ack}) + Count(tx, Packets)
Asking == {p \in Packets : p.cmd \notin Resumes}
InHand == IF hand # None /\ hand.type = "response" THEN 1 ELSE 0
Replies == Len(msgq) + Count(rx, Responses) + InHand + Count(tx, Asking)
Waits(t) == IF pc[t] \in {"ack", "response"} /\ cmd[t] \notin Resumes THEN 1 ELSE 0

LockSound == \A t \in Senders : pc[t] = "ack" <=> lock = t
AckSound == Acks <= 1 /\ (Acks = 1 => lock # None)
ReplySound == Replies <= Waits("main") + Waits("handler")
AskSound == \A t \in Senders : pc[t] = "response" => cmd[t] \notin Resumes
InStep == LockSound /\ AckSound /\ ReplySound /\ AskSound

\* The counts are numbers.
LEMMA CountsType ==
  ASSUME Typed
  PROVE  /\ Len(ackq) \in Nat /\ Len(msgq) \in Nat
         /\ Count(rx, {Ack}) \in Nat /\ Count(tx, Packets) \in Nat
         /\ Count(rx, Responses) \in Nat /\ Count(tx, Asking) \in Nat
         /\ One(hand, {Ack}) \in 0..1 /\ InHand \in 0..1
         /\ \A t \in Senders : Waits(t) \in 0..1
BY CountType, LenProperties DEF Typed, One, InHand, Waits

\* Nothing is under way when the driver has connected.
LEMMA InitInStep == Init => InStep
<1> SUFFICES ASSUME Init PROVE InStep
  OBVIOUS
<1>1. tx = <<>> /\ rx = <<>> /\ ackq = <<>> /\ msgq = <<>> /\ hand = None /\ lock = None
  BY DEF Init
<1>2. \A t \in Senders : pc[t] = "idle" BY DEF Init, Senders
<1>3. One(hand, {Ack}) = 0 /\ InHand = 0
  BY <1>1, NoneAssumption DEF One, InHand
<1>4. Acks = 0 /\ Replies = 0 BY <1>1, <1>3, CountEmpty, EmptySeq DEF Acks, Replies
<1>5. Waits("main") \in 0..1 /\ Waits("handler") \in 0..1 BY DEF Waits
<1>6. QED
  BY <1>1, <1>2, <1>4, <1>5, NoneAssumption
  DEF InStep, LockSound, AckSound, ReplySound, AskSound

\* Steps that move nothing, and no thread to or from a wait.
LEMMA QuietKeeps ==
  ASSUME InStep, UNCHANGED <<tx, rx, hand, ackq, msgq, lock>>,
         \A t \in Senders : /\ pc'[t] = "ack" <=> pc[t] = "ack"
                            /\ pc'[t] = "response" <=> pc[t] = "response"
                            /\ pc[t] \in {"ack", "response"} => cmd'[t] = cmd[t]
  PROVE  InStep'
<1>1. \A t \in Senders : Waits(t)' = Waits(t) BY DEF Waits
<1>2. "main" \in Senders /\ "handler" \in Senders BY DEF Senders
<1>3. Acks' = Acks /\ Replies' = Replies BY DEF Acks, Replies, InHand
<1>4. LockSound' /\ AskSound' BY DEF InStep, LockSound, AskSound
<1>5. AckSound' BY <1>3 DEF InStep, AckSound
<1>6. ReplySound' BY <1>1, <1>2, <1>3 DEF InStep, ReplySound
<1>7. QED BY <1>4, <1>5, <1>6 DEF InStep

\* A packet goes out only under the lock: one ack is to come for it.
LEMMA SendpktInStep ==
  ASSUME Typed, InStep, NEW t \in Senders, Sendpkt(t)
  PROVE  InStep'
<1>1. /\ pc[t] = "send" /\ lock = None /\ lock' = t /\ tx' = Append(tx, Packet(t))
      /\ UNCHANGED <<ackq, msgq, rx, hand, cmd>>
      /\ pc' = [pc EXCEPT ![t] = "ack"]
  BY DEF Sendpkt, queues
<1>2. /\ Packet(t) \in Packets /\ Packet(t) \in ToStub
      /\ Packet(t) \in Asking <=> cmd[t] \notin Resumes
  BY DEF Packet, Packets, ToStub, Asking, Typed
<1>3. /\ Count(tx', Packets) = Count(tx, Packets) + 1
      /\ Count(tx', Asking) = Count(tx, Asking) + One(Packet(t), Asking)
  BY <1>1, <1>2, CountAppend DEF Typed, One
<1>4. Acks = 0 BY <1>1, CountsType DEF Acks, InStep, AckSound
<1>5. Acks' = 1 BY <1>1, <1>3, <1>4, CountsType DEF Acks
<1>6. LockSound' /\ AskSound'
  BY <1>1, NoneAssumption DEF InStep, LockSound, AskSound, Typed, Threads
<1>7. Waits(t)' = One(Packet(t), Asking) /\ Waits(t) = 0
  BY <1>1, <1>2 DEF Waits, One, Typed, Threads
<1>8. \A u \in Senders : u # t => Waits(u)' = Waits(u)
  BY <1>1 DEF Waits, Typed, Threads
<1>9. Replies' = Replies + One(Packet(t), Asking)
  <2>1. Len(msgq') = Len(msgq) /\ Count(rx', Responses) = Count(rx, Responses) BY <1>1
  <2>2. InHand' = InHand BY <1>1 DEF InHand
  <2>3. Count(tx', Asking) = Count(tx, Asking) + One(Packet(t), Asking) BY <1>3
  <2>4. One(Packet(t), Asking) \in Nat BY DEF One
  <2> QED BY <2>1, <2>2, <2>3, <2>4, CountsType DEF Replies
<1>10. ReplySound'
  <2>1. Replies \in Nat BY CountsType DEF Replies
  <2>2. One(Packet(t), Asking) \in 0..1 BY DEF One
  <2>3. Waits("main") \in 0..1 /\ Waits("handler") \in 0..1 BY CountsType DEF Senders
  <2>4. QED BY <1>7, <1>8, <1>9, <2>1, <2>2, <2>3 DEF InStep, ReplySound, Senders
<1>11. QED BY <1>1, <1>5, <1>6, <1>10, NoneAssumption DEF InStep, AckSound

\* The ack a sender takes is the only one, and the lock goes with it.
LEMMA AckedInStep ==
  ASSUME Typed, InStep, NEW t \in Senders, Acked(t)
  PROVE  InStep'
<1>1. /\ pc[t] = "ack" /\ ackq # <<>> /\ ackq' = Tail(ackq) /\ lock' = None
      /\ UNCHANGED <<msgq, rx, tx, hand, cmd>>
      /\ pc' = [pc EXCEPT ![t] = IF cmd[t] \in Resumes THEN "start" ELSE "response"]
  BY DEF Acked
<1>2. Len(ackq) \in Nat \ {0} /\ Len(ackq') = Len(ackq) - 1
  BY <1>1, EmptySeq, HeadTailProperties DEF Typed
<1>3. Acks' = 0 BY <1>1, <1>2, CountsType DEF Acks, InStep, AckSound
<1>4. LockSound' /\ AskSound'
  BY <1>1, NoneAssumption DEF InStep, LockSound, AskSound, Typed, Threads
<1>5. \A u \in Senders : Waits(u)' = Waits(u)
  BY <1>1 DEF Waits, Typed, Threads
<1>6. Replies' = Replies BY <1>1 DEF Replies, InHand
<1>7. ReplySound' BY <1>5, <1>6 DEF InStep, ReplySound, Senders
<1>8. QED BY <1>3, <1>4, <1>7 DEF InStep, AckSound

\* A sender that takes a response waits for no other.
LEMMA ReceiveInStep ==
  ASSUME Typed, InStep, NEW t \in Senders, Receive(t) \/ ReceiveFails(t)
  PROVE  InStep'
<1>1. /\ pc[t] = "response" /\ msgq # <<>> /\ msgq' = Tail(msgq)
      /\ UNCHANGED <<ackq, rx, tx, hand, lock>>
  BY DEF Receive, ReceiveFails
<1>2. /\ pc'[t] \notin {"ack", "response"}
      /\ \A u \in Senders : u # t => pc'[u] = pc[u] /\ cmd'[u] = cmd[u]
  BY DEF Receive, ReceiveFails, Raised, AfterResponse, Typed, Threads
<1>3. Len(msgq) \in Nat \ {0} /\ Len(msgq') = Len(msgq) - 1
  BY <1>1, EmptySeq, HeadTailProperties DEF Typed
<1>4. Waits(t) = 1 /\ Waits(t)' = 0
  BY <1>1, <1>2 DEF Waits, InStep, AskSound
<1>5. \A u \in Senders : u # t => Waits(u)' = Waits(u) BY <1>2 DEF Waits
<1>6. Replies' = Replies - 1 BY <1>1, <1>3, CountsType DEF Replies, InHand
<1>7. ReplySound'
  BY <1>4, <1>5, <1>6, CountsType DEF InStep, ReplySound, Senders, Replies
<1>8. LockSound' /\ AskSound'
  BY <1>1, <1>2 DEF InStep, LockSound, AskSound
<1>9. AckSound' BY <1>1 DEF InStep, AckSound, Acks
<1>10. QED BY <1>7, <1>8, <1>9 DEF InStep

GivesUp == \E t \in Senders : AckTimeout(t) \/ ResponseTimeout(t)

\* What a sender does, short of giving up.
LEMMA SendsInStep ==
  ASSUME Typed, InStep, ~GivesUp, NEW t \in Senders, Sends(t)
  PROVE  InStep'
BY SendpktInStep, AckedInStep, ReceiveInStep DEF Sends, GivesUp

\* A call of the user sends nothing yet, but for the break of stop.
LEMMA UserInStep ==
  ASSUME Typed, InStep, UserCalls
  PROVE  InStep'
<1>1. CASE Stop
  <2>1. /\ tx' = Append(tx, Break) /\ pc["main"] = "idle"
        /\ pc' = [pc EXCEPT !["main"] = "stopping"]
        /\ UNCHANGED <<rx, hand, ackq, msgq, lock, cmd>>
    BY <1>1 DEF Stop, Call, queues
  <2>2. Break \in ToStub /\ Break \notin Packets /\ Break \notin Asking
    BY DEF ToStub, Break, Packets, Asking
  <2>3. Count(tx', Packets) = Count(tx, Packets) /\ Count(tx', Asking) = Count(tx, Asking)
    BY <2>1, <2>2, CountAppend, CountsType DEF Typed, One
  <2>4. Acks' = Acks /\ Replies' = Replies BY <2>1, <2>3 DEF Acks, Replies, InHand
  <2>5. \A t \in Senders : Waits(t)' = Waits(t)
    BY <2>1 DEF Waits, Typed, Threads, Senders
  <2>6. LockSound' /\ AskSound'
    BY <2>1 DEF InStep, LockSound, AskSound, Typed, Threads, Senders
  <2>7. AckSound' /\ ReplySound'
    BY <2>1, <2>4, <2>5 DEF InStep, AckSound, ReplySound, Senders
  <2>8. QED BY <2>6, <2>7 DEF InStep
<1>2. CASE ~Stop
  <2>1. /\ UNCHANGED <<tx, rx, hand, ackq, msgq, lock>>
        /\ pc["main"] = "idle" /\ pc'["main"] \in {"send", "join"}
        /\ pc'["handler"] = pc["handler"] /\ cmd'["handler"] = cmd["handler"]
    BY <1>2 DEF UserCalls, Run, Step, Restart, AccessMemory, GetRegisters, SetRegisters,
       GetPc, Disconnect, Issue, Call, queues, Typed, Threads, Senders
  <2>2. QED BY <2>1, QuietKeeps DEF Senders
<1>3. QED BY <1>1, <1>2

\* The steps of the user's thread and of the stop handler.
LEMMA DriverInStep ==
  ASSUME Typed, InStep, ~GivesUp, MainSteps \/ HandlerSteps
  PROVE  InStep'
<1>1. CASE Sends("main") \/ Sends("handler") BY <1>1, SendsInStep DEF Senders
<1>2. CASE SetStopped \/ SetRunning \/ ClearCache \/ JoinReceiver \/ JoinHandler
  <2>1. /\ UNCHANGED <<tx, rx, hand, ackq, msgq, lock, cmd>>
        /\ pc["main"] \notin {"ack", "response"} /\ pc'["main"] \notin {"ack", "response"}
        /\ pc'["handler"] = pc["handler"]
    BY <1>2 DEF SetStopped, SetRunning, ClearCache, JoinReceiver, JoinHandler, queues,
       Typed, Threads, Senders
  <2>2. QED BY <2>1, QuietKeeps DEF Senders
<1>3. CASE SendFails \/ EndHandler \/ FaultReply \/ HaltReply \/ HandlerStops
  <2>1. /\ UNCHANGED <<tx, rx, hand, ackq, msgq, lock>>
        /\ pc["handler"] \notin {"ack", "response"} /\ pc'["handler"] \notin {"ack", "response"}
        /\ pc'["main"] = pc["main"] /\ cmd'["main"] = cmd["main"]
    BY <1>3 DEF SendFails, EndHandler, FaultReply, HaltReply, HandlerStops, Takes, queues,
       threads, Typed, Threads, Senders
  <2>2. QED BY <2>1, QuietKeeps DEF Senders
<1>4. QED BY <1>1, <1>2, <1>3 DEF MainSteps, HandlerSteps

\* What the receiving thread takes it has in hand; a "-" is dropped.
LEMMA TakeInStep == ASSUME Typed, InStep, Take PROVE InStep'
<1>1. /\ hand = None /\ rx # <<>> /\ rx' = Tail(rx)
      /\ hand' = IF Head(rx) = Nack THEN None ELSE Head(rx)
      /\ UNCHANGED <<ackq, msgq, tx, lock, pc, cmd>>
  BY DEF Take, queues, threads
<1>2. Head(rx) \in FromStub BY <1>1, HeadTailProperties DEF Typed
<1>3. /\ Count(rx, {Ack}) = Count(rx', {Ack}) + One(Head(rx), {Ack})
      /\ Count(rx, Responses) = Count(rx', Responses) + One(Head(rx), Responses)
      /\ rx' \in Seq(FromStub)
  BY <1>1, CountTail, HeadTailProperties DEF Typed
<1>4. Count(rx', {Ack}) \in Nat /\ Count(rx', Responses) \in Nat BY <1>3, CountType
<1>5. One(hand', {Ack}) <= One(Head(rx), {Ack}) /\ One(hand, {Ack}) = 0
  BY <1>1, NoneAssumption DEF One
<1>6. InHand' <= One(Head(rx), Responses) /\ InHand = 0
  BY <1>1, <1>2 DEF One, InHand, FromStub, Ack, Nack, Stops
<1>7. /\ One(hand', {Ack}) \in 0..1 /\ One(Head(rx), {Ack}) \in 0..1
      /\ InHand' \in 0..1 /\ One(Head(rx), Responses) \in 0..1
  BY DEF One, InHand
<1>8. Acks' <= Acks /\ Acks' \in Nat /\ Acks \in Nat
  <2>1. Len(ackq) \in Nat /\ Count(tx, Packets) \in Nat BY CountsType
  <2>2. Len(ackq') = Len(ackq) /\ Count(tx', Packets) = Count(tx, Packets) BY <1>1
  <2>3. Count(rx', {Ack}) + One(hand', {Ack}) <= Count(rx, {Ack}) + One(hand, {Ack})
    BY <1>3, <1>4, <1>5, <1>7
  <2>4. Count(rx', {Ack}) + One(hand', {Ack}) \in Nat /\ Count(rx, {Ack}) + One(hand, {Ack}) \in Nat
    BY <1>3, <1>4, <1>5, <1>7
  <2> QED BY <1>3, <1>4, <1>5, <1>7, <2>1, <2>2, <2>3, <2>4 DEF Acks
<1>9. Replies' <= Replies /\ Replies' \in Nat /\ Replies \in Nat
  <2>1. Len(msgq) \in Nat /\ Count(tx, Asking) \in Nat BY CountsType
  <2>2. Len(msgq') = Len(msgq) /\ Count(tx', Asking) = Count(tx, Asking) BY <1>1
  <2>3. Count(rx', Responses) + InHand' <= Count(rx, Responses) + InHand
    BY <1>3, <1>4, <1>6, <1>7
  <2>4. QED BY <1>3, <1>4, <1>6, <1>7, <2>1, <2>2, <2>3 DEF Replies
<1>10. \A t \in Senders : Waits(t)' = Waits(t) BY <1>1 DEF Waits
<1>11. LockSound' /\ AskSound' BY <1>1 DEF InStep, LockSound, AskSound
<1>12. AckSound' BY <1>1, <1>8 DEF InStep, AckSound
<1>13. ReplySound'
  <2>1. Waits("main") \in 0..1 /\ Waits("handler") \in 0..1 BY CountsType DEF Senders
  <2>2. QED BY <1>9, <1>10, <2>1 DEF InStep, ReplySound, Senders
<1>14. QED BY <1>11, <1>12, <1>13 DEF InStep

\* What it has in hand goes to its queue.
LEMMA DeliverInStep == ASSUME Typed, InStep, Deliver PROVE InStep'
<1>1. /\ hand # None /\ hand' = None /\ UNCHANGED <<rx, tx, lock, pc, cmd>>
      /\ ackq' = IF hand = Ack THEN Append(ackq, hand) ELSE ackq
      /\ msgq' = IF hand.type = "response" THEN Append(msgq, hand) ELSE msgq
  BY DEF Deliver, threads
<1>2. Len(ackq') = Len(ackq) + One(hand, {Ack})
  BY <1>1, AppendProperties, LenProperties DEF Typed, One
<1>3. hand.type = "response" => hand \in Responses
  BY <1>1 DEF Typed, FromStub, Ack, Nack, Stops
<1>4. Len(msgq') = Len(msgq) + InHand
  BY <1>1, <1>3, AppendProperties, LenProperties DEF Typed, InHand
<1>5. One(hand', {Ack}) = 0 /\ InHand' = 0 BY <1>1, NoneAssumption DEF One, InHand
<1>6. Acks' = Acks
  <2>1. Count(rx', {Ack}) = Count(rx, {Ack}) /\ Count(tx', Packets) = Count(tx, Packets)
    BY <1>1
  <2>2. /\ Len(ackq) \in Nat /\ Count(rx, {Ack}) \in Nat
        /\ One(hand, {Ack}) \in 0..1 /\ Count(tx, Packets) \in Nat
    BY CountsType
  <2>3. QED BY <1>2, <1>5, <2>1, <2>2 DEF Acks
<1>7. Replies' = Replies BY <1>1, <1>4, <1>5, CountsType DEF Replies
<1>8. \A t \in Senders : Waits(t)' = Waits(t) BY <1>1 DEF Waits
<1>9. QED
  BY <1>1, <1>6, <1>7, <1>8
  DEF InStep, LockSound, AskSound, AckSound, ReplySound, Senders

\* A second ack while one is in the queue cannot be: nobody dies of it.
LEMMA NoFullAckQueue == ASSUME Typed, InStep PROVE ~AckQueueFull
<1> SUFFICES ASSUME AckQueueFull PROVE FALSE
  OBVIOUS
<1>1. One(hand, {Ack}) = 1 BY DEF AckQueueFull, One
<1>2. Len(ackq) >= 1 BY EmptySeq DEF AckQueueFull, Typed
<1>3. QED BY <1>1, <1>2, CountsType DEF InStep, AckSound, Acks

\* The stub turns a packet into an ack and, unless it resumes, a response.
LEMMA StubPacketInStep == ASSUME Typed, InStep, StubPacket PROVE InStep'
<1> DEFINE p == Head(tx)
           reply == Response(p, tpc)
<1>1. /\ tx # <<>> /\ tx' = Tail(tx)
      /\ rx' = IF p.cmd \in Resumes THEN Append(rx, Ack) ELSE rx \o <<Ack, reply>>
      /\ UNCHANGED <<ackq, msgq, hand, lock, pc, cmd>>
  BY DEF StubPacket, queues, threads
<1>2. p \in Packets
  BY <1>1, HeadTailProperties DEF StubPacket, Typed, ToStub, Break
<1>3. reply \in Responses BY <1>2 DEF Response, Packets, Responses, Typed
<1>4. Count(tx, Packets) = Count(tx', Packets) + 1 BY <1>1, <1>2, CountTail DEF Typed, One
<1>5. Count(tx, Asking) = Count(tx', Asking) + One(p, Asking) BY <1>1, CountTail DEF Typed
<1>6. Count(tx', Packets) \in Nat /\ Count(tx', Asking) \in Nat
  BY <1>1, HeadTailProperties, CountType DEF Typed
<1>7. p \in Asking <=> p.cmd \notin Resumes BY <1>2 DEF Asking
<1> HIDE DEF p, reply
<1>8. /\ Count(rx', {Ack}) = Count(rx, {Ack}) + 1
      /\ Count(rx', Responses) = Count(rx, Responses) + One(p, Asking)
  <2>1. /\ Append(rx, Ack) \in Seq(FromStub)
        /\ Count(Append(rx, Ack), {Ack}) = Count(rx, {Ack}) + 1
        /\ Count(Append(rx, Ack), Responses) = Count(rx, Responses)
    <3>1. Ack \in FromStub /\ Ack \notin Responses BY DEF FromStub, Ack, Responses
    <3>2. QED BY <3>1, AppendProperties, CountAppend, CountsType DEF Typed, One
  <2>2. /\ Count(Append(Append(rx, Ack), reply), {Ack}) = Count(rx, {Ack}) + 1
        /\ Count(Append(Append(rx, Ack), reply), Responses) = Count(rx, Responses) + 1
    <3>1. reply \in FromStub /\ reply \notin {Ack} BY <1>3 DEF FromStub, Ack, Responses
    <3>2. One(reply, {Ack}) = 0 /\ One(reply, Responses) = 1 BY <1>3, <3>1 DEF One
    <3>3. ASSUME NEW s \in Seq(FromStub), NEW S
          PROVE  Count(Append(s, reply), S) = Count(s, S) + One(reply, S)
      BY <3>1, CountAppend
    <3>4. Count(Append(Append(rx, Ack), reply), {Ack})
            = Count(Append(rx, Ack), {Ack}) + One(reply, {Ack})
      BY <2>1, <3>3
    <3>5. Count(Append(Append(rx, Ack), reply), Responses)
            = Count(Append(rx, Ack), Responses) + One(reply, Responses)
      BY <2>1, <3>3
    <3>6. Count(rx, {Ack}) \in Nat /\ Count(rx, Responses) \in Nat BY CountsType
    <3>7. QED BY <2>1, <3>2, <3>4, <3>5, <3>6
  <2>3. rx \o <<Ack, reply>> = Append(Append(rx, Ack), reply) BY DEF Typed
  <2>4. Count(rx, {Ack}) \in Nat /\ Count(rx, Responses) \in Nat BY CountsType
  <2>5. CASE p.cmd \in Resumes
    <3>1. rx' = Append(rx, Ack) /\ One(p, Asking) = 0 BY <1>1, <1>7, <2>5 DEF One
    <3>2. QED BY <2>1, <2>4, <3>1
  <2>6. CASE p.cmd \notin Resumes
    <3>1. rx' = Append(Append(rx, Ack), reply) /\ One(p, Asking) = 1
      BY <1>1, <1>7, <2>3, <2>6 DEF One
    <3>2. QED BY <2>2, <3>1
  <2>7. QED BY <2>5, <2>6
<1>9. Acks' = Acks
  <2>1. Len(ackq') = Len(ackq) /\ One(hand', {Ack}) = One(hand, {Ack}) BY <1>1
  <2>2. /\ Len(ackq) \in Nat /\ Count(rx, {Ack}) \in Nat /\ One(hand, {Ack}) \in 0..1
    BY CountsType
  <2>3. QED BY <1>4, <1>6, <1>8, <2>1, <2>2 DEF Acks
<1>10. Replies' = Replies
  <2>1. One(p, Asking) \in 0..1 BY DEF One
  <2>2. Len(msgq') = Len(msgq) /\ InHand' = InHand BY <1>1 DEF InHand
  <2>3. Len(msgq) \in Nat /\ Count(rx, Responses) \in Nat /\ InHand \in 0..1
    BY CountsType
  <2>4. QED BY <1>5, <1>6, <1>8, <2>1, <2>2, <2>3 DEF Replies
<1>11. \A t \in Senders : Waits(t)' = Waits(t) BY <1>1 DEF Waits
<1>12. QED
  BY <1>1, <1>9, <1>10, <1>11
  DEF InStep, LockSound, AskSound, AckSound, ReplySound, Senders

\* Other packets from the stub carry no ack and no response.
LEMMA StubOtherInStep ==
  ASSUME Typed, InStep, StubNack \/ StubBreak \/ ProgramHalts
  PROVE  InStep'
<1>1. UNCHANGED <<ackq, msgq, hand, lock, pc, cmd>>
  BY DEF StubNack, StubBreak, ProgramHalts, queues, threads
<1>2. Count(rx', {Ack}) = Count(rx, {Ack}) /\ Count(rx', Responses) = Count(rx, Responses)
  <2>1. rx' = rx \/ \E m \in {Nack} \cup Stops : rx' = Append(rx, m)
    <3>1. \A code \in StopCodes \cup {"interrupt"} : StopReply(code) \in Stops
      BY ConstantsAssumption DEF StopReply, Stops
    <3>2. QED BY <3>1 DEF StubNack, StubBreak, ProgramHalts
  <2>2. \A m \in {Nack} \cup Stops : m \in FromStub /\ m \notin {Ack} /\ m \notin Responses
    BY DEF FromStub, Ack, Nack, Stops, Responses
  <2>3. Count(rx, {Ack}) \in Nat /\ Count(rx, Responses) \in Nat BY CountsType
  <2>4. CASE rx' = rx BY <2>4
  <2>5. ASSUME NEW m \in {Nack} \cup Stops, rx' = Append(rx, m)
        PROVE  /\ Count(rx', {Ack}) = Count(rx, {Ack})
               /\ Count(rx', Responses) = Count(rx, Responses)
    <3>1. One(m, {Ack}) = 0 /\ One(m, Responses) = 0 BY <2>2 DEF One
    <3>2. \A S : Count(Append(rx, m), S) = Count(rx, S) + One(m, S)
      BY <2>2, CountAppend DEF Typed
    <3>3. QED BY <2>3, <2>5, <3>1, <3>2
  <2>6. QED BY <2>1, <2>4, <2>5
<1>3. /\ Count(tx', Packets) \in Nat /\ Count(tx', Packets) <= Count(tx, Packets)
      /\ Count(tx', Asking) \in Nat /\ Count(tx', Asking) <= Count(tx, Asking)
  <2>1. tx' = tx \/ (tx # <<>> /\ tx' = Tail(tx)) BY DEF StubNack, StubBreak, ProgramHalts
  <2>2. CASE tx' = tx BY <2>2, CountsType
  <2>3. CASE tx # <<>> /\ tx' = Tail(tx)
    <3>1. tx' \in Seq(ToStub) BY <2>3, HeadTailProperties DEF Typed
    <3>2. Count(tx', Packets) \in Nat /\ Count(tx', Asking) \in Nat BY <3>1, CountType
    <3>3. /\ Count(tx, Packets) = Count(tx', Packets) + One(Head(tx), Packets)
          /\ Count(tx, Asking) = Count(tx', Asking) + One(Head(tx), Asking)
      BY <2>3, CountTail DEF Typed
    <3>4. One(Head(tx), Packets) \in 0..1 /\ One(Head(tx), Asking) \in 0..1 BY DEF One
    <3>5. QED BY <3>2, <3>3, <3>4
  <2>4. QED BY <2>1, <2>2, <2>3
<1>4. Acks' <= Acks /\ Acks' \in Nat /\ Acks \in Nat
  BY <1>1, <1>2, <1>3, CountsType DEF Acks
<1>5. Replies' <= Replies /\ Replies' \in Nat /\ Replies \in Nat
  <2>1. Len(msgq') = Len(msgq) BY <1>1
  <2>2. InHand' = InHand BY <1>1 DEF InHand
  <2> QED BY <1>2, <1>3, <2>1, <2>2, CountsType DEF Replies
<1>6. \A t \in Senders : Waits(t)' = Waits(t) BY <1>1 DEF Waits
<1>7. ReplySound'
  <2>1. Waits("main") \in 0..1 /\ Waits("handler") \in 0..1 BY CountsType DEF Senders
  <2>2. QED BY <1>5, <1>6, <2>1 DEF InStep, ReplySound, Senders
<1>8. AckSound' BY <1>1, <1>4 DEF InStep, AckSound
<1>9. QED BY <1>1, <1>7, <1>8 DEF InStep, LockSound, AskSound

\* Every step in which no call gives up.
LEMMA StepInStep == ASSUME Typed, InStep, ~GivesUp, [Next]_vars PROVE InStep'
<1>1. CASE UNCHANGED vars
  <2>1. UNCHANGED <<tx, rx, hand, ackq, msgq, lock, pc, cmd>>
    BY <1>1 DEF vars, queues, threads
  <2>2. QED BY <2>1, QuietKeeps
<1>2. CASE EndReceiver
  <2>1. /\ UNCHANGED <<tx, rx, hand, ackq, msgq, lock, cmd>>
        /\ \A t \in Senders : pc'[t] = pc[t]
    BY <1>2 DEF EndReceiver, queues, Typed, Threads, Senders
  <2>2. QED BY <2>1, QuietKeeps
<1>3. CASE StubSteps \/ ProgramHalts
  BY <1>3, StubPacketInStep, StubOtherInStep DEF StubSteps
<1>4. CASE ReceiverSteps
  BY <1>2, <1>4, TakeInStep, DeliverInStep, NoFullAckQueue DEF ReceiverSteps
<1>5. QED BY <1>1, <1>3, <1>4, UserInStep, DriverInStep DEF Next

-----------------------------------------------------------------------------
(* The receiving thread.                                                     *)

\* No step brings a call that has given up back, or opens the socket again,
\* and the receiving thread ends of itself only when the socket is closed.
LEMMA StepForGood ==
  ASSUME Typed, [Next]_vars
  PROVE  /\ timedOut => timedOut'
         /\ ~open => ~open'
         /\ pc'["receiver"] = "dead" =>
              pc["receiver"] = "dead" \/ ~open \/ AckQueueFull
<1> DEFINE Kept == /\ timedOut => timedOut'
                   /\ ~open => ~open'
                   /\ pc'["receiver"] = pc["receiver"]
<1> USE DEF Typed, Threads, Senders
<1>1. CASE UNCHANGED vars
  <2>1. Kept BY <1>1 DEF vars, threads
  <2>2. QED BY <2>1
<1>2. CASE UserCalls
  <2>1. Kept
    BY <1>2 DEF UserCalls, Run, Step, Restart, AccessMemory, GetRegisters, SetRegisters,
       GetPc, Stop, Disconnect, Issue, Call
  <2>2. QED BY <2>1
<1>3. ASSUME NEW t \in Senders, Sends(t) PROVE Kept
  BY <1>3 DEF Sends, Sendpkt, Acked, Receive, ReceiveFails, AckTimeout, ResponseTimeout,
     TimesOut, Raised
<1>4. CASE MainSteps \/ HandlerSteps
  <2>1. Kept
    BY <1>3, <1>4 DEF MainSteps, HandlerSteps, SetStopped, SetRunning, ClearCache,
       JoinReceiver, JoinHandler, SendFails, EndHandler, FaultReply, HaltReply,
       HandlerStops, threads
  <2>2. QED BY <2>1
<1>5. CASE Take \/ Deliver
  <2>1. Kept BY <1>5 DEF Take, Deliver, threads
  <2>2. QED BY <2>1
<1>6. CASE AckQueueFull BY <1>6 DEF AckQueueFull
<1>7. CASE EndReceiver BY <1>7 DEF EndReceiver
<1>8. CASE StubSteps \/ ProgramHalts
  <2>1. Kept
    BY <1>8 DEF StubSteps, StubPacket, StubNack, StubBreak, ProgramHalts, threads
  <2>2. QED BY <2>1
<1>9. QED BY <1>1, <1>2, <1>4, <1>5, <1>6, <1>7, <1>8 DEF Next, ReceiverSteps

\* The inductive invariant: what is under way is in step with the threads for
\* as long as no call has timed out.
IInv == Typed /\ (~timedOut => InStep) /\ ReceiverLives

\* The invariant holds at first
LEMMA InitIInv == Init => IInv
<1>1. Init => ReceiverLives BY DEF Init, ReceiverLives
<1>2. QED BY <1>1, InitTyped, InitInStep DEF IInv

\* ... and after every step,
LEMMA StepIInv == IInv /\ [Next]_vars => IInv'
<1> SUFFICES ASSUME IInv, [Next]_vars PROVE IInv'
  OBVIOUS
<1>1. Typed' BY StepTyped DEF IInv
<1>2. ~timedOut' => ~timedOut BY StepForGood DEF IInv
<1>3. ~timedOut' => InStep'
  <2>1. ~timedOut' => ~GivesUp BY DEF GivesUp, AckTimeout, ResponseTimeout, TimesOut
  <2>2. QED BY <1>2, <2>1, StepInStep DEF IInv
<1>4. ReceiverLives'
  <2> SUFFICES ASSUME pc'["receiver"] = "dead", ~timedOut', open' PROVE FALSE
    BY DEF ReceiverLives
  <2>1. open /\ ~timedOut BY StepForGood DEF IInv
  <2>2. pc["receiver"] # "dead" BY <2>1 DEF IInv, ReceiverLives
  <2>3. ~AckQueueFull BY <2>1, NoFullAckQueue DEF IInv
  <2>4. QED BY <2>1, <2>2, <2>3, StepForGood DEF IInv
<1>5. QED BY <1>1, <1>3, <1>4 DEF IInv

\* The counts of the properties are those of the argument.
LEMMA CountsOfProperties ==
  ASSUME Typed
  PROVE  /\ AcksOf(rx) = Positions(rx, {Ack})
         /\ PacketsOf(tx) = Positions(tx, Packets)
         /\ ResponsesOf(rx) = Positions(rx, Responses)
<1>1. AcksOf(rx) = Positions(rx, {Ack}) BY DEF AcksOf, Positions
<1>2. PacketsOf(tx) = Positions(tx, Packets)
  <2>1. \A i \in DOMAIN tx : tx[i] \in ToStub BY ElementOfSeq DEF Typed
  <2>2. \A m \in ToStub : m.type = "packet" <=> m \in Packets
    BY DEF ToStub, Packets, Break
  <2>3. QED BY <2>1, <2>2 DEF PacketsOf, Positions
<1>3. ResponsesOf(rx) = Positions(rx, Responses)
  <2>1. \A i \in DOMAIN rx : rx[i] \in FromStub BY ElementOfSeq DEF Typed
  <2>2. \A m \in FromStub : m.type = "response" <=> m \in Responses
    BY DEF FromStub, Responses, Stops, Ack, Nack
  <2>3. QED BY <2>1, <2>2 DEF ResponsesOf, Positions
<1>4. QED BY <1>1, <1>2, <1>3

\* The waiting threads counted as a set and one by one.
LEMMA WaitingThreads ==
  Cardinality({t \in Senders : pc[t] \in {"ack", "response"} /\ cmd[t] \notin Resumes})
    = Waits("main") + Waits("handler")
<1> DEFINE W(t) == pc[t] \in {"ack", "response"} /\ cmd[t] \notin Resumes
           waiting == {t \in Senders : W(t)}
<1>1. waiting = (IF W("main") THEN {"main"} ELSE {})
                  \cup (IF W("handler") THEN {"handler"} ELSE {})
  BY DEF Senders
<1>2. Waits("main") = (IF W("main") THEN 1 ELSE 0)
      /\ Waits("handler") = (IF W("handler") THEN 1 ELSE 0)
  BY DEF Waits
<1>3. /\ Cardinality({}) = 0 /\ Cardinality({"main"}) = 1 /\ Cardinality({"handler"}) = 1
      /\ Cardinality({"main", "handler"}) = 2
  <2>1. IsFiniteSet({"main"}) /\ Cardinality({"main"}) = 1 BY FS_Singleton
  <2>2. Cardinality({"main"} \cup {"handler"}) = 2 BY <2>1, FS_AddElement
  <2>3. {"main"} \cup {"handler"} = {"main", "handler"} OBVIOUS
  <2>4. QED BY <2>1, <2>2, <2>3, FS_Singleton, FS_EmptySet
<1> HIDE DEF W
<1>4. Cardinality(waiting) = Waits("main") + Waits("handler")
  <2>1. CASE W("main") /\ W("handler")
    <3>1. waiting = {"main", "handler"} BY <1>1, <2>1
    <3>2. QED BY <1>2, <1>3, <2>1, <3>1
  <2>2. CASE W("main") /\ ~W("handler")
    <3>1. waiting = {"main"} BY <1>1, <2>2
    <3>2. QED BY <1>2, <1>3, <2>2, <3>1
  <2>3. CASE ~W("main") /\ W("handler")
    <3>1. waiting = {"handler"} BY <1>1, <2>3
    <3>2. QED BY <1>2, <1>3, <2>3, <3>1
  <2>4. CASE ~W("main") /\ ~W("handler")
    <3>1. waiting = {} BY <1>1, <2>4
    <3>2. QED BY <1>2, <1>3, <2>4, <3>1
  <2>5. QED BY <2>1, <2>2, <2>3, <2>4
<1>5. QED BY <1>4 DEF W

\* ... and it says what the properties do.
LEMMA IInvImplies == IInv => OneAckOutstanding /\ EveryResponseAwaited
<1> SUFFICES ASSUME IInv, ~timedOut PROVE OneAckOutstanding /\ EveryResponseAwaited
  BY DEF OneAckOutstanding, EveryResponseAwaited
<1>1. Typed /\ InStep BY DEF IInv
<1>2. AcksPending + Cardinality(PacketsOf(tx)) = Acks
  BY <1>1, CountsOfProperties DEF AcksPending, Acks, Count, One
<1>3. OneAckOutstanding BY <1>1, <1>2 DEF OneAckOutstanding, InStep, AckSound
<1>4. ResponsesPending <= Replies
  <2>1. ResponsesPending = Len(msgq) + Count(rx, Responses) + InHand
    BY <1>1, CountsOfProperties DEF ResponsesPending, Count, InHand
  <2>2. /\ Len(msgq) \in Nat /\ Count(rx, Responses) \in Nat /\ InHand \in 0..1
        /\ Count(tx, Asking) \in Nat
    BY <1>1, CountsType
  <2>3. QED BY <2>1, <2>2 DEF Replies
<1>5. EveryResponseAwaited
  <2>1. ResponsesPending \in Nat /\ Replies \in Nat
    <3>1. ResponsesPending = Len(msgq) + Count(rx, Responses) + InHand
      BY <1>1, CountsOfProperties DEF ResponsesPending, Count, InHand
    <3>2. QED BY <1>1, <3>1, CountsType DEF Replies
  <2>2. Waits("main") + Waits("handler") \in Nat BY DEF Waits
  <2>3. ResponsesPending <= Waits("main") + Waits("handler")
    BY <1>1, <1>4, <2>1, <2>2 DEF InStep, ReplySound
  <2>4. QED BY <2>3, WaitingThreads DEF EveryResponseAwaited
<1>6. QED BY <1>3, <1>5

-----------------------------------------------------------------------------
(* The theorems.                                                             *)

\* So it always holds.
LEMMA SpecIInv == Spec => []IInv
<1>1. QED BY InitIInv, StepIInv, PTL DEF Spec

\* Whatever the user calls, however often, and however many packets reach the
\* stub damaged: until a call has timed out there is at most one ack under way
\* or to come, and while there is one a thread holds the lock of sendpkt, so
\* that no packet is taken to have arrived on the ack of another one.
THEOREM AcksInStep == Spec => []OneAckOutstanding
<1>1. IInv => OneAckOutstanding BY IInvImplies
<1>2. QED BY <1>1, SpecIInv, PTL

\* Until a call has timed out, there are never more responses under way than
\* threads in sendpkt or _recv_message that will take one: the receiving thread
\* is not held up for good by a full message queue.
THEOREM ResponsesAwaited == Spec => []EveryResponseAwaited
<1>1. IInv => EveryResponseAwaited BY IInvImplies
<1>2. QED BY <1>1, SpecIInv, PTL

\* The receiving thread ends only on disconnect, or after a call has timed out:
\* the put of an ack into the queue of one does not raise queue.Full before.
THEOREM ReceiverStays == Spec => []ReceiverLives
<1>1. IInv => ReceiverLives BY DEF IInv
<1>2. QED BY <1>1, SpecIInv, PTL
=============================================================================
