--------------------------- MODULE ScanWorkerProofs ---------------------------
(***************************************************************************)
(* What ScanWorker promises, for files, pipes and bounds of any size: a    *)
(* result is about one whole version of the file, request and content do   *)
(* not get out of step, and a worker is replaced in time. Four invariants: *)
(* Types; Copy, of what was read and accepted; Turns, of the requests a    *)
(* worker has been given; Exchange, of where an honest worker and the pipe *)
(* are at each place of the broker.                                        *)
(***************************************************************************)
EXTENDS ScanWorker, SequenceTheorems, TLAPS

ToWorker == [kind : {"configuration", "scan", "content"}, id : Inspections,
             size : 0..MaxSize, data : Seq(Int)]
ToBroker == [kind : {"hello", "configured", "answer"}, id : Inspections,
             size : 0..MaxSize, data : Seq(Int)]
Jobs == [id : Inspections, size : 0..MaxSize, got : Seq(Int)]

FileTypes ==
    /\ length \in 0..MaxSize /\ version \in Versions
    /\ opened \in Metadata /\ sent \in Seq(Versions) /\ Len(sent) <= opened.size

PlaceTypes ==
    /\ pc \in {"idle", "hello", "ack", "send", "stream", "check", "wait"}
    /\ wpc \in {"none", "boot", "configure", "ready", "scan", "dead"}
    /\ hung \in BOOLEAN /\ lied \in BOOLEAN

CountTypes ==
    /\ begun \in Inspections /\ requests \in 0..MaxRequests
    /\ served \in Nat /\ faults \in 0..MaxFaults
    /\ pc # "idle" => requests < MaxRequests

Piped(j, t, b) ==
    /\ j \in Jobs /\ Len(j.got) <= j.size
    /\ t \in Seq(ToWorker) /\ \A i \in 1..Len(t) : Len(t[i].data) <= 1
    /\ b \in Seq(ToBroker)

PipeTypes == Piped(job, toWorker, toBroker)

Types == FileTypes /\ PlaceTypes /\ CountTypes /\ PipeTypes

-----------------------------------------------------------------------------
(* Sequences, element by element. *)
LEMMA Taken ==
    ASSUME NEW S, NEW q \in Seq(S), q # <<>>
    PROVE  /\ Tail(q) \in Seq(S) /\ Head(q) \in S /\ Head(q) = q[1]
           /\ Len(q) \in Nat \ {0} /\ Len(Tail(q)) = Len(q) - 1
           /\ \A i \in 1..Len(Tail(q)) : Tail(q)[i] = q[i + 1]
BY HeadTailProperties, EmptySeq

LEMMA Added ==
    ASSUME NEW S, NEW q \in Seq(S), NEW e \in S
    PROVE  /\ Append(q, e) \in Seq(S)
           /\ Len(q) \in Nat /\ Len(Append(q, e)) = Len(q) + 1
           /\ \A i \in 1..Len(q) : Append(q, e)[i] = q[i]
           /\ Append(q, e)[Len(q) + 1] = e
BY AppendProperties, LenProperties

LEMMA EmptyByLength ==
    ASSUME NEW S, NEW q \in Seq(S)
    PROVE  Len(q) \in Nat /\ (q = <<>> <=> Len(q) = 0)
BY EmptySeq, LenProperties

(* Everything typed follows, but for what TypeOK says of each frame.       *)
LEMMA TypesSuffice == Types => TypeOK
<1> SUFFICES ASSUME Types PROVE TypeOK
  OBVIOUS
<1>1. \A i \in 1..Len(toWorker) : toWorker[i] \in ToWorker
  BY ElementOfSeq DEF Types, PipeTypes, Piped
<1>2. \A i \in 1..Len(toBroker) : toBroker[i] \in ToBroker
  BY ElementOfSeq DEF Types, PipeTypes, Piped
<1> QED BY <1>1, <1>2 DEF Types, FileTypes, PlaceTypes, CountTypes, PipeTypes, Piped, ToWorker, ToBroker,
           Jobs, TypeOK

LEMMA NoData == <<>> \in Seq(Int) /\ Len(<<>>) = 0 /\ 0 \in 0..MaxSize
BY EmptySeq, WorkerAssumption

LEMMA EmptyPipe == Piped(NoJob, <<>>, <<>>)
<1>1. <<>> \in Seq(Int) /\ <<>> \in Seq(ToWorker) /\ <<>> \in Seq(ToBroker) /\ Len(<<>>) = 0
  BY EmptySeq
<1>2. NoJob \in Jobs /\ NoJob.got = <<>> /\ NoJob.size = 0
  BY <1>1, WorkerAssumption DEF NoJob, Jobs, Inspections
<1>3. 1..Len(<<>>) = {}
  BY <1>1
<1> QED BY <1>1, <1>2, <1>3 DEF Piped

LEMMA StartsTyped == Init => Types
<1> SUFFICES ASSUME Init PROVE Types
  OBVIOUS
<1> USE WorkerAssumption DEF Init
<1>1. FileTypes
  BY EmptySeq DEF FileTypes, Versions, Metadata
<1>2. PlaceTypes
  BY DEF PlaceTypes
<1>3. CountTypes
  BY DEF CountTypes, Inspections
<1>4. PipeTypes
  BY EmptyPipe DEF PipeTypes
<1> QED BY <1>1, <1>2, <1>3, <1>4 DEF Types

(* A frame is of its side of the pipe.                                     *)
LEMMA FramesTyped ==
    ASSUME NEW id \in Inspections, NEW size \in 0..MaxSize, NEW data \in Seq(Int)
    PROVE  /\ \A kind \in {"configuration", "scan", "content"} : Frame(kind, id, size, data) \in ToWorker
           /\ \A kind \in {"hello", "configured", "answer"} : Frame(kind, id, size, data) \in ToBroker
           /\ \A kind : /\ Frame(kind, id, size, data).kind = kind /\ Frame(kind, id, size, data).id = id
                        /\ Frame(kind, id, size, data).size = size /\ Frame(kind, id, size, data).data = data
BY DEF Frame, ToWorker, ToBroker

(* What a failure leaves: no worker, and an empty pipe.                    *)
Closed ==
    /\ pc' = "idle" /\ wpc' = "none" /\ hung' = FALSE /\ job' = NoJob
    /\ toWorker' = <<>> /\ toBroker' = <<>> /\ requests' = 0 /\ served' = 0 /\ lied' = FALSE
    /\ UNCHANGED <<length, version, begun, opened, sent, result, faults>>

LEMMA FailCloses == Fail => Closed
BY DEF Fail, Close, Closed, file

LEMMA ClosedTyped == Types /\ Closed => Types'
<1> SUFFICES ASSUME Types, Closed PROVE Types'
  OBVIOUS
<1> USE WorkerAssumption DEF Types, Closed
<1>1. FileTypes'
  BY DEF FileTypes
<1>2. PlaceTypes'
  BY DEF PlaceTypes
<1>3. CountTypes'
  BY DEF CountTypes
<1>4. PipeTypes'
  BY EmptyPipe DEF PipeTypes
<1> QED BY <1>1, <1>2, <1>3, <1>4

LEMMA WorkerTyped == Types /\ Worker => Types'
<1> SUFFICES ASSUME Types, Worker PROVE Types'
  OBVIOUS
<1> USE WorkerAssumption DEF Types
<1>1. Running
  BY DEF Worker, Hello, Configure, TakeRequest, TakeContent, Answer
<1>2. FileTypes'
  BY <1>1 DEF Running, FileTypes, file, broker
<1>3. PlaceTypes'
  <2>1. wpc' \in {"none", "boot", "configure", "ready", "scan", "dead"}
    BY DEF Worker, Hello, Configure, TakeRequest, TakeContent, Answer, PlaceTypes
  <2> QED BY <1>1, <2>1 DEF Running, PlaceTypes
<1>4. CountTypes'
  <2>1. served' = served \/ served' = served + 1
    BY DEF Worker, Hello, Configure, TakeRequest, TakeContent, Answer
  <2> QED BY <1>1, <2>1 DEF Running, CountTypes, broker
<1>5. PipeTypes'
  <2>1. CASE Hello
    <3>1. Frame("hello", begun, 0, <<>>) \in ToBroker
      BY FramesTyped, NoData DEF CountTypes
    <3>2. toBroker' \in Seq(ToBroker)
      BY <2>1, <3>1, Added DEF Hello, PipeTypes, Piped
    <3> QED BY <2>1, <3>2 DEF Hello, PipeTypes, Piped
  <2>2. CASE Configure \/ TakeRequest \/ TakeContent
    <3>1. toWorker # <<>> /\ toWorker' = Tail(toWorker)
      BY <2>2 DEF Configure, TakeRequest, TakeContent
    <3>2. /\ toWorker' \in Seq(ToWorker) /\ Head(toWorker) \in ToWorker
          /\ \A i \in 1..Len(toWorker') : Len(toWorker'[i].data) <= 1
          /\ Len(Head(toWorker).data) <= 1
      BY <3>1, Taken DEF PipeTypes, Piped
    <3>3. CASE Configure
      <4>1. Frame("configured", begun, 0, <<>>) \in ToBroker
        BY FramesTyped, NoData DEF CountTypes
      <4>2. toBroker' \in Seq(ToBroker)
        BY <3>3, <4>1, Added DEF Configure, PipeTypes, Piped
      <4> QED BY <3>2, <3>3, <4>2 DEF Configure, PipeTypes, Piped
    <3>4. CASE TakeRequest
      <4>1. job' = job \/ job' = [id |-> Head(toWorker).id, size |-> Head(toWorker).size, got |-> <<>>]
        BY <3>4 DEF TakeRequest
      <4>2. Head(toWorker).id \in Inspections /\ Head(toWorker).size \in 0..MaxSize
        BY <3>2 DEF ToWorker
      <4>3. job' \in Jobs /\ Len(job'.got) <= job'.size
        <5>1. CASE job' = job
          BY <5>1 DEF PipeTypes, Piped
        <5>2. CASE job' = [id |-> Head(toWorker).id, size |-> Head(toWorker).size, got |-> <<>>]
          <6>1. job' \in Jobs /\ job'.got = <<>> /\ job'.size \in 0..MaxSize
            BY <4>2, <5>2, NoData DEF Jobs
          <6> QED BY <6>1, NoData
        <5> QED BY <4>1, <5>1, <5>2
      <4> QED BY <3>2, <3>4, <4>3 DEF TakeRequest, PipeTypes, Piped
    <3>5. CASE TakeContent
      <4>1. /\ job' = [job EXCEPT !.got = job.got \o Head(toWorker).data]
            /\ job.got \in Seq(Int) /\ Head(toWorker).data \in Seq(Int) /\ Len(job.got) < job.size
        BY <3>2, <3>5 DEF TakeContent, PipeTypes, Piped, Jobs, ToWorker
      <4>2. /\ job.got \o Head(toWorker).data \in Seq(Int)
            /\ Len(job.got \o Head(toWorker).data) = Len(job.got) + Len(Head(toWorker).data)
            /\ Len(job.got) \in Nat /\ Len(Head(toWorker).data) \in Nat
        BY <4>1, ConcatProperties, LenProperties
      <4>3. job'.id = job.id /\ job'.size = job.size /\ job'.got = job.got \o Head(toWorker).data
            /\ job' \in Jobs
        BY <4>1, <4>2 DEF PipeTypes, Piped, Jobs
      <4>4. Len(job'.got) <= job'.size
        BY <3>2, <4>1, <4>2, <4>3 DEF PipeTypes, Piped, Jobs
      <4> QED BY <3>2, <3>5, <4>3, <4>4 DEF TakeContent, PipeTypes, Piped
    <3> QED BY <2>2, <3>3, <3>4, <3>5
  <2>3. CASE Answer
    <3>1. Frame("answer", job.id, job.size, job.got) \in ToBroker
      BY FramesTyped DEF PipeTypes, Piped, Jobs
    <3>2. toBroker' \in Seq(ToBroker)
      BY <2>3, <3>1, Added DEF Answer, PipeTypes, Piped
    <3> QED BY <2>3, <3>2 DEF Answer, PipeTypes, Piped
  <2> QED BY <2>1, <2>2, <2>3 DEF Worker
<1> QED BY <1>2, <1>3, <1>4, <1>5

LEMMA FaultTyped == Types /\ (Write \/ Die \/ Hang \/ Lie) => Types'
<1> SUFFICES ASSUME Types, Write \/ Die \/ Hang \/ Lie PROVE Types'
  OBVIOUS
<1> USE WorkerAssumption DEF Types
<1>1. CASE Write
  <2>1. FileTypes'
    BY <1>1 DEF Write, FileTypes, Versions, broker
  <2>2. PlaceTypes'
    BY <1>1 DEF Write, PlaceTypes, worker, history
  <2>3. CountTypes'
    BY <1>1 DEF Write, CountTypes, broker, history
  <2>4. PipeTypes'
    BY <1>1 DEF Write, PipeTypes, worker, pipe
  <2> QED BY <2>1, <2>2, <2>3, <2>4
<1>2. CASE Die \/ Hang \/ Lie
  <2>1. FileTypes'
    BY <1>2 DEF Die, Hang, Lie, FileTypes, file, broker
  <2>2. PlaceTypes'
    BY <1>2 DEF Die, Hang, Lie, PlaceTypes, worker
  <2>3. CountTypes'
    BY <1>2 DEF Die, Hang, Lie, Fault, CountTypes, broker
  <2>4. PipeTypes'
    <3>1. CASE Die \/ Hang
      BY <3>1 DEF Die, Hang, PipeTypes, pipe
    <3>2. CASE Lie
      <4>1. PICK id \in 1..begun, size \in 0..MaxSize, digest \in {<<0>>, sent} :
                toBroker' = Append(toBroker, Frame("answer", id, size, digest))
        BY <3>2 DEF Lie
      <4>2. id \in Inspections
        BY DEF CountTypes, Inspections
      <4>3. sent \in Seq(Int)
        BY SeqMonotonic DEF FileTypes, Versions
      <4>4. digest \in Seq(Int)
        <5>1. <<0>> \in Seq(Int)
          OBVIOUS
        <5> QED BY <4>3, <5>1
      <4>5. Frame("answer", id, size, digest) \in ToBroker
        BY <4>2, <4>4, FramesTyped
      <4>6. toBroker' \in Seq(ToBroker)
        BY <4>1, <4>5, Added DEF PipeTypes, Piped
      <4> QED BY <3>2, <4>6 DEF Lie, PipeTypes, Piped, worker
    <3> QED BY <1>2, <3>1, <3>2
  <2> QED BY <2>1, <2>2, <2>3, <2>4
<1> QED BY <1>1, <1>2

(* An inspection begins: with the worker there is, or with a new one.      *)
Renewed ==
    /\ pc' = "hello" /\ wpc' = "boot" /\ hung' = FALSE /\ job' = NoJob
    /\ toWorker' = <<>> /\ toBroker' = <<>> /\ requests' = 0 /\ served' = 0 /\ lied' = FALSE

LEMMA InspectTyped == Types /\ Inspect => Types'
<1> SUFFICES ASSUME Types, Inspect PROVE Types'
  OBVIOUS
<1> USE WorkerAssumption DEF Types
<1>1. /\ begun < MaxInspections /\ begun' = begun + 1
      /\ opened' = [size |-> length, version |-> version] /\ sent' = <<>>
      /\ UNCHANGED <<length, version, faults>>
  BY DEF Inspect, file
<1>2. FileTypes'
  BY <1>1, EmptySeq DEF FileTypes, Metadata
<1>3. CASE Renewed
  <2>1. PlaceTypes'
    BY <1>3 DEF Renewed, PlaceTypes
  <2>2. CountTypes'
    BY <1>1, <1>3 DEF Renewed, CountTypes, Inspections
  <2>3. PipeTypes'
    BY <1>3, EmptyPipe DEF Renewed, PipeTypes
  <2> QED BY <1>2, <2>1, <2>2, <2>3
<1>4. CASE pc' = "send" /\ Usable /\ UNCHANGED <<requests, worker, pipe, served, lied>>
  <2>1. PlaceTypes'
    BY <1>4 DEF PlaceTypes, worker
  <2>2. CountTypes'
    BY <1>1, <1>4 DEF Usable, CountTypes, Inspections
  <2>3. PipeTypes'
    BY <1>4 DEF PipeTypes, pipe, worker
  <2> QED BY <1>2, <2>1, <2>2, <2>3
<1> QED BY <1>3, <1>4 DEF Inspect, Renewed

LEMMA BrokerTyped == Types /\ Broker => Types'
<1> SUFFICES ASSUME Types, Broker PROVE Types'
  OBVIOUS
<1> USE WorkerAssumption DEF Types
<1>1. CASE Fail
  BY <1>1, FailCloses, ClosedTyped
<1>2. CASE ReceiveHello
  <2>1. FileTypes'
    BY <1>2 DEF ReceiveHello, FileTypes, file, broker
  <2>2. PlaceTypes'
    BY <1>2 DEF ReceiveHello, PlaceTypes, worker, history
  <2>3. CountTypes'
    BY <1>2 DEF ReceiveHello, CountTypes, broker, history
  <2>4. PipeTypes'
    <3>1. toBroker' \in Seq(ToBroker)
      BY <1>2, Taken DEF ReceiveHello, PipeTypes, Piped
    <3>2. Frame("configuration", begun, 0, <<>>) \in ToWorker
      BY FramesTyped, NoData DEF CountTypes
    <3>3. Len(Frame("configuration", begun, 0, <<>>).data) <= 1
      BY NoData DEF Frame
    <3>4. /\ toWorker' \in Seq(ToWorker)
          /\ \A i \in 1..Len(toWorker') : Len(toWorker'[i].data) <= 1
      <4>1. CASE toWorker' = toWorker
        BY <4>1 DEF PipeTypes, Piped
      <4>2. CASE toWorker' = Append(toWorker, Frame("configuration", begun, 0, <<>>))
        BY <3>2, <3>3, <4>2, Added DEF PipeTypes, Piped
      <4> QED BY <1>2, <4>1, <4>2 DEF ReceiveHello
    <3> QED BY <1>2, <3>1, <3>4 DEF ReceiveHello, PipeTypes, Piped, worker
  <2> QED BY <2>1, <2>2, <2>3, <2>4
<1>3. CASE ReceiveAck \/ Receive
  <2>1. FileTypes'
    BY <1>3 DEF ReceiveAck, Receive, FileTypes, file
  <2>2. PlaceTypes'
    BY <1>3 DEF ReceiveAck, Receive, PlaceTypes, worker, history
  <2>3. CountTypes'
    BY <1>3 DEF ReceiveAck, Receive, CountTypes, history
  <2>4. PipeTypes'
    <3>1. toBroker' \in Seq(ToBroker)
      BY <1>3, Taken DEF ReceiveAck, Receive, PipeTypes, Piped
    <3> QED BY <1>3, <3>1 DEF ReceiveAck, Receive, PipeTypes, Piped, worker
  <2> QED BY <2>1, <2>2, <2>3, <2>4
<1>4. CASE StreamEnds \/ Check
  <2>1. FileTypes'
    BY <1>4 DEF StreamEnds, Check, FileTypes, file, broker
  <2>2. PlaceTypes'
    BY <1>4 DEF StreamEnds, Check, PlaceTypes, worker, history
  <2>3. CountTypes'
    BY <1>4 DEF StreamEnds, Check, CountTypes, broker, history
  <2>4. PipeTypes'
    BY <1>4 DEF StreamEnds, Check, PipeTypes, worker, pipe
  <2> QED BY <2>1, <2>2, <2>3, <2>4
<1>5. CASE SendRequest \/ Stream
  <2>1. PlaceTypes'
    BY <1>5 DEF SendRequest, Stream, PlaceTypes, worker, history
  <2>2. CountTypes'
    BY <1>5 DEF SendRequest, Stream, CountTypes, broker, history
  <2>3. FileTypes'
    <3>1. CASE SendRequest
      BY <3>1 DEF SendRequest, FileTypes, file, broker
    <3>2. CASE Stream
      BY <3>2, Added DEF Stream, FileTypes, file, Metadata
    <3> QED BY <1>5, <3>1, <3>2
  <2>4. PICK f \in ToWorker : toWorker' = Append(toWorker, f) /\ Len(f.data) <= 1
    <3>1. CASE SendRequest
      <4>1. opened.size \in 0..MaxSize
        BY DEF FileTypes, Metadata
      <4>2. Frame("scan", begun, opened.size, <<>>) \in ToWorker
        BY <4>1, FramesTyped, NoData DEF CountTypes
      <4>3. Len(Frame("scan", begun, opened.size, <<>>).data) <= 1
        BY <4>1, NoData DEF Frame
      <4> QED BY <3>1, <4>2, <4>3 DEF SendRequest, Sends
    <3>2. CASE Stream
      <4>1. <<version>> \in Seq(Int) /\ Len(<<version>>) = 1
        BY DEF FileTypes, Versions
      <4>2. Frame("content", begun, 0, <<version>>) \in ToWorker
        BY <4>1, FramesTyped, NoData DEF CountTypes
      <4>3. Len(Frame("content", begun, 0, <<version>>).data) <= 1
        BY <4>1, NoData DEF Frame
      <4> QED BY <3>2, <4>2, <4>3 DEF Stream, Sends
    <3> QED BY <1>5, <3>1, <3>2
  <2>5. PipeTypes'
    BY <1>5, <2>4, Added DEF SendRequest, Stream, PipeTypes, Piped, worker
  <2> QED BY <2>1, <2>2, <2>3, <2>5
<1> QED BY <1>1, <1>2, <1>3, <1>4, <1>5
      DEF Broker, NoAnswer, SendFails, StreamGrown, CheckFails, ReceiveWrong

LEMMA TypesStep == Types /\ [Next]_vars => Types'
<1>1. Types /\ UNCHANGED vars => Types'
  BY DEF Types, FileTypes, PlaceTypes, CountTypes, PipeTypes, vars, file, broker, worker, pipe, history
<1> QED BY <1>1, WorkerTyped, FaultTyped, InspectTyped, BrokerTyped DEF Next

(* Every variable of broker, worker and pipe keeps its type.               *)
THEOREM ExchangeTypes == Spec => []TypeOK
BY StartsTyped, TypesStep, TypesSuffice, PTL DEF Spec

-----------------------------------------------------------------------------
(* What was read is between the version that was opened and the one there  *)
(* is now, so that it is one version when these two are the same.          *)
Copy ==
    /\ opened.version <= version
    /\ \A i \in 1..Len(sent) : sent[i] \in opened.version..version
    /\ pc = "wait" => sent = [i \in 1..opened.size |-> opened.version]
    /\ ResultIsTheFile

LEMMA CopyKept ==
    Copy /\ UNCHANGED <<opened, version, sent, result>> /\ (pc' = pc \/ pc' # "wait") => Copy'
BY DEF Copy, ResultIsTheFile

LEMMA CopyStep == Types /\ Copy /\ [Next]_vars => Copy'
<1> SUFFICES ASSUME Types, Copy, [Next]_vars PROVE Copy'
  OBVIOUS
<1>0. /\ version \in Nat /\ opened.version \in Nat /\ opened.size \in Nat /\ sent \in Seq(Versions)
      /\ Len(sent) \in Nat /\ \A i \in 1..Len(sent) : sent[i] \in Nat
  BY ElementOfSeq, LenProperties, WorkerAssumption DEF Types, FileTypes, Versions, Metadata
<1>1. CASE Write
  <2>1. version' = version + 1 /\ UNCHANGED <<opened, sent, result, pc>>
    BY <1>1 DEF Write, broker
  <2> QED BY <1>0, <2>1 DEF Copy, ResultIsTheFile
<1>2. CASE Inspect
  <2>1. /\ opened' = [size |-> length, version |-> version] /\ sent' = <<>> /\ pc' # "wait"
        /\ UNCHANGED <<version, result>>
    BY <1>2 DEF Inspect, file
  <2>2. 1..Len(sent') = {}
    BY <2>1, NoData
  <2> QED BY <1>0, <2>1, <2>2 DEF Copy, ResultIsTheFile
<1>3. CASE Stream
  <2>1. sent' = Append(sent, version) /\ pc = "stream" /\ UNCHANGED <<opened, version, result, pc>>
    BY <1>3 DEF Stream, file
  <2>2. version \in Versions
    BY DEF Types, FileTypes
  <2>3. \A i \in 1..Len(sent') : sent'[i] = IF i <= Len(sent) THEN sent[i] ELSE version
    BY <1>0, <2>1, <2>2, Added
  <2>4. Len(sent') = Len(sent) + 1
    BY <1>0, <2>1, <2>2, Added
  <2>5. \A i \in 1..Len(sent') : sent'[i] \in opened.version..version
    <3> SUFFICES ASSUME NEW i \in 1..Len(sent') PROVE sent'[i] \in opened.version..version
      OBVIOUS
    <3>1. CASE i <= Len(sent)
      BY <1>0, <2>3, <2>4, <3>1 DEF Copy
    <3>2. CASE ~(i <= Len(sent))
      BY <1>0, <2>3, <2>4, <3>2 DEF Copy
    <3> QED BY <3>1, <3>2
  <2> QED BY <2>1, <2>5 DEF Copy, ResultIsTheFile
<1>4. CASE Check
  <2>1. /\ length = opened.size /\ version = opened.version /\ Len(sent) = opened.size
        /\ UNCHANGED <<opened, version, sent, result>>
    BY <1>4 DEF Check, Unchanged, file, broker
  <2>2. \A i \in 1..Len(sent) : sent[i] = opened.version
    BY <1>0, <2>1 DEF Copy
  <2>3. sent = [i \in 1..Len(sent) |-> sent[i]]
    BY <1>0
  <2>4. sent = [i \in 1..opened.size |-> opened.version]
    BY <2>1, <2>2, <2>3
  <2> QED BY <2>1, <2>4 DEF Copy, ResultIsTheFile
<1>5. CASE Receive
  <2>1. /\ pc = "wait" /\ pc' = "idle" /\ UNCHANGED <<opened, version, sent>>
        /\ result' = [size |-> opened.size, version |-> opened.version, digest |-> sent]
    BY <1>5 DEF Receive, Acceptable, file
  <2> QED BY <2>1 DEF Copy, ResultIsTheFile
<1>6. CASE Fail
  BY <1>6, FailCloses, CopyKept DEF Closed
<1>7. CASE ReceiveHello \/ ReceiveAck \/ SendRequest \/ StreamEnds
  BY <1>7, CopyKept DEF ReceiveHello, ReceiveAck, SendRequest, StreamEnds, file, broker
<1>8. CASE Worker
  <2>1. Running
    BY <1>8 DEF Worker, Hello, Configure, TakeRequest, TakeContent, Answer
  <2> QED BY <2>1, CopyKept DEF Running, file, broker
<1>9. CASE Die \/ Hang \/ Lie \/ UNCHANGED vars
  BY <1>9, CopyKept DEF Die, Hang, Lie, vars, file, broker
<1> QED BY <1>1, <1>2, <1>3, <1>4, <1>5, <1>6, <1>7, <1>8, <1>9
      DEF Next, Broker, NoAnswer, SendFails, StreamGrown, CheckFails, ReceiveWrong

(* A result is about the whole of one version of the file that was opened, *)
(* whatever worker and file have done meanwhile.                           *)
THEOREM ResultsAreWhole == Spec => []ResultIsTheFile
<1>1. Init => Copy
  <2> SUFFICES ASSUME Init PROVE Copy
    OBVIOUS
  <2>1. 1..Len(sent) = {} /\ 1..0 = {}
    BY NoData DEF Init
  <2>2. result.digest = [i \in 1..result.size |-> result.version]
    BY <2>1 DEF Init
  <2> QED BY <2>1, <2>2 DEF Init, Copy, ResultIsTheFile
<1>2. Copy => ResultIsTheFile
  BY DEF Copy
<1> QED BY <1>1, <1>2, StartsTyped, TypesStep, CopyStep, PTL DEF Spec
-----------------------------------------------------------------------------
(* The requests a living worker has been given, or will find in the pipe,  *)
(* bear different identifiers, of inspections from First on: those whose   *)
(* answers have been counted since it was started, and the present one.    *)
First == begun - requests + (IF pc = "idle" THEN 1 ELSE 0)

Turn(i) ==
    /\ First <= toWorker[i].id /\ toWorker[i].id <= begun
    /\ served > 0 => job.id < toWorker[i].id
    /\ pc = "send" => toWorker[i].id < begun

Requests == {i \in 1..Len(toWorker) : toWorker[i].kind = "scan"}

Alive ==
    /\ 1 <= First
    /\ served > 0 => /\ served + First <= job.id + 1 /\ job.id <= begun
                     /\ pc = "send" => job.id < begun
    /\ \A i \in Requests : Turn(i)
    /\ \A i, j \in Requests : i < j => toWorker[i].id < toWorker[j].id

Turns ==
    /\ Recycled
    /\ pc \in {"hello", "ack"} => requests = 0 /\ served = 0 /\ Requests = {}
    /\ wpc \notin {"none", "dead"} => Alive

(* The numbers these statements compare.                                   *)
LEMMA Numbers ==
    Types => /\ begun \in Nat /\ requests \in Nat /\ requests <= MaxRequests /\ served \in Nat
             /\ MaxRequests \in Nat \ {0} /\ job.id \in Nat /\ Len(toWorker) \in Nat
             /\ First \in Int
             /\ \A i \in 1..Len(toWorker) : toWorker[i] \in ToWorker /\ toWorker[i].id \in Nat
<1> SUFFICES ASSUME Types PROVE /\ begun \in Nat /\ requests \in Nat /\ requests <= MaxRequests
                                /\ served \in Nat
                                /\ MaxRequests \in Nat \ {0} /\ job.id \in Nat
                                /\ Len(toWorker) \in Nat /\ First \in Int
                                /\ \A i \in 1..Len(toWorker) :
                                      toWorker[i] \in ToWorker /\ toWorker[i].id \in Nat
  OBVIOUS
<1>1. begun \in Nat /\ requests \in Nat /\ requests <= MaxRequests /\ served \in Nat
      /\ MaxRequests \in Nat \ {0}
  BY WorkerAssumption DEF Types, CountTypes, Inspections
<1>2. \A i \in 1..Len(toWorker) : toWorker[i] \in ToWorker
  BY ElementOfSeq DEF Types, PipeTypes, Piped
<1>3. \A i \in 1..Len(toWorker) : toWorker[i].id \in Nat
  BY <1>2, WorkerAssumption DEF ToWorker, Inspections
<1>4. job.id \in Nat /\ Len(toWorker) \in Nat
  BY LenProperties, WorkerAssumption DEF Types, PipeTypes, Piped, Jobs, Inspections
<1>5. First \in Int
  BY <1>1 DEF First
<1> QED BY <1>1, <1>2, <1>3, <1>4, <1>5

(* A step that gives the worker nothing and leaves the broker's place.     *)
LEMMA TurnsKept ==
    /\ Turns /\ UNCHANGED <<begun, requests, served, job.id, toWorker>>
    /\ pc' = pc \/ (pc \in {"stream", "check"} /\ pc' \in {"check", "wait"})
    /\ wpc' \notin {"none", "dead"} => wpc \notin {"none", "dead"}
    => Turns'
BY DEF Turns, Recycled, Alive, Requests, Turn, First

LEMMA ClosedTurns == Closed => Turns'
BY NoData, WorkerAssumption DEF Closed, Turns, Recycled

LEMMA InspectTurns == Types /\ Turns /\ Inspect => Turns'
<1> SUFFICES ASSUME Types, Turns, Inspect PROVE Turns'
  OBVIOUS
<1>1. /\ pc = "idle" /\ begun' = begun + 1
      /\ begun \in Nat /\ MaxRequests \in Nat /\ requests \in Nat
      /\ \A i \in 1..Len(toWorker) : toWorker[i].id \in Nat
      /\ job.id \in Nat /\ served \in Nat
  BY Numbers DEF Inspect
<1>2. CASE Renewed
  <2>1. Requests' = {} /\ served' = 0 /\ requests' = 0 /\ pc' = "hello" /\ First' = begun + 1
    BY <1>1, <1>2, NoData DEF Renewed, Requests, First
  <2>2. Alive'
    BY <1>1, <2>1 DEF Alive
  <2> QED BY <1>1, <2>1, <2>2 DEF Turns, Recycled
<1>3. CASE pc' = "send" /\ Usable /\ UNCHANGED <<requests, worker, pipe, served, lied>>
  <2>1. /\ UNCHANGED <<requests, wpc, job, toWorker, served>> /\ First' = First
        /\ wpc \notin {"none", "dead"}
    BY <1>1, <1>3 DEF Usable, worker, pipe, First
  <2>2. Requests' = Requests
    BY <2>1 DEF Requests
  <2>3. \A i \in Requests : Turn(i)'
    BY <1>1, <1>3, <2>1 DEF Turns, Alive, Turn, Requests
  <2>4. Alive'
    BY <1>1, <1>3, <2>1, <2>2, <2>3 DEF Turns, Alive
  <2> QED BY <1>3, <2>1, <2>4 DEF Turns, Recycled
<1> QED BY <1>2, <1>3 DEF Inspect, Renewed

(* What the broker sends, and what the worker takes.                       *)
LEMMA SentTurns == Types /\ Turns /\ (ReceiveHello \/ SendRequest \/ Stream) => Turns'
<1> SUFFICES ASSUME Types, Turns, ReceiveHello \/ SendRequest \/ Stream PROVE Turns'
  OBVIOUS
<1>1. UNCHANGED <<begun, requests, served, job, wpc>>
  BY DEF ReceiveHello, SendRequest, Stream, broker, worker, history
<1>2. CASE ReceiveHello /\ wpc = "dead"
  BY <1>1, <1>2 DEF ReceiveHello, Turns, Recycled
<1>3. CASE SendRequest \/ Stream \/ (ReceiveHello /\ wpc # "dead")
  <2>1. PICK f \in ToWorker :
            /\ toWorker' = Append(toWorker, f)
            /\ f.kind = "scan" => pc = "send" /\ pc' = "stream" /\ f.id = begun
            /\ f.kind # "scan" => /\ pc' = pc \/ (pc = "hello" /\ pc' = "ack")
                                  /\ pc # "send"
    <3>1. CASE SendRequest
      <4>1. Frame("scan", begun, opened.size, <<>>) \in ToWorker
        BY FramesTyped, NoData DEF Types, FileTypes, Metadata, CountTypes
      <4> QED BY <3>1, <4>1 DEF SendRequest, Sends, Frame
    <3>2. CASE Stream
      <4>1. <<version>> \in Seq(Int)
        BY DEF Types, FileTypes, Versions
      <4>2. Frame("content", begun, 0, <<version>>) \in ToWorker
        BY <4>1, FramesTyped, NoData DEF Types, CountTypes
      <4> QED BY <3>2, <4>2 DEF Stream, Sends, Frame
    <3>3. CASE ReceiveHello /\ wpc # "dead"
      <4>1. Frame("configuration", begun, 0, <<>>) \in ToWorker
        BY FramesTyped, NoData DEF Types, CountTypes
      <4> QED BY <3>3, <4>1 DEF ReceiveHello, Frame
    <3> QED BY <1>3, <3>1, <3>2, <3>3
  <2>2. /\ Len(toWorker) \in Nat /\ Len(toWorker') = Len(toWorker) + 1
        /\ \A i \in 1..Len(toWorker) : toWorker'[i] = toWorker[i]
        /\ toWorker'[Len(toWorker) + 1] = f
    BY <2>1, Added DEF Types, PipeTypes, Piped
  <2>3. First' = First /\ (pc' = "send" => pc = "send")
    BY <1>1, <2>1 DEF First
  <2>4. \A i \in Requests' : \/ i \in Requests /\ toWorker'[i] = toWorker[i]
                             \/ i = Len(toWorker) + 1 /\ toWorker'[i] = f /\ f.kind = "scan"
    BY <2>2 DEF Requests
  <2>5. CASE f.kind # "scan"
    <3>1. Requests' \subseteq Requests /\ \A i \in Requests' : toWorker'[i] = toWorker[i]
      BY <2>4, <2>5
    <3>2. \A i \in Requests' : Turn(i) => Turn(i)'
      BY <1>1, <2>1, <2>3, <2>5, <3>1 DEF Turn
    <3>3. Alive => Alive'
      BY <1>1, <2>1, <2>3, <2>5, <3>1, <3>2 DEF Alive
    <3> QED BY <1>1, <2>1, <2>5, <3>1, <3>3 DEF Turns, Recycled
  <2>6. CASE f.kind = "scan"
    <3>1. pc = "send" /\ pc' = "stream" /\ f.id = begun
      BY <2>1, <2>6
    <3>2. Alive => \A i \in Requests' : Turn(i)'
      <4> SUFFICES ASSUME Alive, NEW i \in Requests' PROVE Turn(i)'
        OBVIOUS
      <4>1. CASE i \in Requests /\ toWorker'[i] = toWorker[i]
        BY <1>1, <2>3, <3>1, <4>1 DEF Alive, Turn
      <4>2. CASE toWorker'[i] = f
        BY <1>1, <2>3, <3>1, <4>2, Numbers DEF Alive, Turn, First
      <4> QED BY <2>4, <4>1, <4>2
    <3>3. Alive => \A i, j \in Requests' : i < j => toWorker'[i].id < toWorker'[j].id
      <4> SUFFICES ASSUME Alive, NEW i \in Requests', NEW j \in Requests', i < j
                   PROVE  toWorker'[i].id < toWorker'[j].id
        OBVIOUS
      <4>1. i \in Requests /\ toWorker'[i] = toWorker[i]
        BY <2>2, <2>4 DEF Requests
      <4>2. toWorker[i].id < begun
        BY <3>1, <4>1 DEF Alive, Turn
      <4>3. CASE j \in Requests /\ toWorker'[j] = toWorker[j]
        BY <4>1, <4>3 DEF Alive
      <4>4. CASE toWorker'[j] = f
        BY <3>1, <4>1, <4>2, <4>4
      <4> QED BY <2>4, <4>3, <4>4
    <3>4. Alive => Alive'
      BY <1>1, <2>3, <3>1, <3>2, <3>3 DEF Alive
    <3> QED BY <1>1, <3>1, <3>4 DEF Turns, Recycled
  <2> QED BY <2>5, <2>6
<1> QED BY <1>2, <1>3 DEF ReceiveHello

LEMMA TakenTurns == Types /\ Turns /\ (Configure \/ TakeRequest \/ TakeContent) => Turns'
<1> SUFFICES ASSUME Types, Turns, Configure \/ TakeRequest \/ TakeContent PROVE Turns'
  OBVIOUS
<1>1. /\ UNCHANGED <<begun, requests, pc>> /\ First' = First
      /\ toWorker # <<>> /\ toWorker' = Tail(toWorker) /\ wpc \notin {"none", "dead"}
  BY DEF Configure, TakeRequest, TakeContent, Running, broker, First
<1>2. /\ Head(toWorker) = toWorker[1] /\ Len(toWorker) \in Nat \ {0}
      /\ Len(toWorker') = Len(toWorker) - 1
      /\ \A i \in 1..Len(toWorker') : toWorker'[i] = toWorker[i + 1]
  BY <1>1, Taken DEF Types, PipeTypes, Piped
<1>3. \A i \in Requests' : i \in Int /\ i + 1 \in Requests /\ toWorker'[i] = toWorker[i + 1]
  BY <1>2 DEF Requests
<1>4. Alive
  BY <1>1 DEF Turns
<1>5. \A i, j \in Requests' : i < j => toWorker'[i].id < toWorker'[j].id
  <2> SUFFICES ASSUME NEW i \in Requests', NEW j \in Requests', i < j
               PROVE  toWorker'[i].id < toWorker'[j].id
    OBVIOUS
  <2>1. i + 1 \in Requests /\ j + 1 \in Requests /\ i + 1 < j + 1
    BY <1>3
  <2>2. toWorker[i + 1].id < toWorker[j + 1].id
    BY <1>4, <2>1 DEF Alive
  <2> QED BY <1>3, <2>2
<1>6. CASE UNCHANGED <<served, job.id>>
  <2>1. \A i \in Requests' : Turn(i)'
    BY <1>1, <1>3, <1>4, <1>6 DEF Alive, Turn
  <2>2. Alive'
    BY <1>1, <1>4, <1>5, <1>6, <2>1 DEF Alive
  <2>3. Requests = {} => Requests' = {}
    BY <1>3
  <2> QED BY <1>1, <1>6, <2>2, <2>3 DEF Turns, Recycled
<1>7. CASE /\ wpc = "ready" /\ toWorker[1].kind = "scan" /\ served' = served + 1
           /\ job'.id = toWorker[1].id
  <2>1. 1 \in Requests
    BY <1>2, <1>7 DEF Requests
  <2>2. Turn(1) /\ pc \notin {"hello", "ack"}
    BY <1>4, <2>1 DEF Alive, Turns
  <2>3. \A i \in Requests' : toWorker'[i].id > job'.id
    <3> SUFFICES ASSUME NEW i \in Requests' PROVE toWorker'[i].id > job'.id
      OBVIOUS
    <3>1. i + 1 \in Requests /\ 1 < i + 1
      BY <1>3 DEF Requests
    <3>2. toWorker[1].id < toWorker[i + 1].id
      BY <1>4, <2>1, <3>1 DEF Alive
    <3>3. toWorker[1].id \in Nat /\ toWorker[i + 1].id \in Nat
      BY <2>1, <3>1, Numbers DEF Requests
    <3> QED BY <1>3, <1>7, <3>2, <3>3
  <2>4. \A i \in Requests' : Turn(i)'
    <3> SUFFICES ASSUME NEW i \in Requests' PROVE Turn(i)'
      OBVIOUS
    <3>1. Turn(i + 1) /\ toWorker'[i] = toWorker[i + 1] /\ toWorker[i + 1].id \in Nat
      BY <1>3, <1>4, Numbers DEF Alive, Requests
    <3>2. job'.id < toWorker'[i].id
      BY <1>7, <2>1, <2>3, <3>1, Numbers DEF Requests
    <3> QED BY <1>1, <3>1, <3>2 DEF Turn
  <2>5. served' + First' <= job'.id + 1 /\ job'.id <= begun' /\ (pc' = "send" => job'.id < begun')
    <3>1. /\ job'.id = toWorker[1].id /\ job'.id \in Nat /\ First <= job'.id /\ job'.id <= begun
          /\ served > 0 => job.id < job'.id
          /\ pc = "send" => job'.id < begun
      BY <1>7, <2>1, <2>2, Numbers DEF Turn, Requests
    <3>2. served' + First <= job'.id + 1
      <4>1. CASE served = 0
        BY <1>7, <3>1, <4>1, Numbers
      <4>2. CASE served > 0
        <5> DEFINE r == served
                   first == First
                   old == job.id
                   id == job'.id
        <5>1. r + first <= old + 1 /\ old < id
          BY <1>4, <3>1, <4>2 DEF Alive
        <5>2. r \in Nat /\ first \in Int /\ old \in Nat /\ id \in Nat
          BY <3>1, Numbers
        <5> HIDE DEF r, first, old, id
        <5>3. (r + 1) + first <= id + 1
          BY <5>1, <5>2
        <5> QED BY <1>7, <5>3 DEF r, first, id
      <4> QED BY <4>1, <4>2, Numbers
    <3> QED BY <1>1, <3>1, <3>2
  <2>6. served' <= MaxRequests
    <3>1. job'.id \in Nat /\ served' \in Nat /\ served' + First <= job'.id + 1 /\ job'.id <= begun
      BY <1>1, <1>7, <2>1, <2>5, Numbers DEF Requests
    <3>2. CASE pc = "idle"
      <4>1. First = begun - requests + 1
        BY <3>2 DEF First
      <4> QED BY <3>1, <4>1, Numbers
    <3>3. CASE pc # "idle"
      <4>1. First = begun - requests /\ requests < MaxRequests
        BY <3>3, Numbers DEF First, Types, CountTypes
      <4> QED BY <3>1, <4>1, Numbers
    <3> QED BY <3>2, <3>3
  <2>7. Alive'
    BY <1>1, <1>4, <1>5, <2>4, <2>5 DEF Alive
  <2> QED BY <1>1, <2>2, <2>6, <2>7 DEF Turns, Recycled
<1>8. CASE Configure
  BY <1>6, <1>8 DEF Configure
<1>9. CASE TakeRequest
  <2>1. CASE Head(toWorker).kind = "scan"
    BY <1>2, <1>7, <1>9, <2>1 DEF TakeRequest
  <2>2. CASE Head(toWorker).kind # "scan"
    BY <1>6, <1>9, <2>2 DEF TakeRequest
  <2> QED BY <2>1, <2>2
<1>10. CASE TakeContent
  <2>1. job'.id = job.id
    BY <1>10 DEF TakeContent, Types, PipeTypes, Piped, Jobs
  <2> QED BY <1>6, <1>10, <2>1 DEF TakeContent
<1> QED BY <1>8, <1>9, <1>10

LEMMA TurnsStep == Types /\ Turns /\ [Next]_vars => Turns'
<1> SUFFICES ASSUME Types, Turns, [Next]_vars PROVE Turns'
  OBVIOUS
<1>1. CASE Fail
  BY <1>1, FailCloses, ClosedTurns
<1>2. CASE ReceiveAck
  <2>1. requests = 0 /\ served = 0 /\ Requests = {}
    BY <1>2 DEF ReceiveAck, Turns
  <2>2. /\ UNCHANGED <<begun, toWorker, job, wpc, served>> /\ requests' = 0 /\ pc' = "send"
        /\ pc = "ack"
    BY <1>2 DEF ReceiveAck, worker, history
  <2>3. First' = First /\ Requests' = Requests
    BY <2>1, <2>2 DEF First, Requests
  <2>4. Alive => Alive'
    BY <2>1, <2>2, <2>3 DEF Alive
  <2> QED BY <2>2, <2>4 DEF Turns, Recycled
<1>3. CASE Receive
  <2>1. /\ UNCHANGED <<begun, toWorker, job, wpc, served>> /\ requests' = requests + 1
        /\ pc = "wait" /\ pc' = "idle"
    BY <1>3 DEF Receive, worker, history
  <2>2. First' = First /\ Requests' = Requests
    BY <2>1, Numbers DEF First, Requests
  <2>3. \A i : Turn(i) => Turn(i)'
    BY <2>1, <2>2 DEF Turn
  <2>4. Alive => Alive'
    BY <2>1, <2>2, <2>3 DEF Alive
  <2> QED BY <2>1, <2>4 DEF Turns, Recycled
<1>4. CASE Write \/ Die \/ Hang \/ Lie \/ StreamEnds \/ Check \/ UNCHANGED vars
  BY <1>4, TurnsKept DEF Write, Die, Hang, Lie, StreamEnds, Check, vars, broker, worker, pipe, history
<1>5. CASE Hello \/ Answer
  BY <1>5, TurnsKept DEF Hello, Answer, Running, broker
<1> QED BY <1>1, <1>2, <1>3, <1>4, <1>5, InspectTurns, SentTurns, TakenTurns
      DEF Next, Broker, Worker, NoAnswer, SendFails, StreamGrown, CheckFails, ReceiveWrong

(* A worker never begins more requests than it may serve.                  *)
THEOREM WorkersAreReplaced == Spec => []Recycled
<1>1. Init => Turns
  BY NoData, WorkerAssumption DEF Init, Turns, Recycled
<1>2. Turns => Recycled
  BY DEF Turns
<1> QED BY <1>1, <1>2, StartsTyped, TypesStep, TurnsStep, PTL DEF Spec

-----------------------------------------------------------------------------
(* Where an honest, living worker and the pipe are, by the broker's place. *)
Rests == wpc = "ready" /\ toWorker = <<>> /\ toBroker = <<>>

Starting ==
    /\ toWorker = <<>>
    /\ \/ wpc = "boot" /\ toBroker = <<>>
       \/ wpc = "configure" /\ Len(toBroker) = 1

Configuring ==
    \/ wpc = "configure" /\ Len(toWorker) = 1 /\ toBroker = <<>>
    \/ wpc = "ready" /\ toWorker = <<>> /\ Len(toBroker) = 1

(* Frame i of the pipe carries the n-th part of what was read. *)
Carries(i, n) == toWorker[i].id = begun /\ toWorker[i].data = <<sent[n]>>

(* While content is streamed the worker has not taken the request yet, or  *)
(* is at it, or has answered it.                                           *)
Asked ==
    /\ wpc = "ready" /\ toBroker = <<>> /\ Len(toWorker) = Len(sent) + 1
    /\ toWorker[1].kind = "scan" /\ toWorker[1].id = begun /\ toWorker[1].size = opened.size
    /\ \A i \in 1..Len(sent) : Carries(i + 1, i)

Scanning ==
    /\ wpc = "scan" /\ toBroker = <<>> /\ job.id = begun /\ job.size = opened.size
    /\ Len(job.got) + Len(toWorker) = Len(sent)
    /\ \A i \in 1..Len(job.got) : job.got[i] = sent[i]
    /\ \A i \in 1..Len(toWorker) : Carries(i, Len(job.got) + i)

Answered ==
    /\ wpc = "ready" /\ toWorker = <<>> /\ Len(toBroker) = 1
    /\ toBroker[1].id = begun /\ Len(sent) = opened.size

Streams == pc \in {"stream", "check", "wait"}

InPlace ==
    /\ pc = "idle" => wpc = "none" \/ Rests
    /\ pc = "hello" => Starting
    /\ pc = "ack" => Configuring
    /\ pc = "send" => Rests
    /\ Streams => Asked \/ Scanning \/ Answered

Exchange ==
    /\ pc \in {"hello", "ack", "send"} => sent = <<>>
    /\ ~lied /\ wpc # "dead" => InPlace

(* The lengths these statements compare.                                   *)
LEMMA Lengths ==
    Types => /\ Len(sent) \in Nat /\ Len(job.got) \in Nat /\ opened.size \in Nat
             /\ Len(sent) <= opened.size /\ Len(job.got) <= job.size
             /\ Len(toWorker) \in Nat /\ Len(toBroker) \in Nat
             /\ (toWorker = <<>> <=> Len(toWorker) = 0) /\ (toBroker = <<>> <=> Len(toBroker) = 0)
             /\ sent \in Seq(Versions) /\ toWorker \in Seq(ToWorker) /\ toBroker \in Seq(ToBroker)
             /\ job.got \in Seq(Int) /\ job \in Jobs
<1> SUFFICES ASSUME Types
             PROVE  /\ Len(sent) \in Nat /\ Len(job.got) \in Nat /\ opened.size \in Nat
                    /\ Len(sent) <= opened.size /\ Len(job.got) <= job.size
                    /\ Len(toWorker) \in Nat /\ Len(toBroker) \in Nat
                    /\ (toWorker = <<>> <=> Len(toWorker) = 0)
                    /\ (toBroker = <<>> <=> Len(toBroker) = 0)
                    /\ sent \in Seq(Versions) /\ toWorker \in Seq(ToWorker)
                    /\ toBroker \in Seq(ToBroker) /\ job.got \in Seq(Int) /\ job \in Jobs
  OBVIOUS
<1>1. /\ sent \in Seq(Versions) /\ toWorker \in Seq(ToWorker) /\ toBroker \in Seq(ToBroker)
      /\ job.got \in Seq(Int) /\ job \in Jobs
      /\ Len(sent) <= opened.size /\ Len(job.got) <= job.size
  BY DEF Types, FileTypes, PipeTypes, Piped, Jobs
<1>2. opened.size \in Nat
  BY WorkerAssumption DEF Types, FileTypes, Metadata
<1>3. /\ (toWorker = <<>> <=> Len(toWorker) = 0) /\ Len(toWorker) \in Nat
      /\ (toBroker = <<>> <=> Len(toBroker) = 0) /\ Len(toBroker) \in Nat
  BY <1>1, EmptyByLength
<1>4. Len(sent) \in Nat /\ Len(job.got) \in Nat
  BY <1>1, LenProperties
<1> QED BY <1>1, <1>2, <1>3, <1>4

LEMMA ExchangeSuffices == Types /\ Exchange => InStep
<1> SUFFICES ASSUME Types, Exchange, ~lied, wpc # "dead"
             PROVE  /\ pc = "send" => toWorker = <<>> /\ toBroker = <<>> /\ wpc = "ready"
                    /\ pc \in {"stream", "check", "wait"} =>
                          /\ \A i \in 1..Len(toWorker) : toWorker[i].id = begun
                          /\ \A i \in 1..Len(toBroker) : toBroker[i].id = begun
                          /\ wpc = "scan" =>
                                /\ job.id = begun
                                /\ Len(job.got) + Len(toWorker) = Len(sent)
                                /\ \A i \in 1..Len(sent) : sent[i] = Read(i)
  BY DEF InStep
<1>1. InPlace
  BY DEF Exchange
<1>2. pc = "send" => toWorker = <<>> /\ toBroker = <<>> /\ wpc = "ready"
  BY <1>1 DEF InPlace, Rests
<1>3. CASE Asked
  <2>1. 1..Len(toBroker) = {} /\ wpc # "scan"
    BY <1>3, Lengths DEF Asked
  <2>2. \A i \in 1..Len(toWorker) : toWorker[i].id = begun
    <3> SUFFICES ASSUME NEW i \in 1..Len(toWorker), i # 1 PROVE toWorker[i].id = begun
      BY <1>3 DEF Asked
    <3>1. i - 1 \in 1..Len(sent) /\ (i - 1) + 1 = i
      BY <1>3, Lengths DEF Asked
    <3> QED BY <1>3, <3>1 DEF Asked, Carries
  <2> QED BY <1>2, <2>1, <2>2
<1>4. CASE Scanning
  <2>1. 1..Len(toBroker) = {}
    BY <1>4, Lengths DEF Scanning
  <2>2. \A i \in 1..Len(sent) : sent[i] = Read(i)
    <3> SUFFICES ASSUME NEW i \in 1..Len(sent) PROVE sent[i] = Read(i)
      OBVIOUS
    <3>1. CASE i <= Len(job.got)
      BY <1>4, <3>1, Lengths DEF Scanning, Read
    <3>2. CASE ~(i <= Len(job.got))
      <4>1. i - Len(job.got) \in 1..Len(toWorker) /\ Len(job.got) + (i - Len(job.got)) = i
        BY <1>4, <3>2, Lengths DEF Scanning
      <4>2. toWorker[i - Len(job.got)].data = <<sent[i]>>
        BY <1>4, <4>1 DEF Scanning, Carries
      <4> QED BY <3>2, <4>2 DEF Read
    <3> QED BY <3>1, <3>2
  <2> QED BY <1>2, <1>4, <2>1, <2>2 DEF Scanning, Carries
<1>5. CASE Answered
  <2>1. 1..Len(toWorker) = {} /\ 1..Len(toBroker) = {1} /\ wpc # "scan"
    BY <1>5, Lengths DEF Answered
  <2> QED BY <1>2, <1>5, <2>1 DEF Answered
<1> QED BY <1>1, <1>2, <1>3, <1>4, <1>5 DEF InPlace, Streams

(* Only the places of broker and worker, the pipe, the request and what was *)
(* read of the file matter.                                                *)
LEMMA ExchangeKept ==
    /\ Exchange /\ UNCHANGED <<begun, opened, sent, job, pipe>>
    /\ pc' = pc \/ (pc \in {"stream", "check"} /\ pc' \in {"check", "wait"})
    /\ wpc' = "dead" \/ UNCHANGED <<lied, wpc>>
    => Exchange'
<1> SUFFICES ASSUME Exchange, UNCHANGED <<begun, opened, sent, job, pipe>>,
                    pc' = pc \/ (pc \in {"stream", "check"} /\ pc' \in {"check", "wait"}),
                    wpc' = "dead" \/ UNCHANGED <<lied, wpc>>
             PROVE  Exchange'
  OBVIOUS
<1>1. pc' \in {"hello", "ack", "send"} => sent' = <<>>
  BY DEF Exchange
<1>2. CASE UNCHANGED <<lied, wpc>>
  <2>1. /\ Rests' = Rests /\ Starting' = Starting /\ Configuring' = Configuring
        /\ Asked' = Asked /\ Scanning' = Scanning /\ Answered' = Answered /\ Streams' = Streams
    BY <1>2 DEF pipe, Rests, Starting, Configuring, Asked, Scanning, Answered, Carries, Streams
  <2>2. InPlace => InPlace'
    BY <1>2, <2>1 DEF InPlace, Streams
  <2> QED BY <1>1, <1>2, <2>2 DEF Exchange
<1> QED BY <1>1, <1>2 DEF Exchange

(* What the worker does, were it not for one that has lied or died.        *)
LEMMA WorkerInStep ==
    ASSUME Types, InPlace, Worker PROVE InPlace'
<1>0. UNCHANGED <<begun, opened, sent, pc>> /\ Streams' = Streams
  BY DEF Worker, Hello, Configure, TakeRequest, TakeContent, Answer, Running, broker, Streams
<1>1. CASE Hello
  <2>1. wpc = "boot" /\ wpc' = "configure" /\ UNCHANGED <<job, toWorker>>
        /\ toBroker' = Append(toBroker, Frame("hello", begun, 0, <<>>))
    BY <1>1 DEF Hello
  <2>2. Starting /\ pc = "hello"
    BY <2>1 DEF InPlace, Streams, Rests, Configuring, Asked, Scanning, Answered,
       Types, PlaceTypes
  <2>3. toBroker = <<>>
    BY <2>1, <2>2 DEF Starting
  <2>4. Len(toBroker') = 1
    BY <2>1, <2>3
  <2>5. Starting'
    BY <2>1, <2>2, <2>4 DEF Starting
  <2> QED BY <1>0, <2>2, <2>5 DEF InPlace, Streams
<1>2. CASE Configure
  <2>1. /\ wpc = "configure" /\ wpc' = "ready" /\ toWorker # <<>> /\ toWorker' = Tail(toWorker)
        /\ toBroker' = Append(toBroker, Frame("configured", begun, 0, <<>>))
    BY <1>2 DEF Configure
  <2>2. Configuring /\ pc = "ack"
    BY <2>1 DEF InPlace, Streams, Rests, Starting, Asked, Scanning, Answered,
       Types, PlaceTypes
  <2>3. Len(toWorker) = 1 /\ toBroker = <<>>
    BY <2>1, <2>2 DEF Configuring
  <2>4. toWorker' \in Seq(ToWorker) /\ Len(toWorker') = 0
    BY <2>1, <2>3, Taken, Lengths
  <2>5. toWorker' = <<>> /\ Len(toBroker') = 1
    BY <2>1, <2>3, <2>4, EmptyByLength
  <2>6. Configuring'
    BY <2>1, <2>5 DEF Configuring
  <2> QED BY <1>0, <2>2, <2>6 DEF InPlace, Streams
<1>3. CASE TakeRequest
  <2>1. wpc = "ready" /\ toWorker # <<>> /\ toWorker' = Tail(toWorker) /\ UNCHANGED toBroker
    BY <1>3 DEF TakeRequest
  <2>2. Asked /\ Streams
    BY <2>1 DEF InPlace, Streams, Rests, Starting, Configuring, Scanning, Answered,
       Types, PlaceTypes
  <2>3. /\ Head(toWorker) = toWorker[1] /\ Len(toWorker') = Len(toWorker) - 1
        /\ \A i \in 1..Len(toWorker') : toWorker'[i] = toWorker[i + 1]
    BY <2>1, Taken, Lengths
  <2>4. wpc' = "scan" /\ job' = [id |-> begun, size |-> opened.size, got |-> <<>>]
    BY <1>3, <2>2, <2>3 DEF TakeRequest, Asked
  <2>5. Len(job'.got) = 0 /\ Len(toWorker') = Len(sent)
    BY <2>2, <2>3, <2>4, Lengths DEF Asked
  <2>6. \A i \in 1..Len(toWorker') : toWorker'[i].id = begun /\ toWorker'[i].data = <<sent[i]>>
    BY <2>2, <2>3, <2>5 DEF Asked, Carries
  <2>7. \A i \in 1..Len(toWorker') :
            toWorker'[i].id = begun /\ toWorker'[i].data = <<sent[Len(job'.got) + i]>>
    <3> SUFFICES ASSUME NEW i \in 1..Len(toWorker')
                 PROVE  toWorker'[i].data = <<sent[Len(job'.got) + i]>>
      BY <2>6
    <3>1. Len(job'.got) + i = i
      BY <2>5, Lengths
    <3> QED BY <2>6, <3>1
  <2>8. 1..Len(job'.got) = {}
    BY <2>5
  <2>9. Scanning'
    BY <1>0, <2>1, <2>2, <2>4, <2>5, <2>7, <2>8, Lengths DEF Asked, Scanning, Carries
  <2> QED BY <1>0, <2>2, <2>9 DEF InPlace, Streams
<1>4. CASE TakeContent \/ Answer
  <2>1. wpc = "scan"
    BY <1>4 DEF TakeContent, Answer
  <2>2. Scanning /\ Streams
    BY <2>1 DEF InPlace, Streams, Rests, Starting, Configuring, Asked, Answered,
       Types, PlaceTypes
  <2>3. CASE TakeContent
    <3>1. /\ toWorker # <<>> /\ toWorker' = Tail(toWorker) /\ UNCHANGED <<wpc, toBroker>>
          /\ job' = [job EXCEPT !.got = job.got \o Head(toWorker).data]
      BY <2>3 DEF TakeContent
    <3>2. /\ Head(toWorker) = toWorker[1] /\ Len(toWorker') = Len(toWorker) - 1
          /\ Len(toWorker) \in Nat \ {0}
          /\ \A i \in 1..Len(toWorker') : toWorker'[i] = toWorker[i + 1]
      BY <3>1, Taken, Lengths
    <3>3. Head(toWorker).data = <<sent[Len(job.got) + 1]>>
      BY <2>2, <3>2 DEF Scanning, Carries
    <3>4. job'.id = job.id /\ job'.size = job.size
          /\ job'.got = job.got \o <<sent[Len(job.got) + 1]>>
      BY <3>1, <3>3, Lengths DEF Jobs
    <3>5. sent[Len(job.got) + 1] \in Int
      <4>1. Len(job.got) + 1 \in 1..Len(sent)
        BY <2>2, <3>2, Lengths DEF Scanning
      <4>2. sent[Len(job.got) + 1] \in Versions
        BY <4>1, ElementOfSeq, Lengths
      <4> QED BY <4>2 DEF Versions
    <3>6. job'.got = Append(job.got, sent[Len(job.got) + 1])
      BY <3>4, <3>5, Lengths, AppendIsConcat
    <3>7. /\ Len(job'.got) = Len(job.got) + 1
          /\ \A i \in 1..Len(job.got) : job'.got[i] = job.got[i]
          /\ job'.got[Len(job.got) + 1] = sent[Len(job.got) + 1]
      BY <3>5, <3>6, Added, Lengths
    <3>0. /\ Len(job'.got) + Len(toWorker') = Len(job.got) + Len(toWorker)
          /\ \A i \in 1..Len(toWorker') : /\ i + 1 \in 1..Len(toWorker)
                                          /\ Len(job.got) + (i + 1) = Len(job'.got) + i
      <4> DEFINE w == Len(toWorker)
                 v == Len(toWorker')
                 g == Len(job.got)
                 h == Len(job'.got)
      <4>1. w \in Nat /\ v = w - 1 /\ g \in Nat /\ h = g + 1
        BY <3>2, <3>7, Lengths
      <4> HIDE DEF w, v, g, h
      <4>2. h + v = g + w /\ \A i \in 1..v : i + 1 \in 1..w /\ g + (i + 1) = h + i
        BY <4>1
      <4> QED BY <4>2 DEF w, v, g, h
    <3>8. \A i \in 1..Len(job'.got) : job'.got[i] = sent[i]
      <4> SUFFICES ASSUME NEW i \in 1..Len(job'.got) PROVE job'.got[i] = sent[i]
        OBVIOUS
      <4>1. i \in 1..Len(job.got) \/ i = Len(job.got) + 1
        BY <3>7, Lengths
      <4> QED BY <2>2, <3>7, <4>1 DEF Scanning
    <3>9. \A i \in 1..Len(toWorker') :
              /\ toWorker'[i].id = begun
              /\ toWorker'[i].data = <<sent[Len(job'.got) + i]>>
      <4> SUFFICES ASSUME NEW i \in 1..Len(toWorker')
                   PROVE  /\ toWorker'[i].id = begun
                          /\ toWorker'[i].data = <<sent[Len(job'.got) + i]>>
        OBVIOUS
      <4>1. i + 1 \in 1..Len(toWorker) /\ Len(job.got) + (i + 1) = Len(job'.got) + i
        BY <3>0
      <4>2. Carries(i + 1, Len(job.got) + (i + 1))
        BY <2>2, <4>1 DEF Scanning
      <4> QED BY <3>2, <4>1, <4>2 DEF Carries
    <3>10. Scanning'
      <4>1. \A i \in 1..Len(toWorker') :
                toWorker'[i].id = begun' /\ toWorker'[i].data = <<sent'[Len(job'.got) + i]>>
        BY <1>0, <3>9 DEF Carries
      <4>2. wpc' = "scan" /\ toBroker' = <<>> /\ job'.id = begun' /\ job'.size = opened'.size
        BY <1>0, <2>2, <3>1, <3>4 DEF Scanning
      <4>3. Len(job'.got) + Len(toWorker') = Len(sent')
        BY <1>0, <2>2, <3>0 DEF Scanning
      <4>4. \A i \in 1..Len(job'.got) : job'.got[i] = sent'[i]
        BY <1>0, <3>8
      <4> QED BY <4>1, <4>2, <4>3, <4>4 DEF Scanning, Carries
    <3> QED BY <1>0, <2>2, <3>10 DEF InPlace, Streams
  <2>4. CASE Answer
    <3>1. /\ Len(job.got) = job.size /\ wpc' = "ready" /\ UNCHANGED toWorker
          /\ toBroker' = Append(toBroker, Frame("answer", job.id, job.size, job.got))
      BY <2>4 DEF Answer
    <3>2. Len(sent) = opened.size /\ Len(toWorker) = 0
      BY <2>2, <3>1, Lengths DEF Scanning
    <3>3. Frame("answer", job.id, job.size, job.got) \in ToBroker
      BY FramesTyped, Lengths DEF Jobs
    <3>4. Len(toBroker) = 0
      BY <2>2, Lengths DEF Scanning
    <3>5. Len(toBroker') = 1 /\ toBroker'[1] = Frame("answer", job.id, job.size, job.got)
      BY <3>1, <3>3, <3>4, Added, Lengths
    <3>6. toBroker'[1].id = begun
      BY <2>2, <3>5 DEF Scanning, Frame
    <3>7. Answered'
      BY <1>0, <3>1, <3>2, <3>5, <3>6, Lengths DEF Answered
    <3> QED BY <1>0, <2>2, <3>7 DEF InPlace, Streams
  <2> QED BY <1>4, <2>3, <2>4
<1> QED BY <1>1, <1>2, <1>3, <1>4 DEF Worker

(* What the broker does with such a worker, and a new inspection.          *)
LEMMA BrokerInStep ==
    ASSUME Types, Exchange, InPlace, wpc # "dead", wpc' # "dead",
           ReceiveHello \/ ReceiveAck \/ SendRequest \/ Stream \/ Receive \/ Inspect
    PROVE  InPlace'
<1>1. CASE ReceiveHello
  <2>1. /\ pc = "hello" /\ pc' = "ack" /\ UNCHANGED wpc
        /\ toBroker # <<>> /\ toBroker' = Tail(toBroker)
        /\ toWorker' = Append(toWorker, Frame("configuration", begun, 0, <<>>))
    BY <1>1 DEF ReceiveHello, worker
  <2>2. wpc = "configure" /\ toWorker = <<>> /\ Len(toBroker) = 1
    BY <2>1 DEF InPlace, Starting
  <2>3. Len(toWorker') = 1
    BY <2>1, <2>2
  <2>4. toBroker' \in Seq(ToBroker) /\ Len(toBroker') = 0
    BY <2>1, <2>2, Taken, Lengths
  <2>5. toBroker' = <<>>
    BY <2>4, EmptyByLength
  <2> QED BY <2>1, <2>2, <2>3, <2>5 DEF InPlace, Configuring, Streams
<1>2. CASE ReceiveAck
  <2>1. /\ pc = "ack" /\ pc' = "send" /\ UNCHANGED <<wpc, toWorker>>
        /\ toBroker # <<>> /\ toBroker' = Tail(toBroker)
    BY <1>2 DEF ReceiveAck, worker
  <2>2. wpc = "ready" /\ toWorker = <<>> /\ Len(toBroker) = 1
    BY <2>1 DEF InPlace, Configuring
  <2>3. toBroker' \in Seq(ToBroker) /\ Len(toBroker') = 0
    BY <2>1, <2>2, Taken, Lengths
  <2>4. toBroker' = <<>>
    BY <2>3, EmptyByLength
  <2> QED BY <2>1, <2>2, <2>4 DEF InPlace, Rests, Streams
<1>3. CASE SendRequest
  <2>1. /\ pc = "send" /\ pc' = "stream" /\ UNCHANGED <<wpc, toBroker, begun, opened, sent>>
        /\ toWorker' = Append(toWorker, Frame("scan", begun, opened.size, <<>>))
    BY <1>3 DEF SendRequest, Sends, broker, worker
  <2>2. Rests /\ sent = <<>>
    BY <2>1 DEF InPlace, Exchange
  <2>3. Len(sent) = 0 /\ Len(toWorker) = 0
    BY <2>2, Lengths, NoData DEF Rests
  <2>4. Frame("scan", begun, opened.size, <<>>) \in ToWorker
    BY FramesTyped, NoData DEF Types, FileTypes, Metadata, CountTypes
  <2>5. Len(toWorker') = 1 /\ toWorker'[1] = Frame("scan", begun, opened.size, <<>>)
    BY <2>1, <2>3, <2>4, Added, Lengths
  <2>6. toWorker'[1].kind = "scan" /\ toWorker'[1].id = begun /\ toWorker'[1].size = opened.size
    BY <2>5 DEF Frame
  <2>7. 1..Len(sent') = {} /\ Len(toWorker') = Len(sent') + 1
    BY <2>1, <2>3, <2>5
  <2>8. Asked'
    BY <2>1, <2>2, <2>6, <2>7 DEF Rests, Asked
  <2> QED BY <2>1, <2>8 DEF InPlace, Streams
<1>4. CASE Stream
  <2> DEFINE f == Frame("content", begun, 0, <<version>>)
  <2>1. /\ pc = "stream" /\ Len(sent) < opened.size /\ sent' = Append(sent, version)
        /\ toWorker' = Append(toWorker, f)
        /\ UNCHANGED <<pc, begun, opened, wpc, job, toBroker>>
    BY <1>4 DEF Stream, Sends, worker
  <2>2. version \in Versions /\ <<version>> \in Seq(Int)
    BY DEF Types, FileTypes, Versions
  <2>3. f \in ToWorker /\ f.id = begun /\ f.data = <<version>>
    <3>1. begun \in Inspections
      BY DEF Types, CountTypes
    <3>2. f \in ToWorker
      BY <2>2, <3>1, FramesTyped, NoData
    <3> QED BY <3>2 DEF Frame
  <2>4. /\ Len(sent') = Len(sent) + 1 /\ \A i \in 1..Len(sent) : sent'[i] = sent[i]
        /\ sent'[Len(sent) + 1] = version
    BY <2>1, <2>2, Added, Lengths
  <2>5. /\ Len(toWorker') = Len(toWorker) + 1
        /\ \A i \in 1..Len(toWorker) : toWorker'[i] = toWorker[i]
        /\ toWorker'[Len(toWorker) + 1] = f
    BY <2>1, <2>3, Added, Lengths
  <2> HIDE DEF f
  <2>6. CASE Asked
    <3>1. Len(toWorker) = Len(sent) + 1 /\ Len(toWorker') = Len(sent') + 1
      BY <2>4, <2>5, <2>6 DEF Asked
    <3>2. \A i \in 1..Len(sent') :
              toWorker'[i + 1].id = begun /\ toWorker'[i + 1].data = <<sent'[i]>>
      <4> SUFFICES ASSUME NEW i \in 1..Len(sent')
                   PROVE  toWorker'[i + 1].id = begun /\ toWorker'[i + 1].data = <<sent'[i]>>
        OBVIOUS
      <4>1. CASE i \in 1..Len(sent)
        <5>1. i + 1 \in 1..Len(toWorker)
          BY <3>1, <4>1, Lengths
        <5>2. Carries(i + 1, i)
          BY <2>6, <4>1 DEF Asked
        <5> QED BY <2>4, <2>5, <4>1, <5>1, <5>2 DEF Carries
      <4>2. CASE i = Len(sent) + 1
        BY <2>3, <2>4, <2>5, <3>1, <4>2
      <4> QED BY <2>4, <4>1, <4>2, Lengths
    <3>3. 1 \in 1..Len(toWorker)
      BY <3>1, Lengths
    <3>4. Asked'
      BY <2>1, <2>5, <2>6, <3>1, <3>2, <3>3 DEF Asked, Carries
    <3> QED BY <2>1, <3>4 DEF InPlace, Streams
  <2>7. CASE Scanning
    <3> DEFINE g == Len(job.got)
               n == Len(sent)
               w == Len(toWorker)
    <3>0. g \in Nat /\ n \in Nat /\ w \in Nat /\ g + w = n
      BY <2>7, Lengths DEF Scanning
    <3> HIDE DEF g, n, w
    <3>1. Len(job.got) + Len(toWorker') = Len(sent')
      <4>1. g + (w + 1) = n + 1
        BY <3>0
      <4> QED BY <2>4, <2>5, <4>1 DEF g, n, w
    <3>2. \A i \in 1..Len(job.got) : job.got[i] = sent'[i]
      <4>1. \A i \in 1..Len(job.got) : i \in 1..Len(sent)
        BY <2>7, Lengths DEF Scanning
      <4> QED BY <2>4, <2>7, <4>1 DEF Scanning
    <3>3. \A i \in 1..Len(toWorker') :
              /\ toWorker'[i].id = begun
              /\ toWorker'[i].data = <<sent'[Len(job.got) + i]>>
      <4> SUFFICES ASSUME NEW i \in 1..Len(toWorker')
                   PROVE  /\ toWorker'[i].id = begun
                          /\ toWorker'[i].data = <<sent'[Len(job.got) + i]>>
        OBVIOUS
      <4>1. CASE i \in 1..Len(toWorker)
        <5>1. Len(job.got) + i \in 1..Len(sent)
          <6>1. i \in 1..w => g + i \in 1..n
            BY <3>0
          <6> QED BY <4>1, <6>1 DEF g, n, w
        <5>2. Carries(i, Len(job.got) + i)
          BY <2>7, <4>1 DEF Scanning
        <5> QED BY <2>4, <2>5, <4>1, <5>1, <5>2 DEF Carries
      <4>2. CASE i = Len(toWorker) + 1
        <5>1. Len(job.got) + i = Len(sent) + 1
          <6>1. i = w + 1 => g + i = n + 1
            BY <3>0
          <6> QED BY <4>2, <6>1 DEF g, n, w
        <5> QED BY <2>3, <2>4, <2>5, <4>2, <5>1
      <4>3. i \in 1..w \/ i = w + 1
        <5>1. i \in 1..w + 1
          BY <2>5 DEF w
        <5> QED BY <3>0, <5>1
      <4> QED BY <4>1, <4>2, <4>3 DEF w
    <3>4. Scanning'
      BY <2>1, <2>7, <3>1, <3>2, <3>3 DEF Scanning, Carries
    <3> QED BY <2>1, <3>4 DEF InPlace, Streams
  <2>8. ~Answered
    BY <2>1, Lengths DEF Answered
  <2> QED BY <2>1, <2>6, <2>7, <2>8 DEF InPlace, Streams
<1>5. CASE Receive
  <2>1. /\ pc = "wait" /\ pc' = "idle" /\ UNCHANGED <<wpc, toWorker>>
        /\ toBroker # <<>> /\ toBroker' = Tail(toBroker)
    BY <1>5 DEF Receive, worker
  <2>2. wpc = "ready" /\ toWorker = <<>> /\ Len(toBroker) = 1
    BY <2>1 DEF InPlace, Streams, Asked, Scanning, Answered
  <2>3. toBroker' \in Seq(ToBroker) /\ Len(toBroker') = 0
    BY <2>1, <2>2, Taken, Lengths
  <2>4. toBroker' = <<>>
    BY <2>3, EmptyByLength
  <2> QED BY <2>1, <2>2, <2>4 DEF InPlace, Rests, Streams
<1>6. CASE Inspect
  <2>1. CASE Renewed
    BY <2>1 DEF Renewed, InPlace, Starting, Streams
  <2>2. CASE pc' = "send" /\ Usable /\ UNCHANGED <<requests, worker, pipe, served, lied>>
    <3>1. pc = "idle" /\ wpc # "none" /\ UNCHANGED <<wpc, toWorker, toBroker>>
      BY <1>6, <2>2 DEF Inspect, Usable, worker, pipe
    <3> QED BY <2>2, <3>1 DEF InPlace, Rests, Streams
  <2> QED BY <1>6, <2>1, <2>2 DEF Inspect, Renewed
<1> QED BY <1>1, <1>2, <1>3, <1>4, <1>5, <1>6

LEMMA ExchangeStep == Types /\ Exchange /\ [Next]_vars => Exchange'
<1> SUFFICES ASSUME Types, Exchange, [Next]_vars PROVE Exchange'
  OBVIOUS
<1>1. CASE Fail
  BY <1>1, FailCloses DEF Closed, Exchange, InPlace, Streams
<1>2. CASE Write \/ Die \/ Hang \/ StreamEnds \/ Check \/ UNCHANGED vars
  BY <1>2, ExchangeKept
     DEF Write, Die, Hang, StreamEnds, Check, vars, broker, worker, pipe, history
<1>3. CASE Lie
  BY <1>3 DEF Lie, Exchange, broker
<1>4. CASE Worker
  <2>1. Running
    BY <1>4 DEF Worker, Hello, Configure, TakeRequest, TakeContent, Answer
  <2>2. UNCHANGED <<pc, sent, lied>> /\ wpc # "dead"
    BY <1>4, <2>1 DEF Worker, Hello, Configure, TakeRequest, TakeContent, Answer, Running, broker
  <2> QED BY <1>4, <2>2, WorkerInStep DEF Exchange
<1>5. CASE ReceiveHello \/ ReceiveAck \/ SendRequest \/ Stream \/ Receive
  <2>1. UNCHANGED <<wpc, lied>>
    BY <1>5 DEF ReceiveHello, ReceiveAck, SendRequest, Stream, Receive, worker, history
  <2>2. pc' \in {"hello", "ack", "send"} => sent' = <<>>
    BY <1>5 DEF ReceiveHello, ReceiveAck, SendRequest, Stream, Receive, Exchange, broker
  <2> QED BY <1>5, <2>1, <2>2, BrokerInStep DEF Exchange
<1>6. CASE Inspect
  <2>1. sent' = <<>>
    BY <1>6 DEF Inspect
  <2>2. CASE Renewed
    BY <2>1, <2>2 DEF Renewed, Exchange, InPlace, Starting, Streams
  <2>3. CASE pc' = "send" /\ Usable /\ UNCHANGED <<requests, worker, pipe, served, lied>>
    <3>1. UNCHANGED <<wpc, lied>>
      BY <2>3 DEF worker
    <3> QED BY <1>6, <2>1, <3>1, BrokerInStep DEF Exchange
  <2> QED BY <1>6, <2>2, <2>3 DEF Inspect, Renewed
<1> QED BY <1>1, <1>2, <1>3, <1>4, <1>5, <1>6
      DEF Next, Broker, NoAnswer, SendFails, StreamGrown, CheckFails, ReceiveWrong

(* While the broker serves a file, every frame on the way belongs to it,   *)
(* and what an honest worker has received is what was read of it: answers  *)
(* and content are never those of another file.                            *)
THEOREM NothingIsLeftOver == Spec => []InStep
<1>1. Init => Exchange
  BY DEF Init, Exchange, InPlace, Streams
<1> QED BY <1>1, StartsTyped, TypesStep, ExchangeStep, ExchangeSuffices, PTL DEF Spec

(* The three promises together.                                            *)
THEOREM SoundExchange == Spec => []ExchangeIsSound
<1>1. ResultIsTheFile /\ InStep /\ Recycled => ExchangeIsSound
  BY DEF ExchangeIsSound
<1> QED BY <1>1, ResultsAreWhole, NothingIsLeftOver, WorkersAreReplaced, PTL
=============================================================================
