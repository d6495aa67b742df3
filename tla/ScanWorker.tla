------------------------------ MODULE ScanWorker ------------------------------
(***************************************************************************)
(* The content worker (scan_worker.py): a broker streams files, one after  *)
(* another, to a child process and takes its answers, over a pipe that     *)
(* is replaced together with the process after any failure and after       *)
(* max_requests answers. The child may die, hang or, having met hostile    *)
(* content, send anything; the file may be written while it is streamed.   *)
(*                                                                         *)
(* Files are measured in content frames. Every frame of a file's content   *)
(* is labelled with the version of the file it was read from, so that a    *)
(* digest is the sequence of these labels. Correlation identifiers number  *)
(* the inspections; a content frame carries none in the code, its id is    *)
(* there for InStep only.                                                  *)
(***************************************************************************)
EXTENDS Integers, Sequences

CONSTANTS
    MaxRequests,        \* max_requests: answers before a worker is replaced
    PipeSize,           \* frames the pipe takes before its writer blocks
    MaxSize,            \* bound: frames in a file
    MaxInspections,     \* bound: inspections
    MaxVersions,        \* bound: versions of the file
    MaxFaults           \* bound: deaths, hangs and lies of workers

ASSUME WorkerAssumption ==
    /\ MaxRequests \in Nat \ {0} /\ PipeSize \in Nat \ {0} /\ MaxSize \in Nat
    /\ MaxInspections \in Nat /\ MaxVersions \in Nat \ {0} /\ MaxFaults \in Nat

VARIABLES
    length, version,    \* the file: its size and its modification time
    pc, begun,          \* the broker: where it is, the inspection it is at
    opened, sent,       \* the file's metadata when opened, what was read of it
    requests,           \* _requests: answers received from this worker
    wpc, hung, job,     \* the worker: where it is, whether it hangs, its request
    toWorker, toBroker, \* the pipe
    result,             \* the last result accepted, beside the file's metadata
    served, lied, faults \* history: requests of this worker; has it lied; faults

file == <<length, version>>
broker == <<begun, opened, sent, requests>>
worker == <<wpc, hung, job>>
pipe == <<toWorker, toBroker>>
history == <<served, lied, faults>>
vars == <<file, pc, broker, worker, pipe, result, history>>

Versions == 1..MaxVersions
Inspections == 0..MaxInspections
Metadata == [size : 0..MaxSize, version : Versions]
NoJob == [id |-> 0, size |-> 0, got |-> <<>>]

Frame(kind, id, size, data) == [kind |-> kind, id |-> id, size |-> size, data |-> data]

TypeOK ==
    /\ length \in 0..MaxSize /\ version \in Versions
    /\ pc \in {"idle", "hello", "ack", "send", "stream", "check", "wait"}
    /\ begun \in Inspections
    /\ opened \in Metadata /\ sent \in Seq(Versions) /\ Len(sent) <= opened.size
    /\ requests \in 0..MaxRequests
    /\ wpc \in {"none", "boot", "configure", "ready", "scan", "dead"} /\ hung \in BOOLEAN
    /\ job.id \in Inspections /\ job.size \in 0..MaxSize /\ Len(job.got) <= job.size
    /\ \A i \in 1..Len(toWorker) : toWorker[i].kind \in {"configuration", "scan", "content"}
    /\ \A i \in 1..Len(toBroker) : toBroker[i].kind \in {"hello", "configured", "answer"}
    /\ served \in Nat /\ lied \in BOOLEAN /\ faults \in 0..MaxFaults

Init ==
    /\ length \in 0..MaxSize /\ version = 1
    /\ pc = "idle" /\ begun = 0 /\ opened = [size |-> 0, version |-> 1] /\ sent = <<>>
    /\ requests = 0
    /\ wpc = "none" /\ hung = FALSE /\ job = NoJob
    /\ toWorker = <<>> /\ toBroker = <<>>
    /\ result = [size |-> 0, version |-> 1, digest |-> <<>>]
    /\ served = 0 /\ lied = FALSE /\ faults = 0

(* Another program writes the file. *)
Write ==
    /\ version < MaxVersions /\ version' = version + 1
    /\ length' \in 0..MaxSize
    /\ UNCHANGED <<pc, broker, worker, pipe, result, history>>

-----------------------------------------------------------------------------
(* The worker (_worker_main, _scan_stream).                                *)

Running == ~hung /\ UNCHANGED <<file, pc, broker, hung, result, lied, faults>>

Hello ==
    /\ Running
    /\ wpc = "boot" /\ wpc' = "configure"
    /\ toBroker' = Append(toBroker, Frame("hello", begun, 0, <<>>))
    /\ UNCHANGED <<job, toWorker, served>>

Configure ==
    /\ Running
    /\ wpc = "configure" /\ wpc' = "ready"
    /\ toWorker # <<>> /\ toWorker' = Tail(toWorker)
    /\ toBroker' = Append(toBroker, Frame("configured", begun, 0, <<>>))
    /\ UNCHANGED <<job, served>>

(* A frame that is not a request ends the worker. *)
TakeRequest ==
    /\ Running
    /\ wpc = "ready" /\ toWorker # <<>> /\ toWorker' = Tail(toWorker)
    /\ IF Head(toWorker).kind = "scan"
       THEN /\ wpc' = "scan"
            /\ job' = [id |-> Head(toWorker).id, size |-> Head(toWorker).size, got |-> <<>>]
            /\ served' = served + 1
       ELSE wpc' = "dead" /\ UNCHANGED <<job, served>>
    /\ UNCHANGED toBroker

(* Whatever frame comes while content is due is content. *)
TakeContent ==
    /\ Running
    /\ wpc = "scan" /\ Len(job.got) < job.size
    /\ toWorker # <<>> /\ toWorker' = Tail(toWorker)
    /\ job' = [job EXCEPT !.got = @ \o Head(toWorker).data]
    /\ UNCHANGED <<wpc, toBroker, served>>

Answer ==
    /\ Running
    /\ wpc = "scan" /\ Len(job.got) = job.size /\ wpc' = "ready"
    /\ toBroker' = Append(toBroker, Frame("answer", job.id, job.size, job.got))
    /\ UNCHANGED <<job, toWorker, served>>

Fault == faults < MaxFaults /\ faults' = faults + 1

Die ==
    /\ Fault
    /\ wpc \notin {"none", "dead"} /\ wpc' = "dead"
    /\ UNCHANGED <<file, pc, broker, hung, job, pipe, result, served, lied>>

Hang ==
    /\ Fault
    /\ wpc \notin {"none", "dead"} /\ hung' = TRUE
    /\ UNCHANGED <<file, pc, broker, wpc, job, pipe, result, served, lied>>

(* A worker that has been given content may answer anything at any time;   *)
(* <<0>> is the digest of none of the files.                               *)
Lie ==
    /\ Fault
    /\ wpc \in {"ready", "scan"} /\ served > 0 /\ lied' = TRUE
    /\ \E id \in 1..begun, size \in 0..MaxSize, digest \in {<<0>>, sent} :
           toBroker' = Append(toBroker, Frame("answer", id, size, digest))
    /\ UNCHANGED <<file, pc, broker, worker, toWorker, result, served>>

-----------------------------------------------------------------------------
(* The broker (BoundedScanWorker).                                         *)

(* close: a living worker is sent a shutdown frame, which has to fit in    *)
(* the pipe, and is killed unless it ends; nobody reads the pipe any more. *)
ShutdownFits == wpc \in {"none", "dead"} \/ Len(toWorker) < PipeSize

Close ==
    /\ ShutdownFits
    /\ wpc' = "none" /\ hung' = FALSE /\ job' = NoJob
    /\ toWorker' = <<>> /\ toBroker' = <<>> /\ requests' = 0
    /\ served' = 0 /\ lied' = FALSE

(* Mutant: after a failure the worker is kept for the next file.           *)
FailOpen ==
    /\ pc' = "idle"
    /\ UNCHANGED <<file, begun, opened, sent, requests, worker, pipe, result, history>>

(* Every failure of an inspection closes the worker. *)
Fail ==
    /\ pc' = "idle" /\ Close
    /\ UNCHANGED <<file, begun, opened, sent, result, faults>>

(* _ensure_started: is there a worker to be used once more? *)
Usable == wpc \notin {"none", "dead"} /\ requests < MaxRequests

(* A file has been opened; a worker is started if there is none to use. *)
Inspect ==
    /\ pc = "idle" /\ begun < MaxInspections /\ begun' = begun + 1
    /\ opened' = [size |-> length, version |-> version] /\ sent' = <<>>
    /\ IF Usable
       THEN pc' = "send" /\ UNCHANGED <<requests, worker, pipe, served, lied>>
       ELSE /\ pc' = "hello" /\ ShutdownFits
            /\ wpc' = "boot" /\ hung' = FALSE /\ job' = NoJob
            /\ toWorker' = <<>> /\ toBroker' = <<>> /\ requests' = 0
            /\ served' = 0 /\ lied' = FALSE
    /\ UNCHANGED <<file, result, faults>>

(* The configuration cannot be sent to a worker that has died: an OSError  *)
(* that _start does not handle, and the worker is not closed.              *)
ReceiveHello ==
    /\ pc = "hello"
    /\ toBroker # <<>> /\ toBroker' = Tail(toBroker)
    /\ IF wpc = "dead"
       THEN pc' = "idle" /\ UNCHANGED toWorker
       ELSE pc' = "ack" /\ toWorker' = Append(toWorker, Frame("configuration", begun, 0, <<>>))
    /\ UNCHANGED <<file, broker, worker, result, history>>

ReceiveAck ==
    /\ pc = "ack" /\ pc' = "send"
    /\ toBroker # <<>> /\ toBroker' = Tail(toBroker)
    /\ requests' = 0
    /\ UNCHANGED <<file, begun, opened, sent, worker, toWorker, result, history>>

(* Mutant: the handshake has no deadline.                                  *)
NoAnswerToRequest ==
    /\ pc = "wait" /\ toBroker = <<>>
    /\ Fail

(* _receive: the deadline has passed, or the worker has died. *)
NoAnswer ==
    /\ pc \in {"hello", "ack", "wait"} /\ toBroker = <<>>
    /\ Fail

(* A write to the pipe blocks while it is full, for as long as its reader  *)
(* lives; then it fails.                                                   *)
Sends(frame) ==
    /\ wpc # "dead" /\ Len(toWorker) < PipeSize
    /\ toWorker' = Append(toWorker, frame)

SendRequest ==
    /\ pc = "send" /\ pc' = "stream"
    /\ Sends(Frame("scan", begun, opened.size, <<>>))
    /\ UNCHANGED <<file, broker, worker, toBroker, result, history>>

SendFails ==
    /\ \/ pc = "send"
       \/ pc = "stream" /\ Len(sent) < length
    /\ wpc = "dead"
    /\ Fail

(* Mutant: the file is streamed as long as it grows.                       *)
StreamWhatComes ==
    /\ pc = "stream" /\ Len(sent) < length
    /\ Sends(Frame("content", begun, 0, <<version>>))
    /\ sent' = Append(sent, version)
    /\ UNCHANGED <<file, pc, begun, opened, requests, worker, toBroker, result, history>>

Stream ==
    /\ pc = "stream" /\ Len(sent) < length /\ Len(sent) < opened.size
    /\ Sends(Frame("content", begun, 0, <<version>>))
    /\ sent' = Append(sent, version)
    /\ UNCHANGED <<file, pc, begun, opened, requests, worker, toBroker, result, history>>

(* There is more to read than the file had when it was opened. *)
StreamGrown ==
    /\ pc = "stream" /\ Len(sent) < length /\ Len(sent) = opened.size
    /\ Fail

StreamEnds ==
    /\ pc = "stream" /\ Len(sent) >= length /\ pc' = "check"
    /\ UNCHANGED <<file, broker, worker, pipe, result, history>>

Unchanged ==
    length = opened.size /\ version = opened.version /\ Len(sent) = opened.size

Check ==
    /\ pc = "check" /\ Unchanged /\ pc' = "wait"
    /\ UNCHANGED <<file, broker, worker, pipe, result, history>>

CheckFails ==
    /\ pc = "check" /\ ~Unchanged
    /\ Fail

(* _validate_response and the comparison of the digests. *)
Acceptable(answer) ==
    answer.id = begun /\ answer.size = opened.size /\ answer.data = sent

Receive ==
    /\ pc = "wait" /\ pc' = "idle"
    /\ toBroker # <<>> /\ Acceptable(Head(toBroker)) /\ toBroker' = Tail(toBroker)
    /\ requests' = requests + 1
    /\ result' = [size |-> opened.size, version |-> opened.version,
                  digest |-> Head(toBroker).data]
    /\ UNCHANGED <<file, begun, opened, sent, worker, toWorker, history>>

ReceiveWrong ==
    /\ pc = "wait"
    /\ toBroker # <<>> /\ ~Acceptable(Head(toBroker))
    /\ Fail

-----------------------------------------------------------------------------
Broker ==
    \/ ReceiveHello \/ ReceiveAck \/ NoAnswer \/ SendRequest \/ SendFails
    \/ Stream \/ StreamGrown \/ StreamEnds \/ Check \/ CheckFails
    \/ Receive \/ ReceiveWrong

Worker == Hello \/ Configure \/ TakeRequest \/ TakeContent \/ Answer

Next == Write \/ Inspect \/ Broker \/ Worker \/ Die \/ Hang \/ Lie

Spec == Init /\ [][Next]_vars

(* The broker goes on while it can, and so does a worker that does not     *)
(* hang. Deadlines pass, since they are on the broker's own clock.         *)
FairSpec == Spec /\ WF_vars(Broker) /\ WF_vars(Worker)

-----------------------------------------------------------------------------
(* "A timeout, crash, ... digest disagreement, or malformed response fails *)
(* the file closed": a result is about the whole of one version of the     *)
(* file that was opened, whatever the worker and the file have done.       *)
ResultIsTheFile == result.digest = [i \in 1..result.size |-> result.version]

(* "The broker sends one request at a time": while it serves one, what an  *)
(* honest worker has received and what is on its way make up what was read *)
(* of this file, and every frame belongs to it; before, the pipe is empty. *)
Read(i) ==
    IF i <= Len(job.got) THEN job.got[i] ELSE toWorker[i - Len(job.got)].data[1]

InStep ==
    ~lied /\ wpc # "dead" =>
        /\ pc = "send" => toWorker = <<>> /\ toBroker = <<>> /\ wpc = "ready"
        /\ pc \in {"stream", "check", "wait"} =>
              /\ \A i \in 1..Len(toWorker) : toWorker[i].id = begun
              /\ \A i \in 1..Len(toBroker) : toBroker[i].id = begun
              /\ wpc = "scan" =>
                    /\ job.id = begun
                    /\ Len(job.got) + Len(toWorker) = Len(sent)
                    /\ \A i \in 1..Len(sent) : sent[i] = Read(i)

(* "A worker is replaced after 512 requests by default".                   *)
Recycled == served <= MaxRequests

(* One exchange at a time, about one file, by a worker that is replaced in *)
(* time: no answer is ever taken for another.                              *)
ExchangeIsSound == ResultIsTheFile /\ InStep /\ Recycled

(* "The broker applies a bounded response deadline": an inspection returns *)
(* whether the worker dies, or hangs in the handshake or over content it   *)
(* has received in full. The deadline is one on answers only: a worker     *)
(* that hangs without emptying its end of the pipe may block the broker in *)
(* a write, of content or of the shutdown frame, so this case is excluded. *)
HangsOverPipe ==
    hung /\ (wpc = "ready" \/ (wpc = "scan" /\ (lied \/ Len(job.got) < job.size)))

EventuallyReturns == []~HangsOverPipe => (pc # "idle" ~> pc = "idle")
=============================================================================
