---------------------------- MODULE WorkerClient ----------------------------
(***************************************************************************)
(* The client of a Python worker process: send_task of several callers,    *)
(* the writer and reader tasks they share, and the process at the other    *)
(* end of the pipes (external).  Workers are numbered in the order they    *)
(* are launched.  A request id is the caller and its call's serial number. *)
(* A caller's one-shot channel is its entry of `answer`.                   *)
(***************************************************************************)
EXTENDS Naturals, FiniteSets

CONSTANTS
  Caller,     \* invocations that may run at the same time
  MaxWorkers, \* bound: workers launched
  MaxCalls    \* bound: calls made in all

Worker == 1 .. MaxWorkers
NoWorker == 0

VARIABLES
  process,  \* the child: "none" (not launched), "running" or "gone"
  inbox,    \* requests it has been sent and not answered, while its answers are read
  frames,   \* lines it wrote that the reader has not read
  outbound, \* task lines queued for the writer task
  writing,  \* does the writer task run?
  alive,    \* the client's flag
  reader,   \* the reader task: "reading", "closing" (flag cleared), "ended"
  pending,  \* ids with a one-shot waiting for the response
  pc,       \* what each caller does next
  at,       \* the worker it talks to
  serial,   \* calls it has made
  answer,   \* what its one-shot holds
  calls,    \* calls made in all
  discarded, \* history: calls under way whose response frame was discarded as too large
  abandoned  \* history: calls that were dropped with their one-shot in the table

io == <<process, inbox, frames, outbound, writing, alive, reader>>

client == <<io, pending>>

call == <<pc, at, serial, answer, discarded, abandoned>>

RequestId == Caller \X (1 .. MaxCalls)

\* A response line: within the limit, or too large with its id within the
\* retained prefix or past it.
Frame == [kind : {"line", "big", "bignoid"}, id : RequestId]

NoAnswer == [kind |-> "none"]
Dropped  == [kind |-> "dropped"]

Id(c) == <<c, serial[c]>>

ClientInit ==
  /\ process = [w \in Worker |-> "none"]
  /\ inbox = [w \in Worker |-> {}]
  /\ frames = [w \in Worker |-> {}]
  /\ outbound = [w \in Worker |-> {}]
  /\ writing = [w \in Worker |-> FALSE]
  /\ alive = [w \in Worker |-> FALSE]
  /\ reader = [w \in Worker |-> "ended"]
  /\ pending = [w \in Worker |-> {}]
  /\ pc = [c \in Caller |-> "idle"]
  /\ at = [c \in Caller |-> NoWorker]
  /\ serial = [c \in Caller |-> 0]
  /\ answer = [c \in Caller |-> NoAnswer]
  /\ calls = 0
  /\ discarded = {} /\ abandoned = {}

\* A worker is launched and its tasks are started.
Spawn(w) ==
  /\ process' = [process EXCEPT ![w] = "running"]
  /\ writing' = [writing EXCEPT ![w] = TRUE]
  /\ alive' = [alive EXCEPT ![w] = TRUE]
  /\ reader' = [reader EXCEPT ![w] = "reading"]
  /\ UNCHANGED <<inbox, frames, outbound, pending>>

\* The process ends, of itself or killed.
Kill(w) ==
  /\ process' = [process EXCEPT ![w] = "gone"]
  /\ inbox' = [inbox EXCEPT ![w] = {}]
  /\ UNCHANGED <<frames, outbound, writing, alive, reader, pending>>

GoTo(c, step) == pc' = [pc EXCEPT ![c] = step] /\ UNCHANGED <<at, serial, answer, discarded, abandoned>>

\* What was kept for the call is dropped.
Forget(c) ==
  /\ pc' = [pc EXCEPT ![c] = "idle"]
  /\ at' = [at EXCEPT ![c] = NoWorker]
  /\ serial' = [serial EXCEPT ![c] = 0]
  /\ answer' = [answer EXCEPT ![c] = NoAnswer]
  /\ discarded' = discarded \ {Id(c)}

\* The call ends.
Return(c) == Forget(c) /\ UNCHANGED abandoned
-----------------------------------------------------------------------------
(* send_task *)

CheckAlive(c) ==
  /\ pc[c] = "send"
  /\ IF alive[at[c]] THEN GoTo(c, "checked") ELSE Return(c)
  /\ UNCHANGED <<client, calls>>

TaskTooLarge(c) ==
  /\ pc[c] = "checked"
  /\ Return(c)
  /\ UNCHANGED <<client, calls>>

\* The one-shot is registered before the task is written.
Insert(c) ==
  /\ pc[c] = "checked"
  /\ pending' = [pending EXCEPT ![at[c]] = @ \cup {Id(c)}]
  /\ GoTo(c, "registered")
  /\ UNCHANGED <<io, calls>>

Submit(c) ==
  /\ pc[c] = "registered"
  /\ IF writing[at[c]]
     THEN /\ outbound' = [outbound EXCEPT ![at[c]] = @ \cup {Id(c)}]
          /\ GoTo(c, "waiting")
          /\ UNCHANGED pending
     ELSE /\ pending' = [pending EXCEPT ![at[c]] = @ \ {Id(c)}]
          /\ Return(c)
          /\ UNCHANGED outbound
  /\ UNCHANGED <<process, inbox, frames, writing, alive, reader, calls>>

\* The one-shot holds a response, a failure from the reader, or its sender is
\* gone.  A response may itself report an error (interpret_response).
Receive(c) ==
  /\ pc[c] = "waiting"
  /\ answer[c] # NoAnswer
  /\ \/ answer[c].kind = "line" /\ GoTo(c, "answered")
     \/ Return(c)
  /\ UNCHANGED <<client, calls>>

\* Fault: no timeout on the wait.
NeverTimesOut(c) ==
  /\ pc[c] = "waiting"
  /\ reader[at[c]] = "ended"
  /\ answer[c] = NoAnswer
  /\ GoTo(c, "expired")
  /\ UNCHANGED <<client, calls>>

\* The timer fires while the one-shot is empty.
TimesOut(c) ==
  /\ pc[c] = "waiting"
  /\ answer[c] = NoAnswer
  /\ GoTo(c, "expired")
  /\ UNCHANGED <<client, calls>>

\* Fault: the entry of a call that timed out stays in the table.
GiveUpKeepsEntry(c) ==
  /\ pc[c] = "expired"
  /\ Return(c)
  /\ UNCHANGED <<client, calls>>

GiveUp(c) ==
  /\ pc[c] = "expired"
  /\ pending' = [pending EXCEPT ![at[c]] = @ \ {Id(c)}]
  /\ Return(c)
  /\ UNCHANGED <<io, calls>>

SendTask(c) ==
  \/ CheckAlive(c) \/ TaskTooLarge(c) \/ Insert(c) \/ Submit(c)
  \/ Receive(c) \/ TimesOut(c) \/ GiveUp(c)
-----------------------------------------------------------------------------
(* The writer task, the process and the reader task of a worker. *)

\* A write to a process that is gone fails and ends the task with its queue.
WriterLoop(w) ==
  /\ writing[w]
  /\ outbound[w] # {}
  /\ IF process[w] = "running"
     THEN /\ inbox' = [inbox EXCEPT ![w] = IF reader[w] = "reading" THEN @ \cup outbound[w] ELSE @]
          /\ outbound' = [outbound EXCEPT ![w] = {}]
          /\ UNCHANGED writing
     ELSE /\ writing' = [writing EXCEPT ![w] = FALSE]
          /\ outbound' = [outbound EXCEPT ![w] = {}]
          /\ UNCHANGED inbox
  /\ UNCHANGED <<process, frames, alive, reader, pending, call, calls>>

\* The worker answers a request it has read.  An answer on a line the plugin
\* also printed to is not JSON and is skipped, as if there were none.
WorkerAnswers(w) ==
  /\ process[w] = "running"
  /\ \E f \in Frame :
       /\ f.id \in inbox[w]
       /\ inbox' = [inbox EXCEPT ![w] = @ \ {f.id}]
       /\ frames' = [frames EXCEPT ![w] = @ \cup {f}]
  /\ UNCHANGED <<process, outbound, writing, alive, reader, pending, call, calls>>

WorkerDies(w) == process[w] = "running" /\ Kill(w) /\ UNCHANGED <<call, calls>>

\* Put f into the one-shots of the given requests, and take them off the table; the
\* receiver of one may have been dropped.
Deliver(w, f, ids) ==
  /\ pending' = [pending EXCEPT ![w] = @ \ ids]
  /\ answer' = [c \in Caller |-> IF Id(c) \in ids THEN f ELSE answer[c]]

\* Whom the reader tells of a frame: its owner if still waiting; of an oversized
\* frame whose owner it cannot name among the waiting, everyone.
Recipients(w, f) ==
  IF f.kind = "line" \/ (f.kind = "big" /\ f.id \in pending[w])
  THEN {f.id} \cap pending[w]
  ELSE pending[w]

ReadFrame(w) ==
  /\ reader[w] = "reading"
  /\ \E f \in frames[w] :
       /\ frames' = [frames EXCEPT ![w] = @ \ {f}]
       /\ Deliver(w, f, Recipients(w, f))
       /\ discarded' = IF f.kind # "line" /\ Id(f.id[1]) = f.id
                       THEN discarded \cup {f.id} ELSE discarded
  /\ UNCHANGED <<process, inbox, outbound, writing, alive, reader, pc, at, serial, abandoned, calls>>

\* End of file, or an error that loses what was still to be read.
StopReading(w) ==
  /\ reader[w] = "reading"
  /\ alive' = [alive EXCEPT ![w] = FALSE]
  /\ frames' = [frames EXCEPT ![w] = {}]
  /\ inbox' = [inbox EXCEPT ![w] = {}]
  /\ reader' = [reader EXCEPT ![w] = "closing"]
  /\ UNCHANGED <<process, outbound, writing, pending, call, calls>>

ReadEof(w) == process[w] = "gone" /\ frames[w] = {} /\ StopReading(w)

ReadError(w) == process[w] = "running" /\ StopReading(w)

\* Dropping the senders ends every call that waits.
ClearPending(w) ==
  /\ reader[w] = "closing"
  /\ reader' = [reader EXCEPT ![w] = "ended"]
  /\ Deliver(w, Dropped, pending[w])
  /\ UNCHANGED <<process, inbox, frames, outbound, writing, alive, pc, at, serial, calls, discarded, abandoned>>

WorkerTasks(w) == WriterLoop(w) \/ ReadFrame(w) \/ ReadEof(w) \/ ClearPending(w)

WorkerFaults(w) == WorkerAnswers(w) \/ WorkerDies(w) \/ ReadError(w)
=============================================================================
