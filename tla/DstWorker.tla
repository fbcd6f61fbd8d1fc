------------------------------ MODULE DstWorker ------------------------------
(***************************************************************************)
(* The worker processes of the distributed job system (dst) and the TCP    *)
(* connections other processes open to them.                               *)
(*                                                                         *)
(* A worker serves all its connections from one io_context thread, so it   *)
(* runs one job handler at a time.  A handler either applies a broadcast   *)
(* update to the worker's own copy of the design and answers, or runs a    *)
(* job and answers with one or more messages, the last one being final.    *)
(*                                                                         *)
(* The balancer opens at most one connection to a worker per CallId at a   *)
(* time: a relay (one per client connection), a broadcast task (one per    *)
(* queue entry) or the replay of the broadcast history (one, by the        *)
(* discovery thread).                                                      *)
(***************************************************************************)
EXTENDS Naturals, Sequences, FiniteSets

CONSTANTS
  Worker,       \* the addresses (ip, port) a worker process listens on
  Conn,         \* the balancer's client connections (BalancerConnection)
  Entry,        \* the calls of addWorker: places in the balancer's queue
  LookUp,       \* the discovery thread
  MaxFaults,    \* bound: crashes and connection failures in a behaviour
  MaxRestarts   \* bound: restarts of one worker process

CallId == Conn \cup Entry \cup {LookUp}

ASSUME DstWorkerAssumption ==
  /\ MaxFaults \in Nat
  /\ MaxRestarts \in Nat
  /\ Worker # {}
  /\ Conn \cap Entry = {}
  /\ LookUp \notin Conn \cup Entry

VARIABLES
  up,        \* up[w]: the process of w is running
  applied,   \* applied[w]: places in the broadcast history that this process
             \* of w has applied
  restarts,  \* restarts[w]: how often the process of w was restarted
  faults,    \* faults so far
  faulty,    \* workers that a fault has touched (history variable)
  call,      \* call[id]: the connection id holds to a worker
  buffer,    \* buffer[n]: receive_buffer of the relay of connection n
  runs       \* runs[n]: how often a worker has started the job of connection
             \* n (history variable)

workerVars == <<up, applied, restarts, faults, faulty, call, buffer, runs>>

\* What a call carries: a job (arg: messages it has still to answer with), a
\* broadcast (arg: its place in the history), the headless rest of a packet, or
\* no bytes at all.
Kind == {"job", "broadcast", "tail", "nothing"}

\* "posted": queued in the broadcast pool, not connected yet; "sent": bytes are
\* with the worker's kernel; "running": the handler has read them; "eof" and
\* "reset": how the read of the caller ended.
CallState == {"idle", "posted", "sent", "running", "eof", "reset"}

\* Messages the balancer and the client receive: intermediate and final results
\* of a job, a truncated message, the "0" sent for a malformed packet, the
\* balancer's own kError and kSuccess answers, and a worker's address.
Msg == {"part", "final", "fragment", "zero", "error", "success", "address"}

CallRec == [st : CallState, to : Worker, kind : Kind, arg : Nat]
NoCall == [st |-> "idle", to |-> CHOOSE w \in Worker : TRUE, kind |-> "nothing", arg |-> 0]
Call(w, kind, arg) == [st |-> "sent", to |-> w, kind |-> kind, arg |-> arg]

WorkerTypeOK ==
  /\ up \in [Worker -> BOOLEAN]
  /\ applied \in [Worker -> SUBSET Nat]
  /\ restarts \in [Worker -> 0 .. MaxRestarts]
  /\ faults \in 0 .. MaxFaults
  /\ faulty \in SUBSET Worker
  /\ call \in [CallId -> CallRec]
  /\ buffer \in [Conn -> Seq(Msg)]
  /\ runs \in [Conn -> Nat]

WorkerInit ==
  /\ up \in [Worker -> BOOLEAN]
  /\ applied = [w \in Worker |-> {}]
  /\ restarts = [w \in Worker |-> 0]
  /\ faults = 0
  /\ faulty = {}
  /\ call = [id \in CallId |-> NoCall]
  /\ buffer = [n \in Conn |-> <<>>]
  /\ runs = [n \in Conn |-> 0]

Running(w) == {id \in CallId : call[id].st = "running" /\ call[id].to = w}

-----------------------------------------------------------------------------
(* The handlers of a worker.                                               *)

\* WorkerConnection::handle_read on a packet that does not parse: answer "0"
\* and close.
RejectPacket(id) ==
  LET w == call[id].to IN
  /\ call[id].st = "sent" /\ call[id].kind = "tail"
  /\ up[w] /\ Running(w) = {}
  /\ call' = [call EXCEPT ![id].st = "eof"]
  /\ buffer' = IF id \in Conn THEN [buffer EXCEPT ![id] = Append(@, "zero")] ELSE buffer
  /\ UNCHANGED <<up, applied, restarts, faults, faulty, runs>>

\* The io_context thread of the worker reads a whole packet and enters the
\* callback for its job type.  A connection that never delivers an end of
\* packet is never read.
StartHandler(id) ==
  LET w == call[id].to IN
  /\ call[id].st = "sent" /\ call[id].kind \in {"job", "broadcast"}
  /\ up[w] /\ Running(w) = {}
  /\ call' = [call EXCEPT ![id].st = "running"]
  /\ runs' = IF id \in Conn THEN [runs EXCEPT ![id] = @ + 1] ELSE runs
  /\ UNCHANGED <<up, applied, restarts, faults, faulty, buffer>>

\* RoutingCallBack::sendResult: kSuccess marks the last message of an answer.
ResultMsg(last) == IF last THEN "final" ELSE "part"

\* RoutingCallBack::onRoutingJobReceived: intermediate results as they come,
\* the last one followed by the close of the socket.
SendResult(id) ==
  LET last == call[id].arg <= 1 IN
  /\ id \in Conn
  /\ call[id].st = "running" /\ call[id].kind = "job"
  /\ buffer' = [buffer EXCEPT ![id] = Append(@, ResultMsg(last))]
  /\ call' = IF last THEN [call EXCEPT ![id].st = "eof"] ELSE [call EXCEPT ![id].arg = @ - 1]
  /\ UNCHANGED <<up, applied, restarts, faults, faulty, runs>>

\* RoutingCallBack::onFrDesignUpdated (and the pin-access and GRDR callbacks):
\* apply the update to the worker's design, answer, close.
ApplyUpdate(id) ==
  LET w == call[id].to IN
  /\ call[id].st = "running" /\ call[id].kind = "broadcast"
  /\ applied' = [applied EXCEPT ![w] = @ \cup {call[id].arg}]
  /\ call' = [call EXCEPT ![id].st = "eof"]
  /\ UNCHANGED <<up, restarts, faults, faulty, buffer, runs>>

-----------------------------------------------------------------------------
(* Faults: external, at most MaxFaults of them.                            *)

\* A worker process dies and its kernel closes the sockets.  A connection with
\* unread bytes is reset; one whose bytes were all read ends with an ordinary
\* end of file (or a reset, when the machine goes too), and a result may be cut
\* in the middle.
Crash(w, atEof, cut) ==
  LET mine == {id \in CallId : call[id].to = w /\ call[id].st \in {"sent", "running"}}
      End(id) == IF id \in atEof THEN "eof" ELSE "reset"
  IN
  /\ up[w] /\ faults < MaxFaults
  /\ atEof \subseteq {id \in mine : call[id].st = "running" \/ call[id].kind = "nothing"}
  /\ cut \subseteq {id \in mine \cap Conn : call[id].st = "running"}
  /\ up' = [up EXCEPT ![w] = FALSE]
  /\ applied' = [applied EXCEPT ![w] = {}]
  /\ call' = [id \in CallId |-> IF id \in mine THEN [call[id] EXCEPT !.st = End(id)] ELSE call[id]]
  /\ buffer' = [n \in Conn |-> IF n \in cut THEN Append(buffer[n], "fragment") ELSE buffer[n]]
  /\ faults' = faults + 1
  /\ faulty' = faulty \cup {w}
  /\ UNCHANGED <<restarts, runs>>

\* A worker process comes up with no design: for the first time, or again after
\* a crash.
Restart(w) ==
  /\ ~ up[w] /\ restarts[w] < MaxRestarts
  /\ up' = [up EXCEPT ![w] = TRUE]
  /\ restarts' = [restarts EXCEPT ![w] = @ + 1]
  /\ UNCHANGED <<applied, faults, faulty, call, buffer, runs>>

\* The network breaks one connection.  A handler that is running does not
\* notice before it answers: an update is applied all the same.
BreakConnection(id) ==
  LET w == call[id].to IN
  /\ call[id].st \in {"sent", "running"} /\ faults < MaxFaults
  /\ call' = [call EXCEPT ![id].st = "reset"]
  /\ applied' = IF call[id].st = "running" /\ call[id].kind = "broadcast"
                THEN [applied EXCEPT ![w] = @ \cup {call[id].arg}] ELSE applied
  /\ faults' = faults + 1
  /\ faulty' = faulty \cup {w}
  /\ UNCHANGED <<up, restarts, buffer, runs>>

HandlerStep(id) ==
  RejectPacket(id) \/ StartHandler(id) \/ SendResult(id) \/ ApplyUpdate(id)

FaultStep ==
  \/ \E w \in Worker :
       \/ \E atEof \in SUBSET {id \in CallId : call[id].to = w /\ call[id].st \in {"sent", "running"}} :
          \E cut \in SUBSET {n \in Conn : call[n].to = w /\ call[n].st = "running"} :
            Crash(w, atEof, cut)
       \/ Restart(w)
  \/ \E id \in CallId : BreakConnection(id)
=============================================================================
