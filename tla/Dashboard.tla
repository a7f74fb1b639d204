------------------------------ MODULE Dashboard ------------------------------
(***************************************************************************)
(* The dashboard's control mode: DashboardCommands and the end of main()    *)
(* (src/main.cpp), the server and its sessions (src/app/dashboard_server    *)
(* .cpp), the snapshot store (src/app/dashboard_snapshot.cpp), and the      *)
(* snapshots a replay publishes (src/app/live_coordinator.cpp).             *)
(*                                                                          *)
(* Four threads: the io thread runs one handler at a time; the worker runs  *)
(* the commands; a replay has a publisher of its own; main waits for the    *)
(* signal and tears everything down.  The io thread and the worker meet at  *)
(* the command queue, all but main meet at the snapshot store.              *)
(***************************************************************************)
EXTENDS Integers, Sequences, FiniteSets

CONSTANTS
  Sessions,        \* connections open at the same time
  QueueLimit,      \* 8
  MaxCommands,     \* bounds the accepted commands
  MaxProgress      \* bounds the progress reports of one generation

ASSUME DashboardAssumption ==
  IsFiniteSet(Sessions) /\ QueueLimit \in Nat \ {0} /\ MaxCommands \in Nat /\ MaxProgress \in Nat

VARIABLES
  store,           \* latest_: its activity, and how far the shown replay is
  commands_,       \* the queue of DashboardCommands
  accepted, executed,   \* how many commands were pushed, and ended (not in the code)
  ended_as,        \* the activity that reported the last end (not in the code)
  last_replay,     \* the last replay that ended, "final" if it did without a throw
  stopping_,
  io_pc, io_copy, io_command,
  worker_pc, command, worker_copy, outcome, progress,
  publisher_pc, publisher_stop,
  main_pc, signalled,
  running_, accepting, ioc_stopped,
  sessions, clients_

commandVars == <<commands_, accepted, executed, ended_as, last_replay, stopping_>>
ioVars == <<io_pc, io_copy, io_command>>
workerVars == <<worker_pc, command, worker_copy, outcome, progress>>
publisherVars == <<publisher_pc, publisher_stop>>
mainVars == <<main_pc, signalled, running_, accepting, ioc_stopped>>
vars == <<store, commandVars, ioVars, workerVars, publisherVars, mainVars, sessions, clients_>>

NoCommand == [id |-> 0, action |-> "none"]
Closed == [kind |-> "free", reading |-> FALSE, sending |-> "no", counted |-> FALSE]
IdleSnapshot == [activity |-> [state |-> "idle", id |-> 0], replay |-> [id |-> 0, stage |-> "none"]]

Init ==
  /\ store = IdleSnapshot
  /\ commands_ = <<>> /\ accepted = 0 /\ executed = 0 /\ stopping_ = FALSE
  /\ ended_as = IdleSnapshot.activity /\ last_replay = IdleSnapshot.replay
  /\ io_pc = "idle" /\ io_copy = IdleSnapshot /\ io_command = NoCommand
  /\ worker_pc = "wait" /\ command = NoCommand /\ worker_copy = IdleSnapshot
  /\ outcome = "none" /\ progress = 0
  /\ publisher_pc = "none" /\ publisher_stop = FALSE
  /\ main_pc = "waiting" /\ signalled = FALSE
  /\ running_ = TRUE /\ accepting = TRUE /\ ioc_stopped = FALSE
  /\ sessions = [s \in Sessions |-> Closed]
  /\ clients_ = 0

(* publish_activity() on a copy of the latest snapshot: every other field   *)
(* is the copy's.                                                           *)
with_activity(copy, state, id) == [copy EXCEPT !.activity = [state |-> state, id |-> id]]

-----------------------------------------------------------------------------
(* DashboardCommands::submit(), run by the handler of a control request:    *)
(* the push under the mutex, the activity, the notification.                *)
io_ready == io_pc = "idle" /\ ~ioc_stopped
io_session == CHOOSE s \in Sessions : sessions[s].kind = "posting"

SubmitPush(s) ==
  /\ io_ready /\ sessions[s].kind = "http"
  /\ \/ /\ Len(commands_) >= QueueLimit
        /\ sessions' = [sessions EXCEPT ![s].kind = "responding"]
        /\ UNCHANGED <<commands_, accepted, io_pc, io_command>>
     \/ /\ Len(commands_) < QueueLimit
        /\ accepted < MaxCommands
        /\ accepted' = accepted + 1
        /\ \E action \in {"generate", "run"} :
             /\ io_command' = [id |-> accepted', action |-> action]
             /\ commands_' = Append(commands_, io_command')
        /\ io_pc' = "read"
        /\ sessions' = [sessions EXCEPT ![s].kind = "posting"]
  /\ UNCHANGED <<store, executed, ended_as, last_replay, stopping_, io_copy, workerVars,
                 publisherVars, mainVars, clients_>>

SubmitRead ==
  /\ io_pc = "read"
  /\ io_copy' = store
  /\ io_pc' = "publish"
  /\ UNCHANGED <<store, commandVars, io_command, workerVars, publisherVars, mainVars,
                 sessions, clients_>>

SubmitPublish ==
  /\ io_pc = "publish"
  /\ store' = with_activity(io_copy, "queued", io_command.id)
  /\ io_pc' = "notify"
  /\ UNCHANGED <<commandVars, io_copy, io_command, workerVars, publisherVars, mainVars,
                 sessions, clients_>>

(* A mistake: nobody is told. *)
woken_none == worker_pc

(* notify_one() and notify_all() on ready_: the worker is its only waiter. *)
woken == IF worker_pc = "blocked" THEN "wait" ELSE worker_pc

SubmitNotify ==
  /\ io_pc = "notify"
  /\ worker_pc' = woken
  /\ io_pc' = "idle"
  /\ io_copy' = IdleSnapshot /\ io_command' = NoCommand
  /\ sessions' = [sessions EXCEPT ![io_session].kind = "responding"]
  /\ UNCHANGED <<store, commandVars, command, worker_copy, outcome, progress,
                 publisherVars, mainVars, clients_>>

-----------------------------------------------------------------------------
(* The handlers of the sessions.  A session is freed when nothing of it is  *)
(* outstanding.                                                             *)
freed(x) == IF x.kind = "ws" /\ ~x.reading /\ x.sending = "no" THEN Closed ELSE x

sessionStep(s, x) == sessions' = [sessions EXCEPT ![s] = freed(x)]
otherwiseUnchanged == UNCHANGED <<store, commandVars, ioVars, workerVars, publisherVars, mainVars>>

(* accept(): a new connection, and the next accept while running_. *)
AcceptConnection(s) ==
  /\ io_ready /\ accepting
  /\ sessions[s].kind = "free"
  /\ sessions' = [sessions EXCEPT ![s].kind = "http"]
  /\ accepting' = running_
  /\ UNCHANGED <<store, commandVars, ioVars, workerVars, publisherVars, main_pc, signalled,
                 running_, ioc_stopped, clients_>>

(* HttpSession::read(): the peer left, an upgrade to /ws, or any request    *)
(* that is answered at once: pages, errors, an invalid control command.  A  *)
(* valid one is SubmitPush.                                                 *)
HttpRead(s) ==
  /\ io_ready /\ sessions[s].kind = "http"
  /\ \E kind \in {"free", "accepting", "responding"} :
       sessions' = [sessions EXCEPT ![s].kind = kind]
  /\ UNCHANGED clients_
  /\ otherwiseUnchanged

HttpWritten(s) ==
  /\ io_ready /\ sessions[s].kind = "responding"
  /\ sessions' = [sessions EXCEPT ![s] = Closed]
  /\ UNCHANGED clients_
  /\ otherwiseUnchanged

(* async_accept: the client counts, the read loop and the send loop start. *)
WsAccepted(s) ==
  /\ io_ready /\ sessions[s].kind = "accepting"
  /\ \/ /\ sessionStep(s, [kind |-> "ws", reading |-> TRUE, sending |-> "write", counted |-> TRUE])
        /\ clients_' = clients_ + 1
     \/ sessionStep(s, Closed) /\ UNCHANGED clients_
  /\ otherwiseUnchanged

(* A mistake: the session keeps being counted. *)
finished_sticky(x) == [x EXCEPT !.sending = IF @ = "timer" THEN "no" ELSE @]

(* finish(): a waiting timer is cancelled, one that has expired is not.     *)
finished(x) == [x EXCEPT !.counted = FALSE, !.sending = IF @ = "timer" THEN "no" ELSE @]
finish(s, x) ==
  /\ sessionStep(s, finished(x))
  /\ clients_' = IF x.counted THEN clients_ - 1 ELSE clients_

(* read_control(): messages are dropped and the next read starts. *)
WsReadFails(s) ==
  /\ io_ready /\ sessions[s].reading
  /\ finish(s, [sessions[s] EXCEPT !.reading = FALSE])
  /\ otherwiseUnchanged

(* The completion of a write: the timer is set, or the session is finished. *)
WsWritten(s) ==
  /\ io_ready /\ sessions[s].sending = "write"
  /\ \/ sessionStep(s, [sessions[s] EXCEPT !.sending = "timer"]) /\ UNCHANGED clients_
     \/ finish(s, [sessions[s] EXCEPT !.sending = "no"])
  /\ otherwiseUnchanged

TimerExpires(s) ==
  /\ sessions[s].sending = "timer" /\ ~ioc_stopped
  /\ sessionStep(s, [sessions[s] EXCEPT !.sending = "expired"])
  /\ UNCHANGED clients_
  /\ otherwiseUnchanged

(* send_latest(), with the newest snapshot. *)
SendLatest(s) ==
  /\ io_ready /\ sessions[s].sending = "expired"
  /\ sessionStep(s, [sessions[s] EXCEPT !.sending = "write"])
  /\ UNCHANGED clients_
  /\ otherwiseUnchanged

-----------------------------------------------------------------------------
(* DashboardCommands::work().  Testing the condition and going to sleep is  *)
(* one step, under the mutex; a sleeping worker may also wake by itself.    *)
workerStep(from, to) == worker_pc = from /\ worker_pc' = to

(* A mistake: the newest command is taken. *)
popped_last == [first |-> commands_[Len(commands_)], rest |-> SubSeq(commands_, 1, Len(commands_) - 1)]
popped == [first |-> Head(commands_), rest |-> Tail(commands_)]

WorkerSleep ==
  /\ ~stopping_ /\ commands_ = <<>>
  /\ workerStep("wait", "blocked")
  /\ UNCHANGED <<store, commandVars, ioVars, command, worker_copy, outcome, progress, publisherVars,
                 mainVars, sessions, clients_>>

SpuriousWake ==
  /\ workerStep("blocked", "wait")
  /\ UNCHANGED <<store, commandVars, ioVars, command, worker_copy, outcome, progress, publisherVars,
                 mainVars, sessions, clients_>>

WorkerReturn ==
  /\ stopping_
  /\ workerStep("wait", "returned")
  /\ UNCHANGED <<store, commandVars, ioVars, command, worker_copy, outcome, progress, publisherVars,
                 mainVars, sessions, clients_>>

WorkerPop ==
  /\ ~stopping_ /\ commands_ # <<>>
  /\ workerStep("wait", "read")
  /\ command' = popped.first
  /\ commands_' = popped.rest
  /\ outcome' = "begun" /\ progress' = 0
  /\ UNCHANGED <<store, accepted, executed, ended_as, last_replay, stopping_, ioVars, worker_copy,
                 publisherVars, mainVars, sessions, clients_>>

(* publish_activity(): at the beginning, for progress and at the end. *)
WorkerRead ==
  /\ workerStep("read", "publish")
  /\ worker_copy' = store
  /\ UNCHANGED <<store, commandVars, ioVars, command, outcome, progress, publisherVars, mainVars,
                 sessions, clients_>>

ended(state) ==
  /\ executed' = command.id
  /\ ended_as' = [state |-> state, id |-> command.id]

WorkerPublish ==
  /\ worker_pc = "publish"
  /\ \/ /\ outcome = "begun"
        /\ store' = with_activity(worker_copy,
                      IF command.action = "run" THEN "loading" ELSE "generating", command.id)
        /\ worker_pc' = "work"
        /\ UNCHANGED <<executed, ended_as, command>>
     \/ /\ outcome \in {"completed", "failed"}
        /\ store' = with_activity(worker_copy, outcome, command.id)
        /\ ended(outcome)
        /\ worker_pc' = "wait" /\ command' = NoCommand
  /\ outcome' = IF worker_pc' = "work" THEN outcome ELSE "none"
  /\ worker_copy' = IdleSnapshot
  /\ UNCHANGED <<commands_, accepted, last_replay, stopping_, ioVars, progress, publisherVars,
                 mainVars, sessions, clients_>>

(* generate_market_csv() reports progress, ends, or throws. *)
Generate ==
  /\ command.action = "generate"
  /\ workerStep("work", "read")
  /\ \/ progress < MaxProgress /\ progress' = progress + 1 /\ UNCHANGED outcome
     \/ outcome' \in {"completed", "failed"} /\ UNCHANGED progress
  /\ UNCHANGED <<store, commandVars, ioVars, command, worker_copy, publisherVars, mainVars, sessions,
                 clients_>>

(* read_events() or the GPU's constructor throws. *)
LoadFails ==
  /\ command.action = "run"
  /\ workerStep("work", "read")
  /\ outcome' = "failed"
  /\ UNCHANGED <<store, commandVars, ioVars, command, worker_copy, progress, publisherVars, mainVars,
                 sessions, clients_>>

(* The snapshot observed during a replay starts from nothing. *)
observed(stage, state) ==
  [activity |-> [state |-> state, id |-> command.id], replay |-> [id |-> command.id, stage |-> stage]]

(* LiveCoordinator::run() publishes its first snapshot, starts its publisher, *)
(* and replays.  A market error is a result; any other failure is thrown and *)
(* ends the publisher on the way out.                                       *)
StartReplay ==
  /\ command.action = "run"
  /\ workerStep("work", "replay")
  /\ store' = observed("running", "running")
  /\ publisher_pc' = "wait" /\ publisher_stop' = FALSE
  /\ UNCHANGED <<commandVars, ioVars, command, worker_copy, outcome, progress, mainVars, sessions,
                 clients_>>

EndReplay ==
  /\ workerStep("replay", "join")
  /\ outcome' \in {"replayed", "market_error", "failed"}
  /\ publisher_stop' = TRUE
  /\ UNCHANGED <<store, commandVars, ioVars, command, worker_copy, progress, publisher_pc, mainVars,
                 sessions, clients_>>

(* A mistake: the final snapshot is published while the publisher runs. *)
publisher_joined_early == TRUE

(* snapshot_publisher.join() has returned. *)
publisher_joined == publisher_pc = "none"

JoinPublisher ==
  /\ worker_pc = "join"
  /\ publisher_joined
  /\ \/ /\ outcome = "failed"
        /\ worker_pc' = "read"
        /\ UNCHANGED <<store, executed, ended_as, last_replay, command, outcome>>
     \/ /\ outcome # "failed"
        /\ store' = observed("final", IF outcome = "replayed" THEN "completed" ELSE "failed")
        /\ ended(store'.activity.state)
        /\ last_replay' = store'.replay
        /\ worker_pc' = "wait" /\ command' = NoCommand /\ outcome' = "none"
  /\ UNCHANGED <<commands_, accepted, stopping_, ioVars, worker_copy, progress, publisherVars,
                 mainVars, sessions, clients_>>

(* The publisher wakes at its interval or for the stop request; between its *)
(* copy and its publication the replay may end.                             *)
PublisherCopy ==
  /\ publisher_pc = "wait" /\ ~publisher_stop
  /\ publisher_pc' = "copied"
  /\ UNCHANGED <<store, commandVars, ioVars, workerVars, publisher_stop, mainVars, sessions, clients_>>

PublisherPublish ==
  /\ publisher_pc = "copied"
  /\ store' = observed("running", "running")
  /\ publisher_pc' = "wait"
  /\ UNCHANGED <<commandVars, ioVars, workerVars, publisher_stop, mainVars, sessions, clients_>>

PublisherExit ==
  /\ publisher_pc = "wait" /\ publisher_stop
  /\ publisher_pc' = "none"
  /\ UNCHANGED <<store, commandVars, ioVars, workerVars, publisher_stop, mainVars, sessions, clients_>>

-----------------------------------------------------------------------------
(* main(): the signal, DashboardServer::stop(), the destructors. *)
mainStep(from, to) == main_pc = from /\ main_pc' = to

Signal ==
  /\ ~signalled
  /\ signalled' = TRUE
  /\ UNCHANGED <<store, commandVars, ioVars, workerVars, publisherVars, main_pc, running_, accepting,
                 ioc_stopped, sessions, clients_>>

(* stop() posts a handler that closes the acceptor, and waits for it. *)
PostClose ==
  /\ signalled
  /\ mainStep("waiting", "closing")
  /\ running_' = FALSE
  /\ UNCHANGED <<store, commandVars, ioVars, workerVars, publisherVars, signalled, accepting,
                 ioc_stopped, sessions, clients_>>

CloseAcceptor ==
  /\ io_ready
  /\ mainStep("closing", "closed")
  /\ accepting' = FALSE
  /\ UNCHANGED <<store, commandVars, ioVars, workerVars, publisherVars, signalled, running_,
                 ioc_stopped, sessions, clients_>>

StopIoc ==
  /\ mainStep("closed", "joining")
  /\ ioc_stopped' = TRUE
  /\ UNCHANGED <<store, commandVars, ioVars, workerVars, publisherVars, signalled, running_,
                 accepting, sessions, clients_>>

(* A mistake: the io thread is not waited for. *)
io_thread_ended_unchecked == TRUE

(* run() has returned: the handler that was running has ended. *)
io_thread_ended == io_pc = "idle"

JoinIo ==
  /\ mainStep("joining", "destroying")
  /\ io_thread_ended
  /\ UNCHANGED <<store, commandVars, ioVars, workerVars, publisherVars, signalled, running_,
                 accepting, ioc_stopped, sessions, clients_>>

(* The server is gone; ~DashboardCommands() wakes the worker, joins it. *)
DestroyCommands ==
  /\ mainStep("destroying", "joining_worker")
  /\ stopping_' = TRUE
  /\ worker_pc' = woken
  /\ UNCHANGED <<store, commands_, accepted, executed, ended_as, last_replay, ioVars, command,
                 worker_copy, outcome, progress, publisherVars, signalled, running_, accepting,
                 ioc_stopped, sessions, clients_>>

JoinWorker ==
  /\ worker_pc = "returned"
  /\ mainStep("joining_worker", "ended")
  /\ UNCHANGED <<store, commandVars, ioVars, workerVars, publisherVars, signalled, running_,
                 accepting, ioc_stopped, sessions, clients_>>

Ended == main_pc = "ended" /\ UNCHANGED vars

-----------------------------------------------------------------------------
Submit == SubmitRead \/ SubmitPublish \/ SubmitNotify

Handler ==
  \E s \in Sessions :
    \/ AcceptConnection(s)
    \/ HttpRead(s)
    \/ SubmitPush(s)
    \/ HttpWritten(s)
    \/ WsAccepted(s)
    \/ WsReadFails(s)
    \/ WsWritten(s)
    \/ TimerExpires(s)
    \/ SendLatest(s)

Worker ==
  \/ WorkerSleep
  \/ WorkerReturn
  \/ WorkerPop
  \/ WorkerRead
  \/ WorkerPublish
  \/ Generate
  \/ LoadFails
  \/ StartReplay
  \/ EndReplay
  \/ JoinPublisher

Publisher == PublisherCopy \/ PublisherPublish \/ PublisherExit

Main == PostClose \/ StopIoc \/ JoinIo \/ DestroyCommands \/ JoinWorker

Next ==
  \/ Submit
  \/ Handler
  \/ Worker
  \/ SpuriousWake
  \/ Publisher
  \/ Signal
  \/ Main
  \/ CloseAcceptor
  \/ Ended

(* Each thread goes on while it can.  The io thread serves its handlers in  *)
(* the order they became ready, so that the one stop() posts gets its turn. *)
(* Clients, timers and the signal owe nothing.                              *)
Spec ==
  /\ Init /\ [][Next]_vars
  /\ WF_vars(Submit) /\ WF_vars(Worker) /\ WF_vars(Publisher) /\ WF_vars(Main)
  /\ SF_vars(CloseAcceptor)

-----------------------------------------------------------------------------
(* Properties. *)

(* dashboard.md: "Accepted commands enter an eight-entry FIFO and run       *)
(* serially."  The commands not ended are the ones accepted last, in order, *)
(* the one being run before the ones that wait.                             *)
RunSerially ==
  LET running == IF command = NoCommand THEN <<>> ELSE <<command>>
      unfinished == running \o commands_
  IN /\ Len(commands_) <= QueueLimit
     /\ Len(unfinished) = accepted - executed
     /\ \A i \in DOMAIN unfinished : unfinished[i].id = executed + i

(* The handler of a control request uses the DashboardCommands object that  *)
(* main() destroys: none is running or can start once that begins.          *)
NoSubmitAfterDestruction ==
  main_pc \in {"destroying", "joining_worker", "ended"} => io_pc = "idle" /\ ioc_stopped

(* However reads, writes and timers of a session end, clients_ counts the   *)
(* sessions that are being served: a read is outstanding, and a write or    *)
(* the timer of the next one.                                               *)
ClientCountExact ==
  /\ clients_ = Cardinality({s \in Sessions : sessions[s].counted})
  /\ \A s \in Sessions : sessions[s].counted => sessions[s].reading /\ sessions[s].sending # "no"

settled ==
  worker_pc \in {"wait", "blocked"} /\ commands_ = <<>> /\ io_pc = "idle"

(* When nothing is left to do the activity shown is how the last command    *)
(* ended, or, where submit() published later than the worker, that the last *)
(* command is queued.                                                       *)
SettledActivity ==
  settled => store.activity \in {ended_as, [state |-> "queued", id |-> accepted]}

(* A command that was accepted is run, unless the program is stopped,       *)
(* provided every replay ends; a GPU replay whose RTL thread fails does not *)
(* (RtlFailureEndsRun), and holds up every command behind it.               *)
AcceptedCommandsRun ==
  \A i \in 1 .. MaxCommands : (accepted >= i) ~> (executed >= i \/ stopping_)

(* After the signal the program ends, whatever was going on, with the same  *)
(* proviso: main() joins the worker, which ends with the replay it runs.    *)
ShutdownCompletes == signalled ~> (main_pc = "ended")

(* dashboard.md: the dashboard "presents current replay state".  When       *)
(* nothing is left to do and no later replay has begun, that is the end of  *)
(* the last replay that ended without a throw.                              *)
PresentsCurrentReplay ==
  settled /\ store.replay.id <= last_replay.id => store.replay = last_replay
=============================================================================
