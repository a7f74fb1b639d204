--------------------------- MODULE Dashboard_proofs ---------------------------
(***************************************************************************)
(* Proofs about Dashboard: for every finite set of sessions, every queue    *)
(* limit, and every number of commands and progress reports.                *)
(***************************************************************************)
EXTENDS Dashboard, FiniteSetTheorems, TLAPS

-----------------------------------------------------------------------------
(* The inductive invariant, thread by thread. *)

State == {"idle", "queued", "generating", "loading", "running", "completed", "failed"}
Stage == {"none", "running", "final"}
Activity == [state : State, id : Nat]
Replay == [id : Nat, stage : Stage]
Snapshot == [activity : Activity, replay : Replay]
Command == [id : Nat, action : {"generate", "run"}]
Session == [kind : {"free", "http", "posting", "responding", "accepting", "ws"},
            reading : BOOLEAN, sending : {"no", "write", "timer", "expired"}, counted : BOOLEAN]

(* What the two threads that publish activities hold. *)
SnapshotsOK ==
  /\ store \in Snapshot /\ io_copy \in Snapshot /\ worker_copy \in Snapshot

(* The command being run is the worker's while it is at work; the queue     *)
(* holds the commands accepted after it.                                    *)
AtWork == {"read", "publish", "work", "replay", "join"}
begun == IF command = NoCommand THEN 0 ELSE 1

QueueInv ==
  /\ accepted \in Nat /\ executed \in Nat
  /\ commands_ \in Seq(Command) /\ Len(commands_) <= QueueLimit
  /\ command \in Command \union {NoCommand}
  /\ worker_pc \in AtWork \union {"wait", "blocked", "returned"}
  /\ command # NoCommand <=> worker_pc \in AtWork
  /\ command # NoCommand => command.id = executed + 1
  /\ Len(commands_) + begun = accepted - executed
  /\ \A i \in 1 .. Len(commands_) : commands_[i].id = executed + begun + i

(* A handler that is submitting has the newest command; a publisher exists  *)
(* only inside a replay.                                                    *)
ThreadInv ==
  /\ io_pc \in {"idle", "read", "publish", "notify"}
  /\ io_pc # "idle" => io_command.id = accepted
  /\ publisher_pc \in {"none", "wait", "copied"}
  /\ publisher_pc # "none" => worker_pc \in {"replay", "join"}
  /\ worker_pc = "replay" => ~publisher_stop

(* How far main() is in tearing the server down. *)
ShutdownInv ==
  /\ main_pc \in {"waiting", "closing", "closed", "joining", "destroying", "joining_worker", "ended"}
  /\ ioc_stopped <=> main_pc \in {"joining", "destroying", "joining_worker", "ended"}
  /\ main_pc \in {"destroying", "joining_worker", "ended"} => io_pc = "idle"

(* Only an accepted WebSocket reads, sends and counts; the session of the   *)
(* handler that is submitting waits for its answer.                         *)
SessionInv ==
  /\ sessions \in [Sessions -> Session]
  /\ \A s \in Sessions :
       /\ sessions[s].reading \/ sessions[s].sending # "no" => sessions[s].kind = "ws"
       /\ sessions[s].counted => sessions[s].reading /\ sessions[s].sending # "no"
  /\ io_pc # "idle" => \E s \in Sessions : sessions[s].kind = "posting"

counted == {s \in Sessions : sessions[s].counted}
CountInv == clients_ = Cardinality(counted)

(* A worker with nothing to do: stronger than SettledActivity, for submit() *)
(* may still be about to publish.                                           *)
ActivityInv ==
  worker_pc \in {"wait", "blocked"} /\ commands_ = <<>>
    => store.activity \in {ended_as, [state |-> "queued", id |-> accepted]}

DashboardInv ==
  SnapshotsOK /\ QueueInv /\ ThreadInv /\ ShutdownInv /\ SessionInv /\ CountInv /\ ActivityInv

-----------------------------------------------------------------------------
(* The assumptions, and what the vector of variables says. *)
LEMMA Constants ==
  QueueLimit \in Nat \ {0} /\ MaxCommands \in Nat /\ MaxProgress \in Nat /\ IsFiniteSet(Sessions)
  BY DashboardAssumption

LEMMA InitEstablishes == Init => DashboardInv
  <1> SUFFICES ASSUME Init PROVE DashboardInv
    OBVIOUS
  <1>1. SnapshotsOK
    BY DEF Init, SnapshotsOK, Snapshot, Activity, Replay, State, Stage, IdleSnapshot
  <1>2. QueueInv
    BY Constants DEF Init, QueueInv, AtWork, begun, NoCommand, Command
  <1>3. ThreadInv /\ ShutdownInv
    BY DEF Init, ThreadInv, ShutdownInv
  <1>4. SessionInv
    BY DEF Init, SessionInv, Session, Closed
  <1>5. CountInv
    <2>1. counted = {}
      BY DEF Init, counted, Closed
    <2>. QED
      BY <2>1, FS_EmptySet DEF Init, CountInv
  <1>6. ActivityInv
    BY DEF Init, ActivityInv
  <1>. QED
    BY <1>1, <1>2, <1>3, <1>4, <1>5, <1>6 DEF DashboardInv

-----------------------------------------------------------------------------
(* Snapshots. *)

LEMMA WithActivity ==
  ASSUME NEW copy \in Snapshot, NEW state \in State, NEW id \in Nat
  PROVE  /\ with_activity(copy, state, id) \in Snapshot
         /\ with_activity(copy, state, id).activity = [state |-> state, id |-> id]
  BY DEF with_activity, Snapshot, Activity, Replay, State, Stage

LEMMA Observed ==
  ASSUME QueueInv, NEW stage \in Stage, NEW state \in State, worker_pc \in AtWork
  PROVE  /\ observed(stage, state) \in Snapshot
         /\ observed(stage, state).activity = [state |-> state, id |-> command.id]
  BY DEF observed, Snapshot, Activity, Replay, State, Stage, QueueInv, Command

LEMMA SnapshotsPreserved == DashboardInv /\ [Next]_vars => SnapshotsOK'
  <1> SUFFICES ASSUME DashboardInv, [Next]_vars PROVE SnapshotsOK'
    OBVIOUS
  <1> USE DEF DashboardInv, SnapshotsOK
  <1>1. CASE Submit
    <2>1. CASE SubmitRead
      BY <2>1 DEF SubmitRead, workerVars
    <2>2. CASE SubmitPublish
      <3>1. io_command.id \in Nat
        BY <2>2 DEF SubmitPublish, ThreadInv, QueueInv
      <3>. QED
        BY <2>2, <3>1, WithActivity DEF SubmitPublish, State, workerVars
    <2>3. CASE SubmitNotify
      BY <2>3 DEF SubmitNotify, IdleSnapshot, Snapshot, Activity, Replay, State, Stage
    <2>. QED
      BY <1>1, <2>1, <2>2, <2>3 DEF Submit
  <1>2. CASE Handler
    BY <1>2 DEF Handler, AcceptConnection, HttpRead, SubmitPush, HttpWritten, WsAccepted, WsReadFails,
                WsWritten, TimerExpires, SendLatest, otherwiseUnchanged, ioVars, workerVars
  <1>3. CASE Worker
    <2>1. CASE WorkerPublish
      <3>1. command.id \in Nat
        BY <2>1 DEF WorkerPublish, QueueInv, Command, NoCommand
      <3>2. PICK state \in State : store' = with_activity(worker_copy, state, command.id)
        BY <2>1 DEF WorkerPublish, State
      <3>3. store' \in Snapshot
        BY <3>1, <3>2, WithActivity
      <3>. QED
        BY <2>1, <3>3 DEF WorkerPublish, IdleSnapshot, Snapshot, Activity, Replay, State, Stage, ioVars
    <2>2. CASE StartReplay
      BY <2>2, Observed DEF StartReplay, State, Stage, workerStep, AtWork, ioVars
    <2>3. CASE JoinPublisher
      <3>1. worker_pc \in AtWork
        BY <2>3 DEF JoinPublisher, AtWork
      <3>2. store' \in Snapshot
        BY <2>3, <3>1, Observed DEF JoinPublisher, State, Stage
      <3>. QED
        BY <2>3, <3>2 DEF JoinPublisher, ioVars
    <2>4. CASE WorkerSleep \/ WorkerReturn \/ WorkerPop \/ WorkerRead \/ Generate \/ LoadFails \/ EndReplay
      BY <2>4 DEF WorkerSleep, WorkerReturn, WorkerPop, WorkerRead, Generate, LoadFails, EndReplay, ioVars
    <2>. QED
      BY <1>3, <2>1, <2>2, <2>3, <2>4 DEF Worker
  <1>4. CASE Publisher
    <2>1. CASE PublisherPublish
      <3>1. worker_pc \in AtWork
        BY <2>1 DEF PublisherPublish, ThreadInv, AtWork
      <3>. QED
        BY <2>1, <3>1, Observed DEF PublisherPublish, State, Stage, ioVars, workerVars
    <2>. QED
      BY <1>4, <2>1 DEF Publisher, PublisherCopy, PublisherExit, ioVars, workerVars
  <1>5. CASE SpuriousWake \/ Signal \/ Main \/ CloseAcceptor \/ Ended \/ UNCHANGED vars
    BY <1>5 DEF SpuriousWake, Signal, Main, CloseAcceptor, Ended, vars, PostClose, StopIoc, JoinIo,
                DestroyCommands, JoinWorker, ioVars, workerVars
  <1>. QED
    BY <1>1, <1>2, <1>3, <1>4, <1>5 DEF Next

-----------------------------------------------------------------------------
(* The queue and the threads. *)

LEMMA QueueFrame ==
  ASSUME QueueInv, UNCHANGED <<commands_, accepted, executed, command>>,
         worker_pc' \in AtWork \union {"wait", "blocked", "returned"},
         worker_pc' \in AtWork <=> worker_pc \in AtWork
  PROVE  QueueInv'
  BY DEF QueueInv, begun

LEMMA QueueSubmit == ASSUME DashboardInv, NEW s \in Sessions, SubmitPush(s) PROVE QueueInv'
  <1> USE DEF DashboardInv
  <1>1. CASE UNCHANGED <<commands_, accepted, io_pc, io_command>>
    BY <1>1, QueueFrame DEF SubmitPush, QueueInv, workerVars
  <1>2. CASE Len(commands_) < QueueLimit /\ accepted' = accepted + 1
    <2> DEFINE c == io_command'
    <2>1. c \in Command /\ c.id = accepted + 1 /\ commands_' = Append(commands_, c)
      <3>1. PICK action \in {"generate", "run"} :
              c = [id |-> accepted + 1, action |-> action] /\ commands_' = Append(commands_, c)
        BY <1>2 DEF SubmitPush, QueueInv
      <3>. QED
        BY <3>1 DEF QueueInv, Command
    <2> HIDE DEF c
    <2>2. UNCHANGED <<executed, command, worker_pc>>
      BY DEF SubmitPush, workerVars
    <2>3. commands_' \in Seq(Command) /\ Len(commands_') = Len(commands_) + 1
      BY <2>1 DEF QueueInv
    <2>4. ASSUME NEW i \in 1 .. Len(commands_') PROVE commands_'[i].id = executed + begun + i
      <3>1. CASE i \in 1 .. Len(commands_)
        BY <2>1, <3>1 DEF QueueInv
      <3>2. CASE i = Len(commands_) + 1
        BY <2>1, <3>2 DEF QueueInv, begun
      <3>. QED
        BY <2>3, <3>1, <3>2 DEF QueueInv
    <2>5. begun' = begun /\ begun \in Nat
      BY <2>2 DEF begun
    <2>6. Len(commands_') <= QueueLimit /\ Len(commands_') + begun' = accepted' - executed'
      <3> DEFINE n == Len(commands_)
      <3>1. /\ n \in Nat /\ accepted \in Nat /\ executed \in Nat
            /\ n + begun = accepted - executed
        BY DEF QueueInv
      <3>2. Len(commands_') = n + 1 /\ n < QueueLimit /\ accepted' = accepted + 1
        BY <1>2, <2>3
      <3>3. QueueLimit \in Nat
        BY Constants
      <3> HIDE DEF n
      <3>4. begun' = begun /\ begun \in Nat /\ executed' = executed
        BY <2>2, <2>5
      <3>. QED
        BY <3>1, <3>2, <3>3, <3>4
    <2>7. \A i \in 1 .. Len(commands_') : commands_'[i].id = executed' + begun' + i
      BY <2>2, <2>4, <2>5
    <2>8. accepted' \in Nat /\ executed' \in Nat
      BY <1>2, <2>2 DEF QueueInv
    <2>. QED
      BY <2>2, <2>3, <2>6, <2>7, <2>8 DEF QueueInv
  <1>. QED
    BY <1>1, <1>2 DEF SubmitPush

LEMMA QueuePop == ASSUME DashboardInv, WorkerPop PROVE QueueInv'
  <1> USE DEF DashboardInv
  <1>1. command = NoCommand /\ begun = 0
    BY DEF WorkerPop, workerStep, QueueInv, AtWork, begun
  <1>2. command' = Head(commands_) /\ commands_' = Tail(commands_) /\ worker_pc' = "read"
        /\ UNCHANGED <<accepted, executed>> /\ commands_ # <<>>
    BY DEF WorkerPop, workerStep, popped
  <1>3. Head(commands_) = commands_[1] /\ 1 \in 1 .. Len(commands_) /\ commands_[1] \in Command
    BY <1>2 DEF QueueInv
  <1>4. command' \in Command /\ command'.id = executed + 1 /\ command' # NoCommand
    BY <1>1, <1>2, <1>3 DEF QueueInv, Command, NoCommand
  <1>5. commands_' \in Seq(Command) /\ Len(commands_') = Len(commands_) - 1
    BY <1>2 DEF QueueInv
  <1>6. ASSUME NEW i \in 1 .. Len(commands_') PROVE commands_'[i].id = executed + 1 + i
    <2>1. commands_'[i] = commands_[i + 1] /\ i + 1 \in 1 .. Len(commands_)
      BY <1>2, <1>5, <1>3 DEF QueueInv
    <2>. QED
      BY <2>1, <1>1 DEF QueueInv
  <1>7. begun' = 1
    BY <1>4 DEF begun
  <1>8. Len(commands_') + begun' = accepted' - executed' /\ Len(commands_') <= QueueLimit
    BY <1>1, <1>2, <1>5, <1>7, Constants DEF QueueInv
  <1>9. \A i \in 1 .. Len(commands_') : commands_'[i].id = executed' + begun' + i
    BY <1>2, <1>6, <1>7
  <1>. QED
    BY <1>2, <1>4, <1>5, <1>8, <1>9 DEF QueueInv, AtWork

(* The end of a command: the worker is free, and one more has ended. *)
LEMMA QueueEnd ==
  ASSUME DashboardInv, worker_pc \in AtWork, worker_pc' = "wait", command' = NoCommand,
         executed' = command.id, UNCHANGED <<commands_, accepted>>
  PROVE  QueueInv'
  <1>1. executed' = executed + 1 /\ begun = 1 /\ begun' = 0
    BY DEF DashboardInv, QueueInv, begun
  <1>. QED
    BY <1>1 DEF DashboardInv, QueueInv, AtWork

LEMMA QueuePreserved == DashboardInv /\ [Next]_vars => QueueInv'
  <1> SUFFICES ASSUME DashboardInv, [Next]_vars PROVE QueueInv'
    OBVIOUS
  <1>1. QueueInv
    BY DEF DashboardInv
  <1>2. CASE Handler
    <2>1. PICK s \in Sessions : SubmitPush(s) \/ UNCHANGED <<commandVars, workerVars>>
      BY <1>2 DEF Handler, AcceptConnection, HttpRead, HttpWritten, WsAccepted, WsReadFails,
                  WsWritten, TimerExpires, SendLatest, otherwiseUnchanged
    <2>2. CASE UNCHANGED <<commandVars, workerVars>>
      BY <1>1, <2>2, QueueFrame DEF commandVars, workerVars, QueueInv
    <2>. QED
      BY <2>1, <2>2, QueueSubmit
  <1>3. CASE Worker
    <2>1. CASE WorkerPublish
      <3>1. CASE outcome = "begun"
        <4>1. worker_pc = "publish" /\ worker_pc' = "work" /\ UNCHANGED <<commands_, accepted, executed, command>>
          BY <2>1, <3>1 DEF WorkerPublish
        <4>. QED
          BY <4>1, <1>1, QueueFrame DEF AtWork
      <3>2. CASE outcome # "begun"
        <4>1. worker_pc = "publish" /\ worker_pc' = "wait" /\ command' = NoCommand
              /\ executed' = command.id /\ UNCHANGED <<commands_, accepted>>
          BY <2>1, <3>2 DEF WorkerPublish, ended
        <4>. QED
          BY <4>1, QueueEnd DEF AtWork
      <3>. QED
        BY <3>1, <3>2
    <2>2. CASE JoinPublisher
      <3>1. CASE outcome = "failed"
        <4>1. worker_pc = "join" /\ worker_pc' = "read" /\ UNCHANGED <<commands_, accepted, executed, command>>
          BY <2>2, <3>1 DEF JoinPublisher
        <4>. QED
          BY <4>1, <1>1, QueueFrame DEF AtWork
      <3>2. CASE outcome # "failed"
        <4>1. worker_pc = "join" /\ worker_pc' = "wait" /\ command' = NoCommand
              /\ executed' = command.id /\ UNCHANGED <<commands_, accepted>>
          BY <2>2, <3>2 DEF JoinPublisher, ended
        <4>. QED
          BY <4>1, QueueEnd DEF AtWork
      <3>. QED
        BY <3>1, <3>2
    <2>3. CASE WorkerPop
      BY <2>3, QueuePop
    <2>4. CASE WorkerSleep \/ WorkerReturn \/ WorkerRead \/ Generate \/ LoadFails \/ StartReplay \/ EndReplay
      <3>1. UNCHANGED <<commands_, accepted, executed, command>>
        BY <2>4 DEF WorkerSleep, WorkerReturn, WorkerRead, Generate, LoadFails, StartReplay, EndReplay, commandVars
      <3>2. \/ worker_pc = "wait" /\ worker_pc' \in {"blocked", "returned"}
            \/ worker_pc \in AtWork /\ worker_pc' \in AtWork
        BY <2>4 DEF WorkerSleep, WorkerReturn, WorkerRead, Generate, LoadFails, StartReplay, EndReplay,
                    workerStep, AtWork
      <3>. QED
        BY <1>1, <3>1, <3>2, QueueFrame DEF AtWork
    <2>. QED
      BY <1>3, <2>1, <2>2, <2>3, <2>4 DEF Worker
  <1>4. CASE Submit \/ SpuriousWake \/ Publisher \/ Signal \/ Main \/ CloseAcceptor \/ Ended \/ UNCHANGED vars
    <2>1. UNCHANGED <<commands_, accepted, executed, command>>
      BY <1>4 DEF Submit, SubmitRead, SubmitPublish, SubmitNotify, SpuriousWake, Publisher, PublisherCopy,
                  PublisherPublish, PublisherExit, Signal, Main, PostClose, StopIoc, JoinIo, DestroyCommands,
                  JoinWorker, CloseAcceptor, Ended, vars, commandVars, workerVars
    <2>2. worker_pc' = worker_pc \/ (worker_pc = "blocked" /\ worker_pc' = "wait")
      BY <1>4 DEF Submit, SubmitRead, SubmitPublish, SubmitNotify, SpuriousWake, Publisher, PublisherCopy,
                  PublisherPublish, PublisherExit, Signal, Main, PostClose, StopIoc, JoinIo, DestroyCommands,
                  JoinWorker, CloseAcceptor, Ended, vars, commandVars, workerVars, workerStep, woken
    <2>. QED
      BY <1>1, <2>1, <2>2, QueueFrame DEF AtWork, QueueInv
  <1>. QED
    BY <1>2, <1>3, <1>4 DEF Next

LEMMA ThreadsPreserved == DashboardInv /\ [Next]_vars => ThreadInv' /\ ShutdownInv'
  <1> SUFFICES ASSUME DashboardInv, [Next]_vars PROVE ThreadInv' /\ ShutdownInv'
    OBVIOUS
  <1> USE DEF DashboardInv, ThreadInv, ShutdownInv
  <1>1. CASE Submit
    BY <1>1 DEF Submit, SubmitRead, SubmitPublish, SubmitNotify, commandVars, workerVars, publisherVars,
                mainVars, woken
  <1>2. CASE Handler
    <2>1. PICK s \in Sessions : SubmitPush(s) \/ AcceptConnection(s) \/ otherwiseUnchanged
      BY <1>2 DEF Handler, HttpRead, HttpWritten, WsAccepted, WsReadFails, WsWritten, TimerExpires, SendLatest
    <2>2. CASE SubmitPush(s)
      BY <2>2 DEF SubmitPush, io_ready, workerVars, publisherVars, mainVars
    <2>3. CASE AcceptConnection(s)
      BY <2>3 DEF AcceptConnection, commandVars, ioVars, workerVars, publisherVars
    <2>4. CASE otherwiseUnchanged
      BY <2>4 DEF otherwiseUnchanged, commandVars, ioVars, workerVars, publisherVars, mainVars
    <2>. QED
      BY <2>1, <2>2, <2>3, <2>4
  <1>3. CASE Worker
    BY <1>3 DEF Worker, WorkerSleep, WorkerReturn, WorkerPop, WorkerRead, WorkerPublish, Generate, LoadFails,
                StartReplay, EndReplay, JoinPublisher, publisher_joined, workerStep, commandVars, ioVars,
                publisherVars, mainVars
  <1>4. CASE SpuriousWake \/ Publisher
    BY <1>4 DEF SpuriousWake, Publisher, PublisherCopy, PublisherPublish, PublisherExit, workerStep,
                commandVars, ioVars, workerVars, publisherVars, mainVars
  <1>5. CASE Signal \/ Main \/ CloseAcceptor \/ Ended \/ UNCHANGED vars
    BY <1>5 DEF Signal, Main, PostClose, StopIoc, JoinIo, io_thread_ended, DestroyCommands, JoinWorker,
                CloseAcceptor, Ended, vars, mainStep, woken, commandVars, ioVars, workerVars, publisherVars,
                mainVars
  <1>. QED
    BY <1>1, <1>2, <1>3, <1>4, <1>5 DEF Next

-----------------------------------------------------------------------------
(* The sessions.  A step replaces one of them, and clients_ follows it.     *)

(* The number of sessions counted after a change of one of them. *)
LEMMA CountAfter ==
  ASSUME SessionInv, CountInv, NEW s \in Sessions, NEW x \in Session,
         sessions' = [sessions EXCEPT ![s] = x],
         \/ sessions[s].counted /\ x.counted /\ clients_' = clients_
         \/ sessions[s].counted /\ ~x.counted /\ clients_' = clients_ - 1
         \/ ~sessions[s].counted /\ x.counted /\ clients_' = clients_ + 1
         \/ ~sessions[s].counted /\ ~x.counted /\ clients_' = clients_
  PROVE  CountInv'
  <1>1. IsFiniteSet(counted)
    BY Constants, FS_Subset DEF counted
  <1>2. counted' = IF x.counted THEN counted \union {s} ELSE counted \ {s}
    BY DEF SessionInv, counted
  <1>3. s \in counted <=> sessions[s].counted
    BY DEF counted
  <1>4. Cardinality(counted) \in Nat
    BY <1>1, FS_CardinalityType
  <1>5. CASE x.counted
    BY <1>1, <1>2, <1>3, <1>4, <1>5, FS_AddElement DEF CountInv
  <1>6. CASE ~x.counted
    BY <1>1, <1>2, <1>3, <1>4, <1>6, FS_RemoveElement DEF CountInv
  <1>. QED
    BY <1>5, <1>6

SessionOK(x) ==
  /\ x \in Session
  /\ x.reading \/ x.sending # "no" => x.kind = "ws"
  /\ x.counted => x.reading /\ x.sending # "no"

(* One session becomes x, and clients_ follows. *)
Becomes(s, x) ==
  /\ SessionOK(x)
  /\ sessions' = [sessions EXCEPT ![s] = x]
  /\ \/ sessions[s].counted /\ x.counted /\ clients_' = clients_
     \/ sessions[s].counted /\ ~x.counted /\ clients_' = clients_ - 1
     \/ ~sessions[s].counted /\ x.counted /\ clients_' = clients_ + 1
     \/ ~sessions[s].counted /\ ~x.counted /\ clients_' = clients_
  /\ io_pc' # "idle" => x.kind = "posting" \/ (io_pc # "idle" /\ sessions[s].kind # "posting")

LEMMA BecomesPreserves ==
  ASSUME SessionInv, CountInv, NEW s \in Sessions, NEW x, Becomes(s, x)
  PROVE  SessionInv' /\ CountInv'
  <1>1. SessionInv'
    BY DEF SessionInv, SessionOK, Becomes
  <1>2. CountInv'
    BY CountAfter DEF Becomes, SessionOK
  <1>. QED
    BY <1>1, <1>2

(* A session that is no WebSocket changes its kind. *)
LEMMA KindChange ==
  ASSUME SessionInv, NEW s \in Sessions, sessions[s].kind # "ws",
         NEW kind \in {"free", "http", "posting", "responding", "accepting"},
         sessions' = [sessions EXCEPT ![s].kind = kind], clients_' = clients_,
         io_pc' # "idle" => kind = "posting"
  PROVE  Becomes(s, [sessions[s] EXCEPT !.kind = kind])
  <1>1. sessions[s] \in Session /\ sessions[s].reading = FALSE /\ sessions[s].sending = "no"
        /\ sessions[s].counted = FALSE
    BY DEF SessionInv, Session
  <1>2. SessionOK([sessions[s] EXCEPT !.kind = kind]) /\ ~[sessions[s] EXCEPT !.kind = kind].counted
    BY <1>1 DEF SessionOK, Session
  <1>. QED
    BY <1>1, <1>2 DEF Becomes, Session

(* A WebSocket step; freed() may close the session. *)
LEMMA WsStep ==
  ASSUME SessionInv, NEW s \in Sessions, sessions[s].kind = "ws", NEW x \in Session, x.kind = "ws",
         x.counted => x.reading /\ x.sending # "no",
         sessionStep(s, x), UNCHANGED io_pc,
         \/ x.counted = sessions[s].counted /\ clients_' = clients_
         \/ x.counted = FALSE /\ clients_' = IF sessions[s].counted THEN clients_ - 1 ELSE clients_
  PROVE  Becomes(s, freed(x))
  <1>1. sessions[s] \in Session
    BY DEF SessionInv
  <1>2. SessionOK(freed(x)) /\ freed(x).counted = x.counted /\ freed(x).kind # "posting"
    BY DEF SessionOK, freed, Closed, Session
  <1>. QED
    BY <1>1, <1>2 DEF Becomes, sessionStep, Session

(* finish() leaves a session that does not count. *)
LEMMA Finished ==
  ASSUME NEW x \in Session
  PROVE  finished(x) \in Session /\ finished(x).kind = x.kind /\ finished(x).counted = FALSE
  BY DEF finished, Session

LEMMA HandlerStep ==
  ASSUME DashboardInv, NEW s \in Sessions,
         \/ AcceptConnection(s) \/ HttpRead(s) \/ SubmitPush(s) \/ HttpWritten(s) \/ WsAccepted(s)
         \/ WsReadFails(s) \/ WsWritten(s) \/ TimerExpires(s) \/ SendLatest(s)
  PROVE  \E x : Becomes(s, x)
  <1>0. SessionInv /\ sessions[s] \in Session
    BY DEF DashboardInv, SessionInv
  <1>1. CASE AcceptConnection(s)
    BY <1>0, <1>1, KindChange DEF AcceptConnection, io_ready, ioVars
  <1>2. CASE HttpRead(s)
    BY <1>0, <1>2, KindChange DEF HttpRead, io_ready, otherwiseUnchanged, ioVars
  <1>3. CASE SubmitPush(s)
    BY <1>0, <1>3, KindChange DEF SubmitPush, io_ready
  <1>4. CASE HttpWritten(s)
    <2>1. SessionOK(Closed) /\ ~Closed.counted
      BY DEF SessionOK, Closed, Session
    <2>2. ~sessions[s].counted /\ io_pc' = "idle"
      BY <1>0, <1>4 DEF HttpWritten, SessionInv, io_ready, otherwiseUnchanged, ioVars
    <2>. QED
      BY <1>4, <2>1, <2>2 DEF HttpWritten, Becomes
  <1>5. CASE WsAccepted(s)
    <2> DEFINE x == [kind |-> "ws", reading |-> TRUE, sending |-> "write", counted |-> TRUE]
    <2>1. SessionOK(Closed) /\ ~Closed.counted /\ freed(Closed) = Closed
      BY DEF SessionOK, Closed, Session, freed
    <2>2. SessionOK(x) /\ x.counted /\ freed(x) = x
      BY DEF SessionOK, Session, freed
    <2>3. ~sessions[s].counted /\ io_pc' = "idle"
      BY <1>0, <1>5 DEF WsAccepted, SessionInv, io_ready, otherwiseUnchanged, ioVars
    <2>. HIDE DEF x
    <2>. QED
      BY <1>5, <2>1, <2>2, <2>3 DEF WsAccepted, Becomes, sessionStep, x
  <1>6. CASE WsReadFails(s)
    <2> DEFINE x == [sessions[s] EXCEPT !.reading = FALSE]
    <2>1. x \in Session /\ x.kind = "ws" /\ x.counted = sessions[s].counted /\ sessions[s].kind = "ws"
      BY <1>0, <1>6 DEF WsReadFails, SessionInv, Session
    <2>2. sessionStep(s, finished(x)) /\ clients_' = (IF x.counted THEN clients_ - 1 ELSE clients_)
          /\ UNCHANGED io_pc
      BY <1>6 DEF WsReadFails, finish, otherwiseUnchanged, ioVars
    <2>. QED
      BY <1>0, <2>1, <2>2, Finished, WsStep
  <1>7. CASE WsWritten(s)
    <2>0. sessions[s].kind = "ws" /\ UNCHANGED io_pc
      BY <1>0, <1>7 DEF WsWritten, SessionInv, otherwiseUnchanged, ioVars
    <2>1. CASE sessionStep(s, [sessions[s] EXCEPT !.sending = "timer"]) /\ UNCHANGED clients_
      <3> DEFINE x == [sessions[s] EXCEPT !.sending = "timer"]
      <3>1. x \in Session /\ x.kind = "ws" /\ x.counted = sessions[s].counted
            /\ (x.counted => x.reading /\ x.sending # "no")
        BY <1>0, <2>0 DEF SessionInv, Session
      <3>. HIDE DEF x
      <3>. QED
        BY <1>0, <2>0, <2>1, <3>1, WsStep DEF x
    <2>2. CASE finish(s, [sessions[s] EXCEPT !.sending = "no"])
      <3> DEFINE x == [sessions[s] EXCEPT !.sending = "no"]
      <3>1. x \in Session /\ x.kind = "ws" /\ x.counted = sessions[s].counted
        BY <1>0, <2>0 DEF SessionInv, Session
      <3>2. sessionStep(s, finished(x)) /\ clients_' = (IF x.counted THEN clients_ - 1 ELSE clients_)
        BY <2>2 DEF finish
      <3>. HIDE DEF x
      <3>. QED
        BY <1>0, <2>0, <3>1, <3>2, Finished, WsStep
    <2>. QED
      BY <1>7, <2>1, <2>2 DEF WsWritten
  <1>8. CASE TimerExpires(s) \/ SendLatest(s)
    <2>1. PICK sending \in {"expired", "write"} :
            sessionStep(s, [sessions[s] EXCEPT !.sending = sending])
      BY <1>8 DEF TimerExpires, SendLatest
    <2>2. sessions[s].kind = "ws" /\ UNCHANGED <<io_pc, clients_>>
      BY <1>0, <1>8 DEF TimerExpires, SendLatest, SessionInv, otherwiseUnchanged, ioVars
    <2> DEFINE x == [sessions[s] EXCEPT !.sending = sending]
    <2>3. x \in Session /\ x.kind = "ws" /\ x.counted = sessions[s].counted
          /\ (x.counted => x.reading /\ x.sending # "no")
      BY <1>0, <2>2 DEF SessionInv, Session
    <2>. HIDE DEF x
    <2>. QED
      BY <1>0, <2>1, <2>2, <2>3, WsStep DEF x
  <1>. QED
    BY <1>1, <1>2, <1>3, <1>4, <1>5, <1>6, <1>7, <1>8

(* SubmitNotify answers the request of the session it serves. *)
LEMMA NotifyStep == ASSUME DashboardInv, SubmitNotify PROVE \E x : Becomes(io_session, x)
  <1>1. io_session \in Sessions /\ sessions[io_session].kind = "posting"
    BY DEF DashboardInv, SessionInv, SubmitNotify, io_session
  <1>. QED
    BY <1>1, KindChange DEF DashboardInv, SubmitNotify

LEMMA SessionsPreserved == DashboardInv /\ [Next]_vars => SessionInv' /\ CountInv'
  <1> SUFFICES ASSUME DashboardInv, [Next]_vars PROVE SessionInv' /\ CountInv'
    OBVIOUS
  <1>1. SessionInv /\ CountInv
    BY DEF DashboardInv
  <1>2. CASE UNCHANGED <<sessions, clients_>> /\ (io_pc' # "idle" => io_pc # "idle")
    BY <1>1, <1>2 DEF SessionInv, CountInv, counted
  <1>3. CASE Handler
    BY <1>1, <1>3, HandlerStep, BecomesPreserves DEF Handler
  <1>4. CASE SubmitNotify
    <2>1. io_session \in Sessions
      BY <1>4 DEF DashboardInv, SessionInv, SubmitNotify, io_session
    <2>. QED
      BY <1>1, <1>4, <2>1, NotifyStep, BecomesPreserves
  <1>5. CASE SubmitRead \/ SubmitPublish
    BY <1>2, <1>5 DEF SubmitRead, SubmitPublish
  <1>6. CASE Worker \/ SpuriousWake \/ Publisher
    BY <1>2, <1>6 DEF Worker, WorkerSleep, WorkerReturn, WorkerPop, WorkerRead, WorkerPublish, Generate,
                LoadFails, StartReplay, EndReplay, JoinPublisher, SpuriousWake, Publisher, PublisherCopy,
                PublisherPublish, PublisherExit, ioVars
  <1>7. CASE Signal \/ Main \/ CloseAcceptor \/ Ended \/ UNCHANGED vars
    BY <1>2, <1>7 DEF Signal, Main, PostClose, StopIoc, JoinIo, DestroyCommands, JoinWorker,
                CloseAcceptor, Ended, vars, ioVars
  <1>. QED
    BY <1>3, <1>4, <1>5, <1>6, <1>7 DEF Next, Submit

-----------------------------------------------------------------------------
(* The activity shown when the worker has nothing to do. *)

LEMMA ActivityPreserved == DashboardInv /\ [Next]_vars => ActivityInv'
  <1> SUFFICES ASSUME DashboardInv, [Next]_vars PROVE ActivityInv'
    OBVIOUS
  <1> USE DEF DashboardInv
  <1>1. CASE /\ UNCHANGED <<store, commands_, ended_as, accepted>>
             /\ worker_pc' \in {"wait", "blocked"} => worker_pc \in {"wait", "blocked"}
    BY <1>1 DEF ActivityInv
  <1>2. CASE worker_pc' \notin {"wait", "blocked"}
    BY <1>2 DEF ActivityInv
  <1>3. CASE Submit
    <2>1. CASE SubmitPublish
      <3>1. io_command.id = accepted /\ accepted \in Nat
        BY <2>1 DEF SubmitPublish, ThreadInv, QueueInv
      <3>2. store'.activity = [state |-> "queued", id |-> accepted']
        BY <2>1, <3>1, WithActivity DEF SubmitPublish, SnapshotsOK, State, commandVars
      <3>. QED
        BY <3>2 DEF ActivityInv
    <2>. QED
      BY <1>1, <1>3, <2>1 DEF Submit, SubmitRead, SubmitNotify, commandVars, workerVars, woken
  <1>4. CASE Handler
    <2>1. PICK s \in Sessions : SubmitPush(s) \/ UNCHANGED <<store, commandVars, workerVars>>
      BY <1>4 DEF Handler, AcceptConnection, HttpRead, HttpWritten, WsAccepted, WsReadFails,
                  WsWritten, TimerExpires, SendLatest, otherwiseUnchanged
    <2>2. CASE UNCHANGED <<store, commandVars, workerVars>>
      BY <1>1, <2>2 DEF commandVars, workerVars
    <2>3. CASE SubmitPush(s) /\ UNCHANGED <<commands_, accepted>>
      BY <1>1, <2>3 DEF SubmitPush, workerVars
    <2>4. CASE SubmitPush(s) /\ commands_' = Append(commands_, io_command')
      <3>1. Append(commands_, io_command') # <<>>
        <4>1. Len(Append(commands_, io_command')) = Len(commands_) + 1 /\ Len(commands_) \in Nat
          BY DEF QueueInv
        <4>. QED
          BY <4>1
      <3>. QED
        BY <2>4, <3>1 DEF ActivityInv
    <2>. QED
      BY <2>1, <2>2, <2>3, <2>4 DEF SubmitPush
  <1>5. CASE Worker
    <2>1. CASE WorkerPublish /\ outcome # "begun"
      <3>1. command.id \in Nat /\ outcome \in State
        BY <2>1 DEF WorkerPublish, QueueInv, Command, NoCommand, State
      <3>2. store'.activity = ended_as'
        BY <2>1, <3>1, WithActivity DEF WorkerPublish, SnapshotsOK, ended
      <3>. QED
        BY <3>2 DEF ActivityInv
    <2>2. CASE JoinPublisher /\ outcome # "failed"
      BY <2>2 DEF ActivityInv, JoinPublisher, ended, observed
    <2>3. CASE WorkerSleep
      BY <1>1, <2>3 DEF WorkerSleep, workerStep, commandVars
    <2>4. CASE \/ WorkerPublish /\ outcome = "begun"
               \/ JoinPublisher /\ outcome = "failed"
               \/ WorkerReturn \/ WorkerPop \/ WorkerRead \/ Generate \/ LoadFails \/ StartReplay \/ EndReplay
      BY <1>2, <2>4 DEF WorkerPublish, JoinPublisher, WorkerReturn, WorkerPop, WorkerRead, Generate, LoadFails,
                        StartReplay, EndReplay, workerStep
    <2>. QED
      BY <1>5, <2>1, <2>2, <2>3, <2>4 DEF Worker
  <1>6. CASE Publisher
    <2>1. CASE PublisherPublish
      BY <1>2, <2>1 DEF PublisherPublish, ThreadInv, workerVars
    <2>. QED
      BY <1>1, <1>6, <2>1 DEF Publisher, PublisherCopy, PublisherExit, commandVars, workerVars
  <1>7. CASE SpuriousWake \/ Signal \/ Main \/ CloseAcceptor \/ Ended \/ UNCHANGED vars
    BY <1>1, <1>7 DEF SpuriousWake, Signal, Main, PostClose, StopIoc, JoinIo, DestroyCommands, JoinWorker,
                CloseAcceptor, Ended, vars, workerStep, woken, commandVars, workerVars
  <1>. QED
    BY <1>3, <1>4, <1>5, <1>6, <1>7 DEF Next

-----------------------------------------------------------------------------
(* The theorems. *)

LEMMA InvInductive == Spec => []DashboardInv
  <1>1. DashboardInv /\ [Next]_vars => DashboardInv'
    BY SnapshotsPreserved, QueuePreserved, ThreadsPreserved, SessionsPreserved, ActivityPreserved
    DEF DashboardInv
  <1>. QED
    BY InitEstablishes, <1>1, PTL DEF Spec

(* What QueueInv says of the sequence of unfinished commands. *)
LEMMA QueueIsSerial == QueueInv => RunSerially
  <1> SUFFICES ASSUME QueueInv PROVE RunSerially
    OBVIOUS
  <1>1. CASE command = NoCommand
    <2>1. <<>> \o commands_ = commands_ /\ begun = 0
      BY <1>1 DEF QueueInv, begun
    <2>. QED
      <3>1. DOMAIN commands_ = 1 .. Len(commands_)
        BY DEF QueueInv
      <3>2. Len(commands_) = accepted - executed /\ Len(commands_) <= QueueLimit
        BY <2>1 DEF QueueInv
      <3>3. \A i \in DOMAIN commands_ : commands_[i].id = executed + i
        BY <2>1, <3>1 DEF QueueInv
      <3>. QED
        BY <1>1, <2>1, <3>2, <3>3 DEF RunSerially
  <1>2. CASE command # NoCommand
    <2> DEFINE u == <<command>> \o commands_
    <2>1. command \in Command /\ begun = 1
      BY <1>2 DEF QueueInv, begun
    <2>2. u \in Seq(Command) /\ Len(u) = Len(commands_) + 1 /\ u[1] = command
      BY <2>1 DEF QueueInv
    <2>3. ASSUME NEW i \in 2 .. Len(u) PROVE u[i] = commands_[i - 1]
      BY <2>1, <2>2 DEF QueueInv
    <2>4. ASSUME NEW i \in DOMAIN u PROVE u[i].id = executed + i
      <3>1. i \in 1 .. Len(commands_) + 1 /\ Len(commands_) \in Nat
        BY <2>2 DEF QueueInv
      <3>2. CASE i = 1
        BY <1>2, <2>2, <3>2 DEF QueueInv
      <3>3. CASE i # 1
        <4>1. i \in 2 .. Len(u) /\ i - 1 \in 1 .. Len(commands_)
          BY <2>2, <3>1, <3>3
        <4>2. commands_[i - 1].id = executed + 1 + (i - 1)
          BY <4>1, <2>1 DEF QueueInv
        <4>. QED
          BY <2>3, <4>1, <4>2 DEF QueueInv
      <3>. QED
        BY <3>2, <3>3
    <2>5. Len(u) = accepted - executed /\ Len(commands_) <= QueueLimit
      BY <2>1, <2>2 DEF QueueInv
    <2> HIDE DEF u
    <2>. QED
      BY <1>2, <2>4, <2>5 DEF RunSerially, u
  <1>. QED
    BY <1>1, <1>2

(* DashboardCommands runs what submit() accepted one at a time and in       *)
(* order, and never holds more than its limit, however the io thread, the   *)
(* worker, a replay's publisher and the shutdown interleave.                *)
THEOREM CommandsRunSerially == Spec => []RunSerially
  BY InvInductive, QueueIsSerial, PTL DEF DashboardInv

(* DashboardServer::stop() returns only when no handler runs or can run, so *)
(* that no control request reaches the DashboardCommands being destroyed.   *)
THEOREM NoLateSubmit == Spec => []NoSubmitAfterDestruction
  <1>1. DashboardInv => NoSubmitAfterDestruction
    BY DEF DashboardInv, ShutdownInv, NoSubmitAfterDestruction
  <1>. QED
    BY InvInductive, <1>1, PTL

(* clients_ is the number of WebSockets being served, whichever of a        *)
(* session's read, write and timer ends it first: finish() takes a session  *)
(* away exactly once.                                                       *)
THEOREM ClientsCounted == Spec => []ClientCountExact
  <1>1. DashboardInv => ClientCountExact
    BY DEF DashboardInv, CountInv, counted, SessionInv, ClientCountExact
  <1>. QED
    BY InvInductive, <1>1, PTL

(* When the worker is idle the store shows how the last command ended, or   *)
(* that it is queued; never a state of an earlier command, and never        *)
(* something a replay's publisher left behind.                              *)
THEOREM ActivitySettles == Spec => []SettledActivity
  <1>1. DashboardInv => SettledActivity
    BY DEF DashboardInv, ActivityInv, settled, SettledActivity
  <1>. QED
    BY InvInductive, <1>1, PTL
=============================================================================
