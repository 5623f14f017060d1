---------------------------- MODULE MCPrimitives ----------------------------
(***************************************************************************)
(* The run queue, the first frame of a stack and the three examples about  *)
(* which theorems are proved, in one specification: a behaviour is one of  *)
(* RunQueue, FirstFrame, Barrier, Semaphore or TimerWheel, and the         *)
(* variables of the others stay at an initial state of theirs.             *)
(***************************************************************************)
EXTENDS RunQueue, FirstFrame, Barrier, Semaphore, TimerWheel

VARIABLE model  \* the one that is executed

vars == <<model, lib, barrier, semaphore, wheel_vars, frame_vars, queue_vars>>

BarrierIdle ==
    /\ cob_init(1)
    /\ my_phase = [w \in Workers |-> NotWaiting]
    /\ rounds = 1
    /\ pauses = 0
    /\ entered = [w \in Workers |-> 0]
    /\ passed = [w \in Workers |-> 0]

SemaphoreIdle ==
    /\ demo = "log"
    /\ mutex_init
    /\ pc = [c \in Coroutines |-> "start"]
    /\ before = [c \in Coroutines |-> 0]
    /\ g_shared_counter = 0
    /\ g_log = << >>

FrameIdle == FrameInit /\ stack = 16 /\ stack_size = 16

Init ==
    \/ /\ model = "barrier" /\ BarrierInit
       /\ SemaphoreIdle /\ WheelInit /\ FrameIdle /\ QueueInit
    \/ /\ model = "semaphore" /\ SemaphoreInit
       /\ BarrierIdle /\ WheelInit /\ FrameIdle /\ QueueInit
    \/ /\ model = "timer_wheel" /\ WheelInit /\ Started(<< >>)
       /\ BarrierIdle /\ SemaphoreIdle /\ FrameIdle /\ QueueInit
    \/ /\ model = "first_frame" /\ FrameInit /\ Started(<< >>)
       /\ BarrierIdle /\ SemaphoreIdle /\ WheelInit /\ QueueInit
    \/ /\ model = "run_queue" /\ QueueInit /\ Started(<< >>)
       /\ BarrierIdle /\ SemaphoreIdle /\ WheelInit /\ FrameIdle

Next ==
    /\ UNCHANGED model
    /\ \/ /\ model = "barrier" /\ BarrierNext
          /\ UNCHANGED <<semaphore, wheel_vars, frame_vars, queue_vars>>
       \/ /\ model = "semaphore" /\ SemaphoreNext
          /\ UNCHANGED <<barrier, wheel_vars, frame_vars, queue_vars>>
       \/ /\ model = "timer_wheel" /\ WheelNext
          /\ UNCHANGED <<lib, barrier, semaphore, frame_vars, queue_vars>>
       \/ /\ model = "first_frame" /\ FrameNext
          /\ UNCHANGED <<lib, barrier, semaphore, wheel_vars, queue_vars>>
       \/ /\ model = "run_queue" /\ QueueNext
          /\ UNCHANGED <<lib, barrier, semaphore, wheel_vars, frame_vars>>

(* Fairness as in BarrierSpec and SemaphoreSpec; the others have none. *)
Spec ==
    /\ Init /\ [][Next]_vars
    /\ WF_vars(model \in {"barrier", "semaphore"} /\ Next)
=============================================================================
