------------------------------ MODULE Scheduler ------------------------------
(***************************************************************************)
(* What the scheduler of tasks.c promises the tasks: the one that is       *)
(* chosen to run is ready and none of the ready tasks outranks it; a delay *)
(* ends when the ticks it began with have passed, neither earlier nor      *)
(* later; and no task leaves a wait that nothing has ended.  There are no  *)
(* lists here, no bitmap, no tick count that wraps, no ticks or tasks held *)
(* back, and no steps inside of a call.                                    *)
(***************************************************************************)
EXTENDS Naturals

CONSTANTS AllTasks, Idle, NoTask, Priorities, MaxDelay

VARIABLES
  started,
  state,      \* "none" before creation, "ready", "delayed" or "blocked"
  left,       \* the ticks until a delayed task's wait times out, or 0
  waiting,    \* the tasks that an event or a notification may make ready
  priority,
  running     \* the task that has the processor, or NoTask

vars == <<started, state, left, waiting, priority, running>>

Init ==
  /\ started = FALSE
  /\ state = [t \in AllTasks |-> "none"] /\ left = [t \in AllTasks |-> 0]
  /\ waiting = {}
  /\ priority \in [AllTasks -> Priorities]
  /\ running = NoTask

\* t comes into state s, with n ticks to go.
Enter(t, s, n) ==
  /\ state' = [state EXCEPT ![t] = s]
  /\ left' = [left EXCEPT ![t] = n]

Ready(t) == state[t] = "ready"
Highest(t) == Ready(t) /\ \A u \in AllTasks : Ready(u) => priority[u] <= priority[t]

\* A task created before the start may become the first to run.
Create(t) ==
  /\ state[t] = "none"
  /\ Enter(t, "ready", 0)
  /\ UNCHANGED <<waiting, priority>>
  /\ running' \in {running, t}
  /\ IF started THEN UNCHANGED running ELSE running' # NoTask /\ Highest(running)'

\* The start of the scheduler creates the idle task.
Start == ~started /\ Create(Idle) /\ started' = TRUE

Choose ==
  /\ \E t \in AllTasks : running' = t /\ Highest(t)
  /\ UNCHANGED <<started, state, left, waiting, priority>>

\* n ticks pass, but none after the end of a delay.
Pass(n) ==
  /\ \A t \in AllTasks : state[t] = "delayed" => n <= left[t]
  /\ left' = [t \in AllTasks |-> IF state[t] = "delayed" THEN left[t] - n ELSE left[t]]
  /\ UNCHANGED <<started, state, waiting, priority, running>>

TimeOut(t) ==
  /\ state[t] = "delayed" /\ left[t] = 0
  /\ waiting' = waiting \ {t}
  /\ Enter(t, "ready", 0)
  /\ UNCHANGED <<started, priority, running>>

\* What t was waiting for has happened.
Wake(t) ==
  /\ t \in waiting /\ waiting' = waiting \ {t}
  /\ Enter(t, "ready", 0)
  /\ UNCHANGED <<started, priority, running>>

\* The running task blocks for n ticks, or until something happens if that is earlier.
Delay(n) ==
  /\ Ready(running)
  /\ waiting' \in {waiting, waiting \cup {running}}
  /\ Enter(running, "delayed", n)
  /\ UNCHANGED <<started, priority, running>>

\* It blocks until something happens.
Wait ==
  /\ Ready(running)
  /\ waiting' = waiting \cup {running}
  /\ Enter(running, "blocked", 0)
  /\ UNCHANGED <<started, priority, running>>

\* Any task can be suspended.  One that waited for a notification, or just
\* stopped to, may still be made ready by one.
Suspend(t) ==
  /\ state[t] # "none"
  /\ waiting' \in {waiting \ {t}, waiting \cup {t}}
  /\ Enter(t, "blocked", 0)
  /\ UNCHANGED <<started, priority, running>>

\* A suspended task is resumed, at once or as soon as the scheduler is.
Resume(t) ==
  /\ state[t] = "blocked"
  /\ \/ waiting' = waiting \ {t} /\ Enter(t, "ready", 0)
     \/ waiting' = waiting \cup {t} /\ UNCHANGED <<state, left>>
  /\ UNCHANGED <<started, priority, running>>

SetPriority(t, p) ==
  /\ priority' = [priority EXCEPT ![t] = p]
  /\ UNCHANGED <<started, state, left, waiting, running>>

Next ==
  \/ Start
  \/ \E t \in AllTasks \ {Idle} : Create(t) /\ UNCHANGED started
  \/ /\ started
     /\ \/ \E t \in AllTasks, p \in Priorities : SetPriority(t, p)
        \/ Choose \/ Wait
        \/ \E n \in 1 .. MaxDelay : Pass(n) \/ Delay(n)
        \/ \E t \in AllTasks : TimeOut(t) \/ Wake(t) \/ Suspend(t) \/ Resume(t)

Spec == Init /\ [][Next]_vars
=============================================================================
