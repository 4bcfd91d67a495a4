----------------------------- MODULE StickyEnv -----------------------------
(***************************************************************************)
(* What the exception-flag environment of soft-fp promises, with no word   *)
(* about how: every thread and every caller-supplied sf64_fe_state_t has a *)
(* sticky bag of flags; an operation raises flags while it runs and, when  *)
(* it returns, all of them are in the one bag it was called with, nothing  *)
(* else having touched that bag meanwhile.  An operation may deliver what  *)
(* it raised at once, at the end, or in parts.  The bag called t, for a    *)
(* thread t, is its thread-local one.                                      *)
(***************************************************************************)
CONSTANTS Threads,  \* threads of the application
          States,   \* caller-owned sf64_fe_state_t objects
          Flags,    \* the five SF64_FE_* flags, or some of them
          Nowhere   \* the destination of an operation whose flags are dropped

VARIABLES bag,  \* bag[b]: the flags sticking in bag b
          op    \* op[t]: the operation thread t runs

envVars == <<bag, op>>

Bags == Threads \cup States

(* Not running; the values of a running operation have a destination.      *)
Idle == [dest |-> Nowhere, raised |-> {}, status |-> "idle"]

Operation == [dest : Bags \cup {Nowhere}, raised : SUBSET Flags, status : {"running"}]

EnvTypeOK == /\ bag \in [Bags -> SUBSET Flags]
             /\ op \in [Threads -> Operation \cup {Idle}]

EnvInit == /\ bag = [b \in Bags |-> {}]
           /\ op = [t \in Threads |-> Idle]

(* A caller-owned bag serves one operation at a time.                      *)
Unused(b) == \A t \in Threads : op[t].dest # b

Begin(t, d) == /\ op[t] = Idle
               /\ d \in {t, Nowhere} \cup States
               /\ d # Nowhere => Unused(d)
               /\ op' = [op EXCEPT ![t] = [dest |-> d, raised |-> {}, status |-> "running"]]
               /\ UNCHANGED bag

RaiseFlags(t, F) == /\ op[t].status = "running"
                    /\ op' = [op EXCEPT ![t].raised = @ \cup F]
                    /\ UNCHANGED bag

Deliver(t, D) == /\ op[t].status = "running" /\ op[t].dest # Nowhere
                 /\ D \subseteq op[t].raised
                 /\ bag' = [bag EXCEPT ![op[t].dest] = @ \cup D]
                 /\ UNCHANGED op

(* Returning: whatever was raised is in the destination.                   *)
Finish(t) == /\ op[t].status = "running"
             /\ IF op[t].dest = Nowhere
                THEN UNCHANGED bag
                ELSE bag' = [bag EXCEPT ![op[t].dest] = @ \cup op[t].raised]
             /\ op' = [op EXCEPT ![t] = Idle]

(* The application itself sets a bag of its own between two operations.    *)
Assign(t, b, F) == /\ op[t] = Idle
                   /\ b \in {t} \cup States
                   /\ Unused(b)
                   /\ bag' = [bag EXCEPT ![b] = F]
                   /\ UNCHANGED op

EnvNext == \E t \in Threads :
             \/ \E d \in Bags \cup {Nowhere} : Begin(t, d)
             \/ \E F \in SUBSET Flags : RaiseFlags(t, F) \/ Deliver(t, F)
             \/ Finish(t)
             \/ \E b \in Bags, F \in SUBSET Flags : Assign(t, b, F)

EnvSpec == EnvInit /\ [][EnvNext]_envVars
=============================================================================
