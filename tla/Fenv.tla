------------------------------- MODULE Fenv -------------------------------
(***************************************************************************)
(* The IEEE-754 exception-flag plumbing of soft-fp (src/src/fenv.cpp,      *)
(* src/src/internal_fenv.h) and the ways the three arithmetic families     *)
(* raise into it:                                                          *)
(*   acc     binary64 operations that thread an sf64_internal_fe_acc and   *)
(*           flush it when they return;                                    *)
(*   direct  binary64 cold paths that use SF64_FE_RAISE;                   *)
(*   f256    binary256 operations: raise_flags stores at every raise site; *)
(*   f128    binary128 operations: a BackendContext around Berkeley        *)
(*           SoftFloat's own thread-local rounding mode and flags.         *)
(* Every  x |= bits  is a load followed by a store, so that the steps of   *)
(* the threads interleave between the two.                                 *)
(***************************************************************************)
EXTENDS Naturals

CONSTANTS Threads, States, Flags, Nowhere,
          Modes,       \* rounding modes an operation can be called with
          NearEven,    \* softfloat_round_near_even: the backend's initial mode
          FenvMode     \* SOFT_FP64_FENV_MODE: 0 disabled, 1 tls, 2 explicit

ASSUME FenvAssumption == /\ Threads \cap States = {}
                         /\ Nowhere \notin Threads \cup States
                         /\ NearEven \in Modes
                         /\ FenvMode \in {0, 1, 2}

VARIABLES
  flags,    \* flags[t]: thread t's sf64_internal_fe_flags; flags[s]: s->flags
  call,     \* call[t]: the arguments of the operation thread t is in
  acc,      \* acc[t]: bits_ of its accumulator (its stack)
  rmw,      \* rmw[t]: the |= it is in the middle of
  round,    \* round[t]: softfloat_roundingMode of thread t
  eflags,   \* eflags[t]: softfloat_exceptionFlags of thread t
  saved,    \* saved[t]: old_round_ and old_flags_ of its BackendContext
  raised    \* raised[t]: history: all the operation has raised so far

vars == <<flags, call, acc, rmw, round, eflags, saved, raised>>

Bags == Threads \cup States
Null == Nowhere                      \* a null sf64_fe_state_t*

NoCall == [kind |-> "none", explicit |-> FALSE, state |-> Null, mode |-> NearEven]

Calls == [kind : {"acc", "direct", "f256", "f128"}, explicit : BOOLEAN,
          state : States \cup {Null}, mode : Modes]

NoRmw == [active |-> FALSE, target |-> Null, add |-> {}, loaded |-> {}, last |-> FALSE]

Rmws == [active : {TRUE}, target : Bags, add : SUBSET Flags, loaded : SUBSET Flags,
         last : BOOLEAN]

Init ==
  /\ flags = [b \in Bags |-> {}]
  /\ call = [t \in Threads |-> NoCall]
  /\ acc = [t \in Threads |-> {}]
  /\ rmw = [t \in Threads |-> NoRmw]
  /\ round = [t \in Threads |-> NearEven]
  /\ eflags = [t \in Threads |-> {}]
  /\ saved = [t \in Threads |-> [round |-> NearEven, flags |-> {}]]
  /\ raised = [t \in Threads |-> {}]

---------------------------------------------------------------------------
(* Calls.  A caller-owned state is used by one call at a time: sharing one *)
(* between threads would be a data race of the application.                *)

Available(s) == \A t \in Threads : call[t].state # s

Running(t, kind) == call[t].kind = kind /\ ~rmw[t].active

Enter(t, kind, explicit, s, mode) ==
  /\ call[t] = NoCall
  /\ ~explicit => s = Null
  /\ s \in States => Available(s)
  /\ call' = [call EXCEPT ![t] = [kind |-> kind, explicit |-> explicit,
                                  state |-> s, mode |-> mode]]
  /\ acc' = [acc EXCEPT ![t] = {}]
  /\ raised' = [raised EXCEPT ![t] = {}]
  /\ UNCHANGED <<flags, rmw>>

ReturnKeepsState(t) == call' = [call EXCEPT ![t].kind = "none"]    \* MUTANT
Return(t) == call' = [call EXCEPT ![t] = NoCall]

(* The first half of  target |= add : the load.                            *)
Load(t, target, add, last) ==
  rmw' = [rmw EXCEPT ![t] = [active |-> TRUE, target |-> target, add |-> add,
                             loaded |-> flags[target], last |-> last]]

UpdatedByAssignment(r) == r.add                                    \* MUTANT
Updated(r) == r.loaded \cup r.add

(* The second half; a last store ends the call.                            *)
Store(t) ==
  /\ rmw[t].active
  /\ flags' = [flags EXCEPT ![rmw[t].target] = Updated(rmw[t])]
  /\ rmw' = [rmw EXCEPT ![t] = NoRmw]
  /\ IF rmw[t].last THEN Return(t) ELSE UNCHANGED call
  /\ UNCHANGED <<acc, round, eflags, saved, raised>>

KernelRaises(t, F) == raised' = [raised EXCEPT ![t] = @ \cup F]

---------------------------------------------------------------------------
(* binary64: sf64_internal_fe_acc.                                         *)

EnterAcc(t, explicit, s, mode) ==
  /\ Enter(t, "acc", explicit, s, mode)
  /\ UNCHANGED <<round, eflags, saved>>

(* raise(): explicit builds keep nothing for a null pointer, disabled      *)
(* builds keep nothing at all.                                             *)
AccRaise(t, F) ==
  /\ Running(t, "acc")
  /\ acc' = IF FenvMode = 1 \/ (FenvMode = 2 /\ call[t].state # Null)
            THEN [acc EXCEPT ![t] = @ \cup F] ELSE acc
  /\ KernelRaises(t, F)
  /\ UNCHANGED <<flags, call, rmw, round, eflags, saved>>

(* MUTANT of FlushTarget: the flags without thread_local.                  *)
FlushTargetShared(t) ==
  IF call[t].explicit THEN call[t].state ELSE CHOOSE u \in Threads : TRUE

FlushTarget(t) ==
  CASE FenvMode = 1 -> IF call[t].explicit THEN call[t].state ELSE t
    [] FenvMode = 2 -> call[t].state
    [] OTHER        -> Null

(* flush() at the end of a public entry.  One action stands for the return *)
(* paths of all entries that flush, so that an entry which forgets to on   *)
(* one of its paths would not show here.                                   *)
AccFlush(t) ==
  /\ Running(t, "acc")
  /\ IF acc[t] = {} \/ FlushTarget(t) = Null
     THEN Return(t) /\ UNCHANGED rmw
     ELSE Load(t, FlushTarget(t), acc[t], TRUE) /\ UNCHANGED call
  /\ UNCHANGED <<flags, acc, round, eflags, saved, raised>>

(* SF64_FE_RAISE in a cold path: a store to the thread-local bag, compiled *)
(* out in the other builds.                                                *)
EnterDirect(t) ==
  /\ Enter(t, "direct", FALSE, Null, NearEven)
  /\ UNCHANGED <<round, eflags, saved>>

DirectRaise(t, F) ==
  /\ Running(t, "direct")
  /\ F # {}
  /\ KernelRaises(t, F)
  /\ IF FenvMode = 1 THEN Load(t, t, F, FALSE) ELSE UNCHANGED rmw
  /\ UNCHANGED <<flags, call, acc, round, eflags, saved>>

DirectReturn(t) ==
  /\ Running(t, "direct")
  /\ Return(t)
  /\ UNCHANGED <<flags, acc, rmw, round, eflags, saved, raised>>

---------------------------------------------------------------------------
(* binary256: raise_flags() of soft_f256.cpp, at every raise site.         *)

EnterF256(t, explicit, s, mode) ==
  /\ Enter(t, "f256", explicit, s, mode)
  /\ UNCHANGED <<round, eflags, saved>>

F256Raise(t, F) ==
  /\ Running(t, "f256")
  /\ F # {}
  /\ KernelRaises(t, F)
  /\ CASE call[t].explicit /\ call[t].state # Null ->
            Load(t, call[t].state, F, FALSE)
       [] ~call[t].explicit /\ FenvMode = 1 ->      \* sf64_fe_raise(flags)
            Load(t, t, F, FALSE)
       [] OTHER -> UNCHANGED rmw
  /\ UNCHANGED <<flags, call, acc, round, eflags, saved>>

F256Return(t) ==
  /\ Running(t, "f256")
  /\ Return(t)
  /\ UNCHANGED <<flags, acc, rmw, round, eflags, saved, raised>>

---------------------------------------------------------------------------
(* binary128: BackendContext of soft_f128.cpp.                             *)

(* The constructor: save the backend's environment, install the call's     *)
(* rounding mode and no flags.                                             *)
EnterF128(t, explicit, s, mode) ==
  /\ Enter(t, "f128", explicit, s, mode)
  /\ saved' = [saved EXCEPT ![t] = [round |-> round[t], flags |-> eflags[t]]]
  /\ round' = [round EXCEPT ![t] = mode]
  /\ eflags' = [eflags EXCEPT ![t] = {}]

(* Berkeley SoftFloat raises flags of its own while it computes.           *)
F128Raise(t, F) ==
  /\ Running(t, "f128")
  /\ eflags' = [eflags EXCEPT ![t] = @ \cup F]
  /\ KernelRaises(t, F)
  /\ UNCHANGED <<flags, call, acc, rmw, round, saved>>

(* MUTANT of RestoreBackend: the caller's rounding mode is not restored.   *)
RestoreFlagsOnly(t) ==
  /\ eflags' = [eflags EXCEPT ![t] = saved[t].flags]
  /\ UNCHANGED round

RestoreBackend(t) ==
  /\ round' = [round EXCEPT ![t] = saved[t].round]
  /\ eflags' = [eflags EXCEPT ![t] = saved[t].flags]

(* The destructor.                                                         *)
F128Exit(t) ==
  /\ Running(t, "f128")
  /\ RestoreBackend(t)
  /\ CASE call[t].explicit /\ call[t].state # Null ->
            Load(t, call[t].state, eflags[t], TRUE) /\ UNCHANGED call
       [] ~call[t].explicit /\ eflags[t] # {} /\ FenvMode = 1 ->
            Load(t, t, eflags[t], TRUE) /\ UNCHANGED call
       [] OTHER -> Return(t) /\ UNCHANGED rmw
  /\ UNCHANGED <<flags, acc, saved, raised>>

---------------------------------------------------------------------------
(* The public accessors, called by a thread that is in no operation, on    *)
(* its own thread-local bag or on a state no call is using.                *)

Idle(t) == call[t] = NoCall

Set(b, F) == /\ flags' = [flags EXCEPT ![b] = F]
             /\ UNCHANGED <<call, acc, rmw, round, eflags, saved, raised>>

FeRaiseInAnyBuild(t, mask) == Idle(t) /\ Set(t, flags[t] \cup mask)   \* MUTANT
FeRaise(t, mask) == Idle(t) /\ FenvMode = 1 /\ Set(t, flags[t] \cup mask)

FeClear(t, mask) == Idle(t) /\ FenvMode = 1 /\ Set(t, flags[t] \ mask)

FeSave(t, out) == /\ Idle(t) /\ Available(out)
                  /\ Set(out, IF FenvMode = 1 THEN flags[t] ELSE {})

FeRestore(t, in) == Idle(t) /\ Available(in) /\ FenvMode = 1 /\ Set(t, flags[in])

FeRaiseEx(t, s, mask) == Idle(t) /\ Available(s) /\ Set(s, flags[s] \cup mask)

FeClearEx(t, s, mask) == Idle(t) /\ Available(s) /\ Set(s, flags[s] \ mask)

(* sf64_fe_save_ex; the source may be null.                                *)
FeSaveEx(t, s, out) ==
  /\ Idle(t) /\ Available(out) /\ (s # Null => Available(s))
  /\ Set(out, IF s = Null THEN {} ELSE flags[s])

FeRestoreEx(t, s, in) ==
  /\ Idle(t) /\ Available(s) /\ Available(in)
  /\ Set(s, flags[in])

---------------------------------------------------------------------------
Operate(t) ==
  \/ \E s \in States \cup {Null}, e \in BOOLEAN, m \in Modes :
        EnterAcc(t, e, s, m) \/ EnterF256(t, e, s, m) \/ EnterF128(t, e, s, m)
  \/ EnterDirect(t)
  \/ \E F \in SUBSET Flags :
        AccRaise(t, F) \/ DirectRaise(t, F) \/ F256Raise(t, F) \/ F128Raise(t, F)
  \/ AccFlush(t) \/ DirectReturn(t) \/ F256Return(t) \/ F128Exit(t)
  \/ Store(t)

Access(t) ==
  \/ \E mask \in SUBSET Flags :
        \/ FeRaise(t, mask) \/ FeClear(t, mask)
        \/ \E s \in States : FeRaiseEx(t, s, mask) \/ FeClearEx(t, s, mask)
  \/ \E s \in States : FeSave(t, s) \/ FeRestore(t, s)
  \/ \E s \in States \cup {Null}, out \in States : FeSaveEx(t, s, out)
  \/ \E s, in \in States : FeRestoreEx(t, s, in)

Next == \E t \in Threads : Operate(t) \/ Access(t)

Spec == Init /\ [][Next]_vars

---------------------------------------------------------------------------
TypeOK ==
  /\ flags \in [Bags -> SUBSET Flags]
  /\ call \in [Threads -> Calls \cup {NoCall}]
  /\ acc \in [Threads -> SUBSET Flags]
  /\ rmw \in [Threads -> Rmws \cup {NoRmw}]
  /\ round \in [Threads -> Modes]
  /\ eflags \in [Threads -> SUBSET Flags]
  /\ saved \in [Threads -> [round : Modes, flags : SUBSET Flags]]
  /\ raised \in [Threads -> SUBSET Flags]

(* A value loaded for a |= is still the value in memory when it is stored: *)
(* no other thread and no accessor comes between the two halves of a flush *)
(* (internal_fenv.h), of raise_flags (soft_f256.cpp) or of the context     *)
(* destructor (soft_f128.cpp), so no flag is overwritten.                  *)
LoadedIsFresh ==
  \A t \in Threads : rmw[t].active => rmw[t].loaded = flags[rmw[t].target]

(* Berkeley SoftFloat computes with the rounding mode of the call that is  *)
(* running, whatever calls came before on that thread, and it is back in   *)
(* its initial environment whenever no binary128 call is computing.        *)
BackendEnvironment ==
  \A t \in Threads :
    IF Running(t, "f128")
    THEN round[t] = call[t].mode /\ eflags[t] = raised[t]
    ELSE round[t] = NearEven /\ eflags[t] = {}

(* Without the tls build there is no thread-local bag: it reads 0.         *)
NoThreadLocalFlags == FenvMode # 1 => \A t \in Threads : flags[t] = {}

(* Where the flags of a call belong: the documented contract of the three  *)
(* builds, binary128 and binary256 keeping an explicit state in each.      *)
Destination(t) ==
  LET c == call[t] IN
  CASE c.explicit -> IF c.kind = "acc" /\ FenvMode = 0 THEN Nowhere ELSE c.state
    [] ~c.explicit -> IF FenvMode = 1 /\ c.kind # "none" THEN t ELSE Nowhere

Op == [t \in Threads |-> [dest |-> Destination(t),
                          raised |-> IF call[t] = NoCall THEN {} ELSE raised[t],
                          status |-> IF call[t] = NoCall THEN "idle" ELSE "running"]]

Env == INSTANCE StickyEnv WITH bag <- flags, op <- Op

(* The plumbing implements the sticky environment: every flag an operation *)
(* raised is in its destination when it returns, no other bag changes, and *)
(* nothing that was not raised appears.                                    *)
Sticky == Env!EnvSpec
=============================================================================
