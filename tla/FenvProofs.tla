---------------------------- MODULE FenvProofs ----------------------------
(***************************************************************************)
(* Proofs about Fenv, for any threads, caller states, flags, modes and     *)
(* build: its type invariant, the safety invariants of MCFenv's runs, and  *)
(* that it implements StickyEnv.                                           *)
(***************************************************************************)
EXTENDS Fenv, TLAPS

(* A state serves one call, and only an explicit call has one.             *)
OneUser ==
  /\ \A t, u \in Threads :
       t # u /\ call[t].state \in States => call[u].state # call[t].state
  /\ \A t \in Threads : ~call[t].explicit => call[t].state = Null
  /\ \A t \in Threads : call[t].kind = "direct" => ~call[t].explicit

(* A pending |= belongs to a call and goes to the destination of the call; *)
(* it ends the call in the two families that store once.                   *)
RmwOfCall(t) ==
  rmw[t].active => /\ call[t] # NoCall
                   /\ rmw[t].target = Destination(t)
                   /\ rmw[t].last <=> call[t].kind \in {"acc", "f128"}

Fresh(t) == rmw[t].active => rmw[t].loaded = flags[rmw[t].target]

(* Whatever a call raised is on its way: in the accumulator, in the pair   *)
(* of the pending |= and the destination, or in the destination.           *)
OnTheWay(t) ==
  call[t] # NoCall /\ Destination(t) # Nowhere =>
     /\ call[t].kind = "acc" => acc[t] = raised[t]
     /\ rmw[t].active => rmw[t].add \subseteq raised[t]
     /\ rmw[t].active /\ rmw[t].last => rmw[t].add = raised[t]
     /\ call[t].kind \in {"f256", "direct"} /\ ~rmw[t].active =>
          raised[t] \subseteq flags[Destination(t)]
     /\ call[t].kind \in {"f256", "direct"} /\ rmw[t].active =>
          raised[t] \subseteq flags[Destination(t)] \cup rmw[t].add

Backend(t) ==
  /\ Running(t, "f128") => /\ saved[t] = [round |-> NearEven, flags |-> {}]
                           /\ round[t] = call[t].mode
                           /\ eflags[t] = raised[t]
  /\ ~Running(t, "f128") => round[t] = NearEven /\ eflags[t] = {}

ThreadInv(t) == RmwOfCall(t) /\ Fresh(t) /\ OnTheWay(t) /\ Backend(t)

IInv == TypeOK /\ OneUser /\ \A t \in Threads : ThreadInv(t)

(* What belongs to thread t.                                               *)
Own(t) == <<call[t], acc[t], rmw[t], round[t], eflags[t], saved[t], raised[t]>>

---------------------------------------------------------------------------
LEMMA InitInv == Init => IInv
  BY FenvAssumption
  DEF Init, IInv, TypeOK, OneUser, ThreadInv, RmwOfCall, Fresh, OnTheWay, Backend,
      Running, NoCall, NoRmw, Bags, Null, FenvAssumption

(* Destinations of threads in a call are bags of their own.                *)
LEMMA DestinationType ==
  ASSUME IInv, NEW t \in Threads
  PROVE  /\ Destination(t) \in {t, Nowhere} \cup States
         /\ Destination(t) \in States => Destination(t) = call[t].state
         /\ call[t] = NoCall => Destination(t) = Nowhere
<1>1. call[t] \in Calls \cup {NoCall}
  BY DEF IInv, TypeOK
<1>2. CASE call[t] = NoCall
  BY <1>2, FenvAssumption DEF NoCall, Destination, FenvAssumption
<1>3. CASE call[t] \in Calls
  BY <1>3, FenvAssumption DEF Calls, NoCall, Destination, FenvAssumption, Null
<1> QED BY <1>1, <1>2, <1>3

LEMMA DestinationsDiffer ==
  ASSUME IInv, NEW t \in Threads, NEW u \in Threads, t # u, Destination(t) # Nowhere
  PROVE  Destination(u) # Destination(t)
  BY DestinationType, FenvAssumption DEF IInv, OneUser, FenvAssumption

LEMMA RmwType ==
  ASSUME TypeOK, NEW t \in Threads, rmw[t].active
  PROVE  /\ rmw[t].target \in Bags /\ rmw[t].add \in SUBSET Flags
         /\ rmw[t].loaded \in SUBSET Flags /\ rmw[t].last \in BOOLEAN
<1>1. rmw[t] \in Rmws \cup {NoRmw}
  BY DEF TypeOK
<1>2. rmw[t] # NoRmw
  BY DEF NoRmw
<1> QED BY <1>1, <1>2 DEF Rmws

(* The invariant of a thread depends on its own variables and on the bag   *)
(* its call is for.                                                        *)
LEMMA Frame ==
  ASSUME IInv, NEW u \in Threads, UNCHANGED Own(u),
         Destination(u) # Nowhere => flags'[Destination(u)] = flags[Destination(u)]
  PROVE  ThreadInv(u)'
<1>1. ThreadInv(u)
  BY DEF IInv
<1>2. /\ call'[u] = call[u] /\ acc'[u] = acc[u] /\ rmw'[u] = rmw[u] /\ round'[u] = round[u]
      /\ eflags'[u] = eflags[u] /\ saved'[u] = saved[u] /\ raised'[u] = raised[u]
  BY DEF Own
<1>3. Destination(u)' = Destination(u)
  BY <1>2 DEF Destination
<1>4. RmwOfCall(u)'
  BY <1>1, <1>2, <1>3 DEF ThreadInv, RmwOfCall
<1>5. Fresh(u)'
  <2>1. rmw[u].active => rmw[u].target = Destination(u)
    BY <1>1 DEF ThreadInv, RmwOfCall
  <2>3. rmw[u].active => rmw[u].target \in Bags
    BY RmwType DEF IInv
  <2>2. Nowhere \notin Bags
    BY FenvAssumption DEF FenvAssumption, Bags
  <2> QED BY <1>1, <1>2, <2>1, <2>2, <2>3 DEF ThreadInv, Fresh
<1>6. OnTheWay(u)'
  BY <1>1, <1>2, <1>3 DEF ThreadInv, OnTheWay
<1>7. Backend(u)'
  BY <1>1, <1>2 DEF ThreadInv, Backend, Running
<1> QED BY <1>4, <1>5, <1>6, <1>7 DEF ThreadInv

---------------------------------------------------------------------------
(* The start of an operation of each family.                               *)
LEMMA EnterInv ==
  ASSUME IInv, NEW t \in Threads, NEW kind \in {"acc", "direct", "f256", "f128"},
         NEW e \in BOOLEAN, NEW s \in States \cup {Null}, NEW m \in Modes,
         Enter(t, kind, e, s, m),
         kind = "direct" => ~e,
         IF kind = "f128"
         THEN /\ saved' = [saved EXCEPT ![t] = [round |-> round[t], flags |-> eflags[t]]]
              /\ round' = [round EXCEPT ![t] = m]
              /\ eflags' = [eflags EXCEPT ![t] = {}]
         ELSE UNCHANGED <<round, eflags, saved>>
  PROVE  IInv'
<1> DEFINE c == [kind |-> kind, explicit |-> e, state |-> s, mode |-> m]
<1>0. /\ call[t] = NoCall /\ call' = [call EXCEPT ![t] = c] /\ c \in Calls
      /\ acc' = [acc EXCEPT ![t] = {}] /\ raised' = [raised EXCEPT ![t] = {}]
      /\ flags' = flags /\ rmw' = rmw
  BY DEF Enter, Calls
<1>1. TypeOK'
  <2>1. /\ flags' \in [Bags -> SUBSET Flags] /\ rmw' \in [Threads -> Rmws \cup {NoRmw}]
        /\ call' \in [Threads -> Calls \cup {NoCall}]
        /\ acc' \in [Threads -> SUBSET Flags] /\ raised' \in [Threads -> SUBSET Flags]
    BY <1>0 DEF IInv, TypeOK
  <2>2. /\ saved' \in [Threads -> [round : Modes, flags : SUBSET Flags]]
        /\ round' \in [Threads -> Modes] /\ eflags' \in [Threads -> SUBSET Flags]
    <3>1. [round |-> round[t], flags |-> eflags[t]] \in [round : Modes, flags : SUBSET Flags]
      BY DEF IInv, TypeOK
    <3> QED BY <3>1 DEF IInv, TypeOK
  <2> QED BY <2>1, <2>2 DEF TypeOK
<1>2. call'[t] = c /\ c # NoCall /\ call[t].kind = "none" /\ call[t].state = Null
  BY <1>0 DEF IInv, TypeOK, NoCall
<1>3. \A u \in Threads \ {t} : UNCHANGED Own(u)
  BY <1>0 DEF IInv, TypeOK, Own
<1>4. OneUser'
  <2>1. s \in States => \A u \in Threads : call[u].state # s
    BY DEF Enter, Available
  <2>2. ~e => s = Null
    BY DEF Enter
  <2>3. \A u \in Threads \ {t} : call'[u] = call[u]
    BY <1>3 DEF Own
  <2>4. Null \notin States
    BY FenvAssumption DEF FenvAssumption, Null
  <2>5. c.kind = kind /\ c.explicit = e /\ c.state = s
    OBVIOUS
  <2> QED BY <1>2, <2>1, <2>2, <2>3, <2>4, <2>5 DEF OneUser, IInv
<1>5. ASSUME NEW u \in Threads PROVE ThreadInv(u)'
  <2>1. CASE u # t
    BY <1>0, <1>3, <2>1, Frame
  <2>2. CASE u = t
    <3>1. ~rmw[t].active /\ rmw' = rmw
      BY <1>0 DEF IInv, ThreadInv, RmwOfCall
    <3>2. acc'[t] = {} /\ raised'[t] = {}
      BY <1>0 DEF IInv, TypeOK
    <3>3. round[t] = NearEven /\ eflags[t] = {}
      BY <1>2 DEF IInv, ThreadInv, Backend, Running
    <3>4. Backend(t)'
      <4>1. Running(t, "f128")' <=> kind = "f128"
        BY <1>2, <3>1 DEF Running
      <4>2. CASE kind = "f128"
        <5>1. /\ saved'[t] = [round |-> NearEven, flags |-> {}]
              /\ round'[t] = m /\ eflags'[t] = {}
          BY <3>3, <4>2 DEF IInv, TypeOK
        <5> QED BY <1>2, <3>2, <4>1, <4>2, <5>1 DEF Backend
      <4>3. CASE kind # "f128"
        BY <3>3, <4>1, <4>3 DEF Backend
      <4> QED BY <4>2, <4>3
    <3> QED BY <2>2, <3>1, <3>2, <3>4 DEF ThreadInv, RmwOfCall, Fresh, OnTheWay
  <2> QED BY <2>1, <2>2
<1> QED BY <1>1, <1>4, <1>5 DEF IInv

(* The store of a |=: the rest of what an operation raised in one go.      *)
LEMMA StoreInv ==
  ASSUME IInv, NEW t \in Threads, Store(t)
  PROVE  IInv' /\ flags'[Destination(t)] = flags[Destination(t)] \cup rmw[t].add
               /\ \A b \in Bags \ {Destination(t)} : flags'[b] = flags[b]
               /\ Destination(t) \in Bags
<1> DEFINE d == Destination(t)
<1>1. /\ rmw[t].active /\ rmw[t].target = d /\ rmw[t].loaded = flags[d]
      /\ d \in Bags /\ rmw[t].add \in SUBSET Flags /\ call[t] # NoCall
      /\ rmw[t].last <=> call[t].kind \in {"acc", "f128"}
  BY RmwType DEF Store, Updated, IInv, ThreadInv, RmwOfCall, Fresh
<1>2. /\ flags' = [flags EXCEPT ![d] = flags[d] \cup rmw[t].add]
      /\ rmw' = [rmw EXCEPT ![t] = NoRmw]
      /\ IF rmw[t].last THEN call' = [call EXCEPT ![t] = NoCall] ELSE call' = call
      /\ UNCHANGED <<acc, round, eflags, saved, raised>>
  BY <1>1 DEF Store, Updated, Return
<1>3. TypeOK'
  BY <1>1, <1>2 DEF IInv, TypeOK
<1>4. /\ flags'[d] = flags[d] \cup rmw[t].add
      /\ \A b \in Bags \ {d} : flags'[b] = flags[b]
      /\ rmw'[t] = NoRmw
  BY <1>1, <1>2 DEF IInv, TypeOK
<1>5. \A u \in Threads \ {t} : UNCHANGED Own(u)
  BY <1>2 DEF IInv, TypeOK, Own
<1>6. OneUser'
  <2>1. \A u \in Threads : call'[u] = call[u] \/ call'[u] = NoCall
    BY <1>2 DEF IInv, TypeOK
  <2>2. Null \notin States
    BY FenvAssumption DEF FenvAssumption, Null
  <2> QED BY <2>1, <2>2 DEF OneUser, IInv, NoCall
<1>7. ASSUME NEW u \in Threads PROVE ThreadInv(u)'
  <2>1. CASE u # t
    <3>1. d # Nowhere
      BY <1>1, FenvAssumption DEF FenvAssumption, Bags
    <3>2. Destination(u) # d
      BY <2>1, <3>1, DestinationsDiffer
    <3>3. Destination(u) # Nowhere => Destination(u) \in Bags
      BY DestinationType DEF Bags
    <3> QED BY <1>4, <1>5, <2>1, <3>2, <3>3, Frame
  <2>2. CASE u = t /\ rmw[t].last
    <3>1. call'[t] = NoCall /\ call[t].kind \in {"acc", "f128"}
      BY <1>1, <1>2, <2>2 DEF IInv, TypeOK
    <3>2. ~rmw'[t].active
      BY <1>4 DEF NoRmw
    <3>3. ~Running(t, "f128") /\ ~Running(t, "f128")'
      BY <1>1, <3>1 DEF Running, NoCall
    <3>4. Backend(t)'
      BY <1>2, <3>3 DEF IInv, ThreadInv, Backend
    <3> QED BY <2>2, <3>1, <3>2, <3>4 DEF ThreadInv, RmwOfCall, Fresh, OnTheWay
  <2>3. CASE u = t /\ ~rmw[t].last
    <3>1. call' = call /\ call[t].kind \notin {"acc", "f128"}
      BY <1>1, <1>2, <2>3
    <3>2. ~rmw'[t].active
      BY <1>4 DEF NoRmw
    <3>3. Destination(t)' = d
      BY <3>1 DEF Destination
    <3>4. Backend(t)'
      BY <1>1, <1>2, <3>1 DEF IInv, ThreadInv, Backend, Running
    <3>5. OnTheWay(t)'
      BY <1>1, <1>2, <1>4, <3>1, <3>2, <3>3 DEF IInv, ThreadInv, OnTheWay
    <3> QED BY <2>3, <3>2, <3>4, <3>5 DEF ThreadInv, RmwOfCall, Fresh
  <2> QED BY <2>1, <2>2, <2>3
<1> QED BY <1>1, <1>3, <1>4, <1>6, <1>7 DEF IInv

---------------------------------------------------------------------------
(* A step inside a call, or its return: no bag changes, no other thread.   *)
LEMMA LocalStep ==
  ASSUME IInv, NEW t \in Threads, TypeOK', flags' = flags,
         call' = call \/ call' = [call EXCEPT ![t] = NoCall],
         \A u \in Threads \ {t} : UNCHANGED Own(u),
         ThreadInv(t)'
  PROVE  IInv'
<1>1. OneUser'
  <2>1. \A u \in Threads : call'[u] = call[u] \/ call'[u] = NoCall
    BY DEF IInv, TypeOK
  <2>2. Null \notin States
    BY FenvAssumption DEF FenvAssumption, Null
  <2> QED BY <2>1, <2>2 DEF OneUser, IInv, NoCall
<1>2. ASSUME NEW u \in Threads, u # t PROVE ThreadInv(u)'
  BY <1>2, Frame
<1> QED BY <1>1, <1>2 DEF IInv

(* Returning with no |= pending.                                           *)
LEMMA ReturnInv ==
  ASSUME IInv, NEW t \in Threads, Return(t), ~rmw[t].active,
         round'[t] = NearEven, eflags'[t] = {},
         UNCHANGED <<flags, rmw>>, TypeOK',
         \A u \in Threads \ {t} : UNCHANGED Own(u)
  PROVE  IInv'
<1>1. call'[t] = NoCall /\ ~Running(t, "f128")'
  BY DEF Return, IInv, TypeOK, NoCall, Running
<1>2. ThreadInv(t)'
  BY <1>1 DEF ThreadInv, RmwOfCall, Fresh, OnTheWay, Backend
<1> QED BY <1>2, LocalStep DEF Return

(* The load of a |= on the destination of the call.                        *)
LEMMA LoadInv ==
  ASSUME IInv, NEW t \in Threads, NEW F \in SUBSET Flags, NEW last \in BOOLEAN,
         call[t] # NoCall, ~rmw[t].active, Destination(t) # Nowhere,
         Load(t, Destination(t), F, last), UNCHANGED <<flags, call>>,
         last <=> call[t].kind \in {"acc", "f128"},
         F \subseteq raised'[t], last => F = raised'[t],
         call[t].kind = "acc" => acc'[t] = raised'[t],
         ~last => raised'[t] = raised[t] \cup F,
         round'[t] = NearEven, eflags'[t] = {},
         acc' \in [Threads -> SUBSET Flags], raised' \in [Threads -> SUBSET Flags],
         round' \in [Threads -> Modes], eflags' \in [Threads -> SUBSET Flags],
         saved' \in [Threads -> [round : Modes, flags : SUBSET Flags]],
         \A u \in Threads \ {t} : UNCHANGED <<acc[u], round[u], eflags[u], saved[u], raised[u]>>
  PROVE  IInv'
<1> DEFINE d == Destination(t)
           r == [active |-> TRUE, target |-> d, add |-> F, loaded |-> flags[d], last |-> last]
<1>1. d \in Bags
  BY DestinationType DEF Bags
<1>2. r \in Rmws /\ rmw' = [rmw EXCEPT ![t] = r]
  BY <1>1 DEF Load, Rmws, IInv, TypeOK
<1>3. TypeOK'
  BY <1>2 DEF IInv, TypeOK
<1>4. rmw'[t] = r /\ Destination(t)' = d /\ flags' = flags /\ call' = call
  BY <1>2 DEF IInv, TypeOK, Destination
<1>5. \A u \in Threads \ {t} : UNCHANGED Own(u)
  BY <1>2 DEF IInv, TypeOK, Own
<1>6. ThreadInv(t)'
  <2>1. RmwOfCall(t)' /\ Fresh(t)'
    BY <1>4 DEF RmwOfCall, Fresh
  <2>2. Backend(t)'
    BY <1>4 DEF Backend, Running
  <2>3. OnTheWay(t)'
    <3>1. ~last => raised[t] \subseteq flags[d]
      BY DEF IInv, ThreadInv, OnTheWay, TypeOK, Calls, NoCall
    <3> QED BY <1>4, <3>1 DEF OnTheWay
  <2> QED BY <2>1, <2>2, <2>3 DEF ThreadInv
<1> QED BY <1>3, <1>4, <1>5, <1>6, LocalStep

---------------------------------------------------------------------------
LEMMA AccRaiseInv ==
  ASSUME IInv, NEW t \in Threads, NEW F \in SUBSET Flags, AccRaise(t, F)
  PROVE  IInv'
<1>1. /\ call[t].kind = "acc" /\ ~rmw[t].active /\ UNCHANGED <<flags, call, rmw, round, eflags, saved>>
      /\ raised' = [raised EXCEPT ![t] = raised[t] \cup F]
      /\ acc' = [acc EXCEPT ![t] = acc[t] \cup F] \/ acc' = acc
  BY DEF AccRaise, Running, KernelRaises
<1>2. TypeOK'
  BY <1>1 DEF IInv, TypeOK
<1>3. \A u \in Threads \ {t} : UNCHANGED Own(u)
  BY <1>1 DEF IInv, TypeOK, Own
<1>4. Backend(t)' /\ RmwOfCall(t)' /\ Fresh(t)'
  BY <1>1 DEF IInv, ThreadInv, Backend, Running, RmwOfCall, Fresh
<1>5. ASSUME Destination(t) # Nowhere PROVE acc'[t] = raised'[t]
  <2>1. FenvMode = 1 \/ (FenvMode = 2 /\ call[t].state # Null)
    BY <1>1, <1>5, FenvAssumption DEF Destination, FenvAssumption, Null, IInv, TypeOK, Calls, NoCall
  <2>2. acc[t] = raised[t]
    BY <1>1, <1>5 DEF IInv, ThreadInv, OnTheWay, NoCall
  <2> QED BY <1>1, <2>1, <2>2 DEF AccRaise, IInv, TypeOK
<1>6. OnTheWay(t)'
  BY <1>1, <1>5 DEF OnTheWay, Destination
<1> QED BY <1>1, <1>2, <1>3, <1>4, <1>6, LocalStep DEF ThreadInv

(* The target of a flush is the destination of the call, if it has one.    *)
LEMMA FlushTargetIsDestination ==
  ASSUME IInv, NEW t \in Threads, call[t].kind = "acc"
  PROVE  FlushTarget(t) = Destination(t)
<1>1. call[t].explicit \in BOOLEAN /\ (~call[t].explicit => call[t].state = Nowhere)
  BY DEF IInv, TypeOK, OneUser, Calls, NoCall, Null
<1> QED BY <1>1, FenvAssumption DEF FlushTarget, Destination, FenvAssumption, Null

LEMMA AccFlushInv ==
  ASSUME IInv, NEW t \in Threads, AccFlush(t)
  PROVE  IInv'
<1>1. /\ call[t].kind = "acc" /\ ~rmw[t].active /\ UNCHANGED <<flags, acc, round, eflags, saved, raised>>
      /\ call[t] # NoCall /\ round[t] = NearEven /\ eflags[t] = {}
      /\ FlushTarget(t) = Destination(t)
  <2>1. /\ call[t].kind = "acc" /\ ~rmw[t].active
        /\ UNCHANGED <<flags, acc, round, eflags, saved, raised>>
    BY DEF AccFlush, Running
  <2>2. call[t] # NoCall /\ round[t] = NearEven /\ eflags[t] = {}
    BY <2>1 DEF NoCall, IInv, ThreadInv, Backend, Running
  <2> QED BY <2>1, <2>2, FlushTargetIsDestination
<1>2. CASE acc[t] = {} \/ FlushTarget(t) = Null
  <2>1. Return(t) /\ UNCHANGED rmw
    BY <1>2 DEF AccFlush
  <2> QED BY <1>1, <2>1, ReturnInv DEF IInv, TypeOK, Own, Return
<1>3. CASE ~(acc[t] = {} \/ FlushTarget(t) = Null)
  <2>1. Load(t, Destination(t), acc[t], TRUE) /\ call' = call
    BY <1>1, <1>3 DEF AccFlush
  <2>2. acc[t] \in SUBSET Flags /\ acc[t] = raised[t] /\ Destination(t) # Nowhere
    BY <1>1, <1>3 DEF IInv, TypeOK, ThreadInv, OnTheWay, Null
  <2> QED BY <1>1, <2>1, <2>2, LoadInv DEF IInv, TypeOK
<1> QED BY <1>2, <1>3

(* A raise site that stores at once, or drops.                             *)
LEMMA RaiseStoreInv ==
  ASSUME IInv, NEW t \in Threads, NEW F \in SUBSET Flags, DirectRaise(t, F) \/ F256Raise(t, F)
  PROVE  IInv'
<1>1. /\ call[t].kind \in {"direct", "f256"} /\ ~rmw[t].active
      /\ raised' = [raised EXCEPT ![t] = raised[t] \cup F]
      /\ UNCHANGED <<flags, call, acc, round, eflags, saved>>
  BY DEF DirectRaise, F256Raise, Running, KernelRaises
<1>2. call[t] # NoCall /\ round[t] = NearEven /\ eflags[t] = {}
  BY <1>1 DEF NoCall, IInv, ThreadInv, Backend, Running
<1>3. /\ call[t].explicit \in BOOLEAN
      /\ ~call[t].explicit => call[t].state = Null
      /\ call[t].kind = "direct" => ~call[t].explicit
  BY <1>1, <1>2 DEF IInv, TypeOK, Calls, OneUser
<1>4. IF Destination(t) # Nowhere THEN Load(t, Destination(t), F, FALSE) ELSE UNCHANGED rmw
  <2>1. Nowhere # t
    BY FenvAssumption DEF FenvAssumption
  <2>2. CASE DirectRaise(t, F)
    BY <1>1, <1>2, <1>3, <2>1, <2>2 DEF DirectRaise, Destination, Running
  <2>3. CASE F256Raise(t, F)
    BY <1>1, <1>2, <1>3, <2>1, <2>3 DEF F256Raise, Destination, Running, Null
  <2> QED BY <2>2, <2>3
<1>5. CASE Destination(t) # Nowhere
  <2>1. raised'[t] = raised[t] \cup F
    BY <1>1 DEF IInv, TypeOK
  <2> QED BY <1>1, <1>2, <1>4, <1>5, <2>1, LoadInv DEF IInv, TypeOK
<1>6. CASE Destination(t) = Nowhere
  <2>1. TypeOK' /\ \A u \in Threads \ {t} : UNCHANGED Own(u)
    BY <1>1, <1>4, <1>6 DEF IInv, TypeOK, Own
  <2>2. ThreadInv(t)'
    BY <1>1, <1>2, <1>4, <1>6 DEF ThreadInv, RmwOfCall, Fresh, OnTheWay, Backend, Running, Destination
  <2> QED BY <1>1, <2>1, <2>2, LocalStep
<1> QED BY <1>5, <1>6

LEMMA PlainReturnInv ==
  ASSUME IInv, NEW t \in Threads, DirectReturn(t) \/ F256Return(t)
  PROVE  IInv'
<1>1. /\ call[t].kind \in {"direct", "f256"} /\ ~rmw[t].active /\ Return(t)
      /\ UNCHANGED <<flags, acc, rmw, round, eflags, saved, raised>>
  BY DEF DirectReturn, F256Return, Running
<1>2. round[t] = NearEven /\ eflags[t] = {}
  BY <1>1 DEF IInv, ThreadInv, Backend, Running
<1> QED BY <1>1, <1>2, ReturnInv DEF IInv, TypeOK, Own, Return

LEMMA F128RaiseInv ==
  ASSUME IInv, NEW t \in Threads, NEW F \in SUBSET Flags, F128Raise(t, F)
  PROVE  IInv'
<1>1. /\ call[t].kind = "f128" /\ ~rmw[t].active
      /\ eflags' = [eflags EXCEPT ![t] = eflags[t] \cup F]
      /\ raised' = [raised EXCEPT ![t] = raised[t] \cup F]
      /\ UNCHANGED <<flags, call, acc, rmw, round, saved>>
  BY DEF F128Raise, Running, KernelRaises
<1>2. TypeOK' /\ \A u \in Threads \ {t} : UNCHANGED Own(u)
  BY <1>1 DEF IInv, TypeOK, Own
<1>3. Backend(t)'
  BY <1>1 DEF IInv, TypeOK, ThreadInv, Backend, Running
<1>4. RmwOfCall(t)' /\ Fresh(t)' /\ OnTheWay(t)'
  BY <1>1 DEF RmwOfCall, Fresh, OnTheWay
<1> QED BY <1>1, <1>2, <1>3, <1>4, LocalStep DEF ThreadInv

LEMMA F128ExitInv ==
  ASSUME IInv, NEW t \in Threads, F128Exit(t)
  PROVE  IInv'
<1>1. /\ call[t].kind = "f128" /\ ~rmw[t].active /\ call[t] # NoCall
      /\ saved[t] = [round |-> NearEven, flags |-> {}] /\ eflags[t] = raised[t]
  BY DEF F128Exit, RestoreBackend, Running, NoCall, IInv, ThreadInv, Backend
<1>2. /\ round' = [round EXCEPT ![t] = NearEven] /\ eflags' = [eflags EXCEPT ![t] = {}]
      /\ UNCHANGED <<flags, acc, saved, raised>>
  BY <1>1 DEF F128Exit, RestoreBackend
<1>3. /\ round' \in [Threads -> Modes] /\ eflags' \in [Threads -> SUBSET Flags]
      /\ round'[t] = NearEven /\ eflags'[t] = {}
      /\ \A u \in Threads \ {t} : UNCHANGED <<acc[u], round[u], eflags[u], saved[u], raised[u]>>
  BY <1>2, FenvAssumption DEF IInv, TypeOK, FenvAssumption
<1>4. call[t].explicit \in BOOLEAN /\ (~call[t].explicit => call[t].state = Null)
  BY <1>1 DEF IInv, TypeOK, Calls, OneUser
<1>5. Nowhere # t
  BY FenvAssumption DEF FenvAssumption
<1>6. \/ /\ Destination(t) # Nowhere
         /\ Load(t, Destination(t), eflags[t], TRUE) /\ call' = call
      \/ Return(t) /\ rmw' = rmw
  BY <1>1, <1>4, <1>5 DEF F128Exit, RestoreBackend, Destination, Null
<1>7. CASE /\ Destination(t) # Nowhere
           /\ Load(t, Destination(t), eflags[t], TRUE) /\ call' = call
  BY <1>1, <1>2, <1>3, <1>7, LoadInv DEF IInv, TypeOK
<1>8. CASE Return(t) /\ rmw' = rmw
  <2>1. TypeOK' /\ \A u \in Threads \ {t} : UNCHANGED Own(u)
    BY <1>2, <1>3, <1>8 DEF IInv, TypeOK, Own, Return
  <2> QED BY <1>1, <1>2, <1>3, <1>8, <2>1, ReturnInv
<1> QED BY <1>6, <1>7, <1>8

---------------------------------------------------------------------------
(* An accessor writes a bag that no call in progress is for.               *)
LEMMA SetInv ==
  ASSUME IInv, NEW t \in Threads, NEW b \in {t} \cup States, NEW F \in SUBSET Flags,
         Idle(t), b \in States => Available(b), Set(b, F)
  PROVE  IInv' /\ \A u \in Threads : Destination(u) # b
<1>1. \A u \in Threads : Destination(u) # b
  BY DestinationType, FenvAssumption DEF Idle, Available, FenvAssumption
<1>2. /\ flags' = [flags EXCEPT ![b] = F]
      /\ UNCHANGED <<call, acc, rmw, round, eflags, saved, raised>>
  BY DEF Set
<1>3. TypeOK' /\ OneUser'
  BY <1>2 DEF IInv, TypeOK, OneUser
<1>4. ASSUME NEW u \in Threads PROVE ThreadInv(u)'
  <2>1. Destination(u) # Nowhere => flags'[Destination(u)] = flags[Destination(u)]
    BY <1>1, <1>2, DestinationType DEF IInv, TypeOK, Bags
  <2>2. UNCHANGED Own(u)
    BY <1>2 DEF Own
  <2> QED BY <2>1, <2>2, Frame
<1> QED BY <1>1, <1>3, <1>4 DEF IInv

(* Every accessor is such a write.                                         *)
LEMMA AccessIsSet ==
  ASSUME IInv, NEW t \in Threads, Access(t)
  PROVE  \E b \in {t} \cup States, F \in SUBSET Flags :
            Idle(t) /\ (b \in States => Available(b)) /\ (b = t => FenvMode = 1) /\ Set(b, F)
<1> USE FenvAssumption DEF FenvAssumption
<1>1. flags \in [Bags -> SUBSET Flags] /\ t \in Bags /\ States \subseteq Bags /\ t \notin States
  BY DEF IInv, TypeOK, Bags
<1>2. CASE \E mask \in SUBSET Flags : FeRaise(t, mask) \/ FeClear(t, mask)
  <2>1. PICK mask \in SUBSET Flags : FeRaise(t, mask) \/ FeClear(t, mask)
    BY <1>2
  <2>2. flags[t] \cup mask \in SUBSET Flags /\ flags[t] \ mask \in SUBSET Flags
    BY <1>1
  <2> QED BY <1>1, <2>1, <2>2 DEF FeRaise, FeClear
<1>3. CASE \E mask \in SUBSET Flags, s \in States : FeRaiseEx(t, s, mask) \/ FeClearEx(t, s, mask)
  <2>1. PICK mask \in SUBSET Flags, s \in States : FeRaiseEx(t, s, mask) \/ FeClearEx(t, s, mask)
    BY <1>3
  <2>2. flags[s] \cup mask \in SUBSET Flags /\ flags[s] \ mask \in SUBSET Flags
    BY <1>1
  <2> QED BY <1>1, <2>1, <2>2 DEF FeRaiseEx, FeClearEx
<1>4. CASE \E s \in States : FeSave(t, s) \/ FeRestore(t, s)
  <2>1. PICK s \in States : FeSave(t, s) \/ FeRestore(t, s)
    BY <1>4
  <2>2. flags[s] \in SUBSET Flags /\ flags[t] \in SUBSET Flags
    BY <1>1
  <2>3. (IF FenvMode = 1 THEN flags[t] ELSE {}) \in SUBSET Flags
    BY <2>2
  <2> QED BY <1>1, <2>1, <2>2, <2>3 DEF FeSave, FeRestore
<1>5. CASE \E s \in States \cup {Null}, out \in States : FeSaveEx(t, s, out)
  <2>1. PICK s \in States \cup {Null}, out \in States : FeSaveEx(t, s, out)
    BY <1>5
  <2>2. (IF s = Null THEN {} ELSE flags[s]) \in SUBSET Flags
    BY <1>1
  <2> QED BY <1>1, <2>1, <2>2 DEF FeSaveEx
<1>6. CASE \E s, in \in States : FeRestoreEx(t, s, in)
  <2>1. PICK s \in States, in \in States : FeRestoreEx(t, s, in)
    BY <1>6
  <2>2. flags[in] \in SUBSET Flags
    BY <1>1
  <2> QED BY <1>1, <2>1, <2>2 DEF FeRestoreEx
<1> QED BY <1>2, <1>3, <1>4, <1>5, <1>6 DEF Access

LEMMA EnterCases ==
  ASSUME IInv, NEW t \in Threads, NEW s \in States \cup {Null}, NEW e \in BOOLEAN,
         NEW m \in Modes,
         EnterAcc(t, e, s, m) \/ EnterF256(t, e, s, m) \/ EnterF128(t, e, s, m) \/ EnterDirect(t)
  PROVE  /\ IInv'
         /\ \E kind \in {"acc", "direct", "f256", "f128"}, x \in BOOLEAN,
               y \in States \cup {Null}, z \in Modes : Enter(t, kind, x, y, z)
<1>1. CASE EnterAcc(t, e, s, m)
  BY <1>1, EnterInv DEF EnterAcc
<1>2. CASE EnterF256(t, e, s, m)
  BY <1>2, EnterInv DEF EnterF256
<1>3. CASE EnterF128(t, e, s, m)
  BY <1>3, EnterInv DEF EnterF128
<1>4. CASE EnterDirect(t)
  <2>1. NearEven \in Modes /\ FALSE \in BOOLEAN /\ Null \in States \cup {Null}
    BY FenvAssumption DEF FenvAssumption
  <2>2. /\ Enter(t, "direct", FALSE, Null, NearEven)
        /\ UNCHANGED <<round, eflags, saved>>
    BY <1>4 DEF EnterDirect
  <2> QED BY <2>1, <2>2, EnterInv
<1> QED BY <1>1, <1>2, <1>3, <1>4

LEMMA NextInv == IInv /\ [Next]_vars => IInv'
<1> SUFFICES ASSUME IInv, [Next]_vars PROVE IInv'
  OBVIOUS
<1>1. CASE UNCHANGED vars
  BY <1>1 DEF vars, IInv, TypeOK, OneUser, ThreadInv, RmwOfCall, Fresh, OnTheWay, Backend,
              Running, Destination
<1>2. ASSUME NEW t \in Threads, Access(t) PROVE IInv'
  <2>1. PICK b \in {t} \cup States, F \in SUBSET Flags :
          Idle(t) /\ (b \in States => Available(b)) /\ Set(b, F)
    BY <1>2, AccessIsSet
  <2> QED BY <2>1, SetInv
<1>3. ASSUME NEW t \in Threads, Operate(t) PROVE IInv'
  <2>1. CASE \E s \in States \cup {Null}, e \in BOOLEAN, m \in Modes :
                EnterAcc(t, e, s, m) \/ EnterF256(t, e, s, m) \/ EnterF128(t, e, s, m)
    BY <2>1, EnterCases
  <2>2. CASE EnterDirect(t)
    BY <2>2, EnterCases, FenvAssumption DEF FenvAssumption, Null
  <2>3. CASE \E F \in SUBSET Flags :
                AccRaise(t, F) \/ DirectRaise(t, F) \/ F256Raise(t, F) \/ F128Raise(t, F)
    BY <2>3, AccRaiseInv, RaiseStoreInv, F128RaiseInv
  <2>4. CASE AccFlush(t)
    BY <2>4, AccFlushInv
  <2>5. CASE DirectReturn(t) \/ F256Return(t)
    BY <2>5, PlainReturnInv
  <2>6. CASE F128Exit(t)
    BY <2>6, F128ExitInv
  <2>7. CASE Store(t)
    BY <2>7, StoreInv
  <2> QED BY <1>3, <2>1, <2>2, <2>3, <2>4, <2>5, <2>6, <2>7 DEF Operate
<1> QED BY <1>1, <1>2, <1>3 DEF Next

(* The inductive invariant, for any threads, states, flags and build.      *)
THEOREM Invariance == Spec => []IInv
  BY InitInv, NextInv, PTL DEF Spec

(* The state of the flag plumbing keeps its type in every build.           *)
THEOREM TypeCorrect == Spec => []TypeOK
  BY Invariance, PTL DEF IInv

(* No |= on a flag bag, thread-local or the caller's, ever stores over a   *)
(* value that changed after it was loaded.                                 *)
THEOREM LoadedIsFreshAlways == Spec => []LoadedIsFresh
<1>1. IInv => LoadedIsFresh
  BY DEF IInv, ThreadInv, Fresh, LoadedIsFresh
<1> QED BY <1>1, Invariance, PTL

(* Every binary128 call computes under its own rounding mode and collects  *)
(* its own flags, and leaves the backend as it found it.                   *)
THEOREM BackendEnvironmentAlways == Spec => []BackendEnvironment
<1>1. IInv => BackendEnvironment
  BY DEF IInv, ThreadInv, Backend, BackendEnvironment
<1> QED BY <1>1, Invariance, PTL

---------------------------------------------------------------------------
(* Builds without thread-local storage report no thread-local flags.       *)
LEMMA NoThreadLocalStep ==
  IInv /\ NoThreadLocalFlags /\ [Next]_vars => NoThreadLocalFlags'
<1> SUFFICES ASSUME IInv, NoThreadLocalFlags, [Next]_vars, FenvMode # 1, NEW u \in Threads
             PROVE  flags'[u] = {}
  BY DEF NoThreadLocalFlags
<1>1. flags[u] = {} /\ u \in Bags /\ u \notin States /\ u # Nowhere
  BY FenvAssumption DEF NoThreadLocalFlags, Bags, FenvAssumption
<1>2. CASE flags' = flags
  BY <1>1, <1>2
<1>3. ASSUME NEW t \in Threads, Store(t) PROVE flags'[u] = {}
  <2>1. \A b \in Bags \ {Destination(t)} : flags'[b] = flags[b]
    BY <1>3, StoreInv
  <2>2. Destination(t) # u
    <3>1. CASE ~call[t].explicit
      BY <1>1, <3>1 DEF Destination
    <3>2. CASE call[t].explicit
      <4>1. call[t] \in Calls \cup {NoCall}
        BY DEF IInv, TypeOK
      <4>2. call[t].state \in States \cup {Null}
        BY <4>1 DEF Calls, NoCall
      <4> QED BY <1>1, <3>2, <4>2 DEF Destination, Null
    <3>3. call[t].explicit \in BOOLEAN
      <4>1. call[t] \in Calls \cup {NoCall}
        BY DEF IInv, TypeOK
      <4>2. CASE call[t] = NoCall
        BY <4>2 DEF NoCall
      <4>3. CASE call[t] \in Calls
        BY <4>3 DEF Calls
      <4> QED BY <4>1, <4>2, <4>3
    <3> QED BY <3>1, <3>2, <3>3
  <2> QED BY <1>1, <2>1, <2>2
<1>4. ASSUME NEW t \in Threads, Access(t) PROVE flags'[u] = {}
  <2>1. PICK b \in {t} \cup States, F \in SUBSET Flags : (b = t => FenvMode = 1) /\ Set(b, F)
    BY <1>4, AccessIsSet
  <2>2. b \in States /\ flags' = [flags EXCEPT ![b] = F]
    BY <2>1 DEF Set
  <2> QED BY <1>1, <2>2 DEF IInv, TypeOK
<1>5. ASSUME NEW t \in Threads, Operate(t), ~Store(t) PROVE flags' = flags
  BY <1>5 DEF Operate, EnterAcc, EnterF256, EnterF128, EnterDirect, Enter, AccRaise, DirectRaise,
     F256Raise, F128Raise, AccFlush, DirectReturn, F256Return, F128Exit, RestoreBackend
<1> QED BY <1>2, <1>3, <1>4, <1>5 DEF Next, vars

(* The explicit and the disabled build never set a thread-local flag.      *)
THEOREM NoThreadLocalFlagsAlways == Spec => []NoThreadLocalFlags
<1>1. Init => NoThreadLocalFlags
  BY DEF Init, NoThreadLocalFlags, Bags
<1> QED BY <1>1, Invariance, NoThreadLocalStep, PTL DEF Spec

---------------------------------------------------------------------------
(* The refinement: each step is one of StickyEnv's, or a stutter.          *)

LEMMA OpType ==
  ASSUME IInv, NEW t \in Threads
  PROVE  /\ Op[t] = [dest |-> Destination(t), raised |-> IF call[t] = NoCall THEN {} ELSE raised[t],
                     status |-> IF call[t] = NoCall THEN "idle" ELSE "running"]
         /\ Op[t].dest = Destination(t)
         /\ call[t] = NoCall => Op[t] = Env!Idle
         /\ call[t] # NoCall => Op[t].status = "running" /\ Op[t].raised = raised[t]
  BY DestinationType DEF Op, Env!Idle

(* A step of t leaves the abstract operations of the other threads alone.  *)
LEMMA OpStep ==
  ASSUME NEW t \in Threads,
         \A u \in Threads \ {t} : call'[u] = call[u] /\ raised'[u] = raised[u]
  PROVE  Op' = [Op EXCEPT ![t] = [dest |-> Destination(t)',
                                  raised |-> IF call'[t] = NoCall THEN {} ELSE raised'[t],
                                  status |-> IF call'[t] = NoCall THEN "idle" ELSE "running"]]
<1>1. \A u \in Threads \ {t} : Destination(u)' = Destination(u)
  BY DEF Destination
<1> QED BY <1>1 DEF Op

LEMMA EnterRefines ==
  ASSUME IInv, NEW t \in Threads, NEW kind \in {"acc", "direct", "f256", "f128"},
         NEW e \in BOOLEAN, NEW s \in States \cup {Null}, NEW m \in Modes,
         Enter(t, kind, e, s, m), IInv'
  PROVE  \E d \in Bags \cup {Nowhere} : Env!Begin(t, d)
<1>d. PICK d : d = Destination(t)'
  OBVIOUS
<1>1. /\ call[t] = NoCall /\ UNCHANGED flags
      /\ call' = [call EXCEPT ![t] = [kind |-> kind, explicit |-> e, state |-> s, mode |-> m]]
      /\ raised' = [raised EXCEPT ![t] = {}]
  BY DEF Enter
<1>2. /\ call'[t].kind = kind /\ call'[t] # NoCall /\ raised'[t] = {}
      /\ \A u \in Threads \ {t} : call'[u] = call[u] /\ raised'[u] = raised[u]
  BY <1>1 DEF IInv, TypeOK, NoCall
<1>3. Op' = [Op EXCEPT ![t] = [dest |-> d, raised |-> {}, status |-> "running"]]
  BY <1>2, <1>d, OpStep
<1>4. Op[t] = Env!Idle
  BY <1>1, OpType
<1>5. d \in {t, Nowhere} \cup States
  <2>1. call'[t] \in Calls
    BY <1>2 DEF IInv, TypeOK
  <2> QED BY <1>d, <2>1 DEF Calls, Destination, Null
<1>6. d # Nowhere => \A u \in Threads : Op[u].dest # d
  <2> SUFFICES ASSUME d # Nowhere, NEW u \in Threads
               PROVE  Op[u].dest # d
    OBVIOUS
  <2>0. Op[u].dest = Destination(u)
    BY OpType
  <2>1. CASE u = t
    BY <1>1, <2>0, <2>1, DestinationType
  <2>2. CASE u # t
    <3>1. Destination(u)' = Destination(u)
      BY <1>2, <2>2 DEF Destination
    <3>2. OneUser' /\ call'[t] \in Calls /\ call'[u] \in Calls \cup {NoCall}
      BY <1>2 DEF IInv, TypeOK
    <3>3. d = t \/ (d = call'[t].state /\ call'[t].state \in States)
      BY <1>d, <3>2 DEF Destination, Calls, Null
    <3>4. Destination(u)' \in {u, Nowhere, call'[u].state} /\ call'[u].state \in States \cup {Null}
      BY <3>2 DEF Destination, Calls, NoCall, Null
    <3> QED BY <2>0, <2>2, <3>1, <3>2, <3>3, <3>4, FenvAssumption DEF OneUser, FenvAssumption, Null
  <2> QED BY <2>1, <2>2
<1> QED BY <1>1, <1>3, <1>4, <1>5, <1>6 DEF Env!Begin, Env!Unused, Bags

LEMMA RaiseRefines ==
  ASSUME IInv, NEW t \in Threads, NEW F \in SUBSET Flags,
         AccRaise(t, F) \/ DirectRaise(t, F) \/ F256Raise(t, F) \/ F128Raise(t, F)
  PROVE  Env!RaiseFlags(t, F)
<1>1. /\ call[t].kind \in {"acc", "direct", "f256", "f128"}
      /\ UNCHANGED <<flags, call>> /\ raised' = [raised EXCEPT ![t] = raised[t] \cup F]
  BY DEF AccRaise, DirectRaise, F256Raise, F128Raise, Running, KernelRaises
<1>2. /\ call[t] # NoCall /\ Destination(t)' = Destination(t) /\ raised'[t] = raised[t] \cup F
      /\ \A u \in Threads \ {t} : call'[u] = call[u] /\ raised'[u] = raised[u]
  BY <1>1 DEF NoCall, Destination, IInv, TypeOK
<1>3. Op' = [Op EXCEPT ![t] = [dest |-> Destination(t), raised |-> raised[t] \cup F, status |-> "running"]]
  BY <1>1, <1>2, OpStep
<1>4. Op[t] = [dest |-> Destination(t), raised |-> raised[t], status |-> "running"]
  BY <1>2, OpType
<1>5. [Op[t] EXCEPT !.raised = Op[t].raised \cup F]
        = [dest |-> Destination(t), raised |-> raised[t] \cup F, status |-> "running"]
  BY <1>4
<1> QED BY <1>1, <1>3, <1>4, <1>5 DEF Env!RaiseFlags

(* A return with everything delivered, in a store or before.               *)
LEMMA ReturnRefines ==
  ASSUME IInv, NEW t \in Threads, call[t] # NoCall, Return(t), UNCHANGED raised,
         IF Destination(t) = Nowhere THEN UNCHANGED flags
         ELSE flags' = [flags EXCEPT ![Destination(t)] = flags[Destination(t)] \cup raised[t]]
  PROVE  Env!Finish(t)
<1>1. /\ call'[t] = NoCall
      /\ \A u \in Threads \ {t} : call'[u] = call[u] /\ raised'[u] = raised[u]
  BY DEF Return, IInv, TypeOK
<1>2. Destination(t)' = Nowhere
  BY <1>1 DEF Destination, NoCall
<1>3. Op' = [Op EXCEPT ![t] = Env!Idle]
  BY <1>1, <1>2, OpStep DEF Env!Idle
<1>4. Op[t] = [dest |-> Destination(t), raised |-> raised[t], status |-> "running"]
  BY OpType
<1> QED BY <1>3, <1>4 DEF Env!Finish

(* ... when nothing is stored any more.                                    *)
LEMMA QuietReturn ==
  ASSUME IInv, NEW t \in Threads, call[t] # NoCall, Return(t), UNCHANGED <<flags, raised>>,
         Destination(t) # Nowhere => raised[t] \subseteq flags[Destination(t)]
  PROVE  Env!Finish(t)
<1>1. CASE Destination(t) = Nowhere
  BY <1>1, ReturnRefines
<1>2. CASE Destination(t) # Nowhere
  <2>1. flags[Destination(t)] \cup raised[t] = flags[Destination(t)]
    BY <1>2
  <2>2. flags = [flags EXCEPT ![Destination(t)] = flags[Destination(t)]]
    BY <1>2, DestinationType DEF IInv, TypeOK, Bags
  <2> QED BY <1>2, <2>1, <2>2, ReturnRefines
<1> QED BY <1>1, <1>2

(* Loading for a |= is a stutter.                                          *)
LEMMA LoadRefines ==
  ASSUME UNCHANGED <<flags, call, raised>>
  PROVE  UNCHANGED Env!envVars
  BY DEF Env!envVars, Op, Destination

LEMMA FlushRefines ==
  ASSUME IInv, NEW t \in Threads, AccFlush(t)
  PROVE  Env!Finish(t) \/ UNCHANGED Env!envVars
<1>1. /\ call[t].kind = "acc" /\ UNCHANGED <<flags, raised>> /\ call[t] # NoCall
  BY DEF AccFlush, Running, NoCall
<1>2. FlushTarget(t) = Destination(t)
  BY <1>1, FlushTargetIsDestination
<1>3. CASE acc[t] = {} \/ FlushTarget(t) = Null
  <2>1. Return(t)
    BY <1>3 DEF AccFlush
  <2>2. Destination(t) # Nowhere => raised[t] = {}
    BY <1>1, <1>2, <1>3 DEF IInv, ThreadInv, OnTheWay, Null
  <2> QED BY <1>1, <2>1, <2>2, QuietReturn
<1>4. CASE ~(acc[t] = {} \/ FlushTarget(t) = Null)
  BY <1>1, <1>4, LoadRefines DEF AccFlush
<1> QED BY <1>3, <1>4

LEMMA PlainReturnRefines ==
  ASSUME IInv, NEW t \in Threads, DirectReturn(t) \/ F256Return(t)
  PROVE  Env!Finish(t)
<1>1. /\ call[t].kind \in {"direct", "f256"} /\ ~rmw[t].active /\ Return(t)
      /\ UNCHANGED <<flags, raised>>
  BY DEF DirectReturn, F256Return, Running
<1>2. call[t] # NoCall
  BY <1>1 DEF NoCall
<1>3. Destination(t) # Nowhere => raised[t] \subseteq flags[Destination(t)]
  BY <1>1, <1>2 DEF IInv, ThreadInv, OnTheWay
<1> QED BY <1>1, <1>2, <1>3, QuietReturn

LEMMA F128ExitRefines ==
  ASSUME IInv, NEW t \in Threads, F128Exit(t)
  PROVE  Env!Finish(t) \/ UNCHANGED Env!envVars
<1>1. /\ call[t].kind = "f128" /\ ~rmw[t].active /\ call[t] # NoCall
      /\ eflags[t] = raised[t] /\ UNCHANGED <<flags, raised>>
  BY DEF F128Exit, RestoreBackend, Running, NoCall, IInv, ThreadInv, Backend
<1>2. call[t].explicit \in BOOLEAN /\ (~call[t].explicit => call[t].state = Null)
  BY <1>1 DEF IInv, TypeOK, Calls, OneUser
<1>3. call' = call \/ (Return(t) /\ (Destination(t) # Nowhere => eflags[t] = {}))
  BY <1>1, <1>2 DEF F128Exit, RestoreBackend, Destination, Null
<1>4. CASE call' = call
  BY <1>1, <1>4, LoadRefines
<1>5. CASE Return(t) /\ (Destination(t) # Nowhere => eflags[t] = {})
  BY <1>1, <1>5, QuietReturn
<1> QED BY <1>3, <1>4, <1>5

LEMMA StoreRefines ==
  ASSUME IInv, NEW t \in Threads, Store(t)
  PROVE  Env!Finish(t) \/ \E D \in SUBSET Flags : Env!Deliver(t, D)
<1> DEFINE d == Destination(t)
<1>1. /\ rmw[t].active /\ rmw[t].target = d /\ rmw[t].loaded = flags[d] /\ call[t] # NoCall
      /\ d \in Bags /\ rmw[t].add \in SUBSET Flags /\ rmw[t].last \in BOOLEAN
  BY RmwType DEF Store, Updated, IInv, ThreadInv, RmwOfCall, Fresh
<1>2. /\ flags' = [flags EXCEPT ![d] = flags[d] \cup rmw[t].add] /\ UNCHANGED raised
      /\ rmw[t].last => Return(t)
      /\ ~rmw[t].last => UNCHANGED call
  BY <1>1 DEF Store, Updated
<1>3. d # Nowhere /\ rmw[t].add \subseteq raised[t] /\ (rmw[t].last => rmw[t].add = raised[t])
  BY <1>1, FenvAssumption DEF IInv, ThreadInv, OnTheWay, FenvAssumption, Bags
<1>4. CASE rmw[t].last
  BY <1>1, <1>2, <1>3, <1>4, ReturnRefines
<1>5. CASE ~rmw[t].last
  <2>1. Op' = Op
    <3>1. \A u \in Threads : Destination(u)' = Destination(u)
      BY <1>2, <1>5 DEF Destination
    <3> QED BY <1>2, <1>5, <3>1 DEF Op
  <2>2. Op[t].status = "running" /\ Op[t].dest = d /\ Op[t].raised = raised[t]
    BY <1>1, OpType
  <2> QED BY <1>1, <1>2, <1>3, <2>1, <2>2 DEF Env!Deliver
<1> QED BY <1>1, <1>4, <1>5

LEMMA AccessRefines ==
  ASSUME IInv, NEW t \in Threads, Access(t)
  PROVE  \E b \in Bags, F \in SUBSET Flags : Env!Assign(t, b, F)
<1>1. PICK b \in {t} \cup States, F \in SUBSET Flags :
        Idle(t) /\ (b \in States => Available(b)) /\ Set(b, F)
  BY AccessIsSet
<1>2. \A u \in Threads : Destination(u) # b
  BY <1>1, SetInv
<1>3. /\ flags' = [flags EXCEPT ![b] = F] /\ UNCHANGED <<call, raised>>
  BY <1>1 DEF Set
<1>4. Op' = Op /\ Op[t] = Env!Idle /\ \A u \in Threads : Op[u].dest # b
  BY <1>1, <1>2, <1>3, OpType DEF Idle, Op, Destination
<1> QED BY <1>1, <1>3, <1>4 DEF Env!Assign, Env!Unused, Bags

LEMMA InitRefines == Init => Env!EnvInit
<1> SUFFICES ASSUME Init PROVE Env!EnvInit
  OBVIOUS
<1>1. \A t \in Threads : call[t] = NoCall /\ Destination(t) = Nowhere
  BY DEF Init, Destination, NoCall
<1>2. Op = [t \in Threads |-> Env!Idle]
  BY <1>1 DEF Op, Env!Idle
<1> QED BY <1>2 DEF Init, Bags, Env!EnvInit, Env!Bags

LEMMA StepRefines == IInv /\ IInv' /\ [Next]_vars => [Env!EnvNext]_(Env!envVars)
<1> SUFFICES ASSUME IInv, IInv', [Next]_vars PROVE [Env!EnvNext]_(Env!envVars)
  OBVIOUS
<1>1. CASE UNCHANGED vars
  BY <1>1, LoadRefines DEF vars
<1>2. ASSUME NEW t \in Threads, Access(t) PROVE Env!EnvNext
  BY <1>2, AccessRefines DEF Env!EnvNext, Bags, Env!Bags
<1>3. ASSUME NEW t \in Threads, Operate(t) PROVE [Env!EnvNext]_(Env!envVars)
  <2>1. CASE \/ \E s \in States \cup {Null}, e \in BOOLEAN, m \in Modes :
                   EnterAcc(t, e, s, m) \/ EnterF256(t, e, s, m) \/ EnterF128(t, e, s, m)
             \/ EnterDirect(t)
    <3>1. \E kind \in {"acc", "direct", "f256", "f128"}, x \in BOOLEAN,
             y \in States \cup {Null}, z \in Modes : Enter(t, kind, x, y, z)
      BY <2>1, EnterCases, FenvAssumption DEF FenvAssumption, Null
    <3>2. \E d \in Bags \cup {Nowhere} : Env!Begin(t, d)
      BY <3>1, EnterRefines
    <3> QED BY <3>2 DEF Bags, Env!EnvNext, Env!Bags
  <2>2. CASE \E F \in SUBSET Flags :
                AccRaise(t, F) \/ DirectRaise(t, F) \/ F256Raise(t, F) \/ F128Raise(t, F)
    BY <2>2, RaiseRefines DEF Env!EnvNext
  <2>3. CASE AccFlush(t)
    BY <2>3, FlushRefines DEF Env!EnvNext
  <2>4. CASE DirectReturn(t) \/ F256Return(t)
    BY <2>4, PlainReturnRefines DEF Env!EnvNext
  <2>5. CASE F128Exit(t)
    BY <2>5, F128ExitRefines DEF Env!EnvNext
  <2>6. CASE Store(t)
    BY <2>6, StoreRefines DEF Env!EnvNext
  <2> QED BY <1>3, <2>1, <2>2, <2>3, <2>4, <2>5, <2>6 DEF Operate
<1> QED BY <1>1, <1>2, <1>3 DEF Next

(* For any number of threads and caller states and in each of the three    *)
(* builds, the plumbing delivers every raised flag to the bag the call is  *)
(* documented to raise into, and touches no other.                         *)
THEOREM StickyRefinement == Spec => Sticky
<1>1. IInv /\ IInv' /\ [Next]_vars => [Env!EnvNext]_(Env!envVars)
  BY StepRefines
<1> QED BY <1>1, InitRefines, Invariance, PTL DEF Spec, Sticky, Env!EnvSpec
=============================================================================
