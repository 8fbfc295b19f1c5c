------------------------------ MODULE PcaProofs ------------------------------
(***************************************************************************)
(* Proofs about the driver of the GPIO expander, for any threads, pins and *)
(* number of failures.  The invariant: the semaphore admits one call at a  *)
(* time; the call's new configuration is computed from the copy as it      *)
(* still is; the registers it has passed hold the new configuration, and   *)
(* the others, unless a failure left them wrong, that of the copy.         *)
(***************************************************************************)
EXTENDS Pca64xxa, TLAPS

Busy(t) == pc[t] \in {"write", "read"}

MutexInv ==
    \A t \in Threads :
        Busy(t) => lock = 0 /\ \A s \in Threads : Busy(s) => s = t

BootInv == phase = "boot" => \A t \in Threads : pc[t] = "idle"

CallInv ==
    \A t \in Threads : pc[t] = "write" =>
        /\ op[t].kind # "get"
        /\ step[t] <= Last(op[t])
        /\ newOut[t] = Outputs(op[t])
        /\ newIn[t] = Inputs(op[t])

ChipInv ==
    \A t \in Threads : pc[t] = "write" =>
        \A r \in 1..4 :
            /\ r < step[t] => Holds(r, newOut[t], newIn[t])
            /\ r >= step[t] /\ r \notin suspect => Holds(r, cacheOut, cacheIn)

IInv ==
    /\ TypeOK
    /\ MutexInv
    /\ BootInv
    /\ CallInv
    /\ ChipInv
    /\ ChipFollowsDriver

-----------------------------------------------------------------------------
(* The operators.                                                          *)

\* A call asks for pins of the chip only, changes nothing it does not name,
\* and port_set_raw leaves the directions alone.
LEMMA AskedLemma ==
    ASSUME NEW o \in Ops, cacheOut \subseteq Pins, cacheIn \subseteq Pins
    PROVE  /\ Outputs(o) \subseteq Pins
           /\ Inputs(o) \subseteq Pins
           /\ Flip(cacheOut, Outputs(o)) \subseteq Named(o)
           /\ Flip(cacheIn, Inputs(o)) \subseteq Named(o)
           /\ Last(o) # 4 => Inputs(o) = cacheIn
           /\ Last(o) \in {2, 4}
<1>1. CASE o \in SetOps \cup ToggleOps
  <2>1. /\ o.kind = "set"
        /\ o.mask \subseteq Pins /\ o.value \subseteq Pins
        /\ o.toggle \subseteq Pins
    BY <1>1 DEF SetOps, ToggleOps
  <2>2. Outputs(o) =
          Flip((cacheOut \ o.mask) \cup (o.value \cap o.mask), o.toggle)
    BY <2>1 DEF Outputs
  <2>3. Inputs(o) = cacheIn /\ Named(o) = o.mask \cup o.toggle /\ Last(o) = 2
    BY <2>1 DEF Inputs, Named, Last
  <2>4. QED  BY <2>1, <2>2, <2>3 DEF Flip
<1>2. CASE o \in ConfigureOps
  <2>1. o.kind = "configure" /\ o.pin \in Pins
    BY <1>2 DEF ConfigureOps
  <2>2. Outputs(o) \in {cacheOut \ {o.pin}, cacheOut \cup {o.pin}, cacheOut}
    BY <2>1 DEF Outputs
  <2>3. Inputs(o) \in {cacheIn \cup {o.pin}, cacheIn \ {o.pin}}
    BY <2>1 DEF Inputs
  <2>4. Named(o) = {o.pin} /\ Last(o) = 4
    BY <2>1 DEF Named, Last
  <2>5. QED  BY <2>1, <2>2, <2>3, <2>4 DEF Flip
<1>3. CASE o = NoOp
  <2>1. o.kind = "get"  BY <1>3 DEF NoOp
  <2>2. Outputs(o) = cacheOut /\ Inputs(o) = cacheIn /\ Last(o) = 2
    BY <2>1 DEF Outputs, Inputs, Last
  <2>3. QED  BY <2>2 DEF Flip
<1>4. QED  BY <1>1, <1>2, <1>3 DEF Ops

\* Reading the port is a call.
LEMMA NoOpLemma == NoOp \in Ops
BY DEF Ops

\* Writing a byte changes that byte, to what was asked, and nothing else.
LEMMA WriteLemma ==
    ASSUME NEW r \in 1..4, NEW out, NEW in, WriteReg(r, out, in)
    PROVE  /\ r \in {1, 2} => /\ chipIn' = chipIn
                              /\ chipOut' \cap Byte(r) = out \cap Byte(r)
                              /\ \A q \in {1, 2} \ {r} :
                                    chipOut' \cap Byte(q) = chipOut \cap Byte(q)
           /\ r \in {3, 4} => /\ chipOut' = chipOut
                              /\ chipIn' \cap Byte(r) = in \cap Byte(r)
                              /\ \A q \in {3, 4} \ {r} :
                                    chipIn' \cap Byte(q) = chipIn \cap Byte(q)
           /\ chipOut' \subseteq chipOut \cup (out \cap Pins)
           /\ chipIn' \subseteq chipIn \cup (in \cap Pins)
BY PcaAssumption DEF WriteReg, Written, Byte, Pins

-----------------------------------------------------------------------------
(* The invariant.                                                          *)

\* Initially nobody calls the driver, and no register is relied upon.
LEMMA InitLemma == Init => IInv
<1> SUFFICES ASSUME Init PROVE IInv  OBVIOUS
<1> USE DEF Init
<1>1. TypeOK  BY PcaAssumption DEF TypeOK, Ops
<1>2. MutexInv  BY DEF MutexInv, Busy
<1>3. BootInv /\ CallInv /\ ChipInv  BY DEF BootInv, CallInv, ChipInv
<1>4. ChipFollowsDriver  BY DEF ChipFollowsDriver
<1>5. QED  BY <1>1, <1>2, <1>3, <1>4 DEF IInv

\* The initialisation writes every register, or leaves them suspect.
LEMMA InitDriverStep == IInv /\ (InitDriver \/ InitDriverFails) => IInv'
<1> SUFFICES ASSUME IInv, InitDriver \/ InitDriverFails PROVE IInv'
  OBVIOUS
<1> USE DEF IInv
<1>0. /\ phase = "boot" /\ phase' \in {"ready", "failed"}
      /\ UNCHANGED threadVars
      /\ lock' = lock \/ lock' = 1
  BY DEF InitDriver, InitDriverFails, Give
<1>1. \A t \in Threads : pc[t] = "idle" /\ pc'[t] = "idle"
  BY <1>0 DEF BootInv, threadVars
<1>2. TypeOK'
  <2>1. lock' \in {0, 1} /\ faults' \in 0..MaxFaults
    BY <1>0, PcaAssumption DEF TypeOK, InitDriver, InitDriverFails, BusFails
  <2>2. /\ cacheOut' \subseteq Pins /\ cacheIn' \subseteq Pins
        /\ chipOut' \subseteq Pins /\ chipIn' \subseteq Pins
        /\ suspect' \subseteq 1..4
    <3>1. CASE InitDriver  BY <3>1 DEF InitDriver, TypeOK
    <3>2. CASE InitDriverFails
      BY <3>2 DEF InitDriverFails, TypeOK, Pins
    <3>3. QED  BY <3>1, <3>2
  <2>3. QED  BY <1>0, <2>1, <2>2 DEF TypeOK, threadVars
<1>3. MutexInv' /\ BootInv' /\ CallInv' /\ ChipInv'
  BY <1>0, <1>1 DEF MutexInv, BootInv, CallInv, ChipInv, Busy
<1>4. ChipFollowsDriver'
  <2>1. CASE InitDriver
    BY <2>1 DEF InitDriver, ChipFollowsDriver, Holds
  <2>2. CASE InitDriverFails
    BY <2>2 DEF InitDriverFails, ChipFollowsDriver, Holds
  <2>3. QED  BY <2>1, <2>2
<1>5. QED  BY <1>2, <1>3, <1>4

\* A call waits, and takes the semaphore when nobody has it.
LEMMA TakeStep ==
    ASSUME IInv, NEW t \in Threads, Call(t) \/ Take(t)
    PROVE  IInv'
<1> USE DEF IInv
<1>1. CASE Call(t)
  <2>1. TypeOK'  BY <1>1 DEF TypeOK, Call, cacheVars, chipVars
  <2>2. MutexInv' /\ BootInv'
    BY <1>1 DEF MutexInv, BootInv, Call, Busy, TypeOK
  <2>3. CallInv'
    BY <1>1 DEF CallInv, Call, TypeOK, cacheVars, Outputs, Inputs
  <2>4. ChipInv' /\ ChipFollowsDriver'
    BY <1>1 DEF ChipInv, ChipFollowsDriver, Call, TypeOK, cacheVars, chipVars,
                Holds
  <2>5. QED  BY <2>1, <2>2, <2>3, <2>4
<1>2. CASE Take(t)
  <2>0. PICK o \in Ops :
           /\ op' = [op EXCEPT ![t] = o]
           /\ newOut' = [newOut EXCEPT ![t] = Outputs(o)]
           /\ newIn' = [newIn EXCEPT ![t] = Inputs(o)]
           /\ pc' = [pc EXCEPT ![t] =
                         IF o.kind = "get" THEN "read" ELSE "write"]
    BY <1>2 DEF Take
  <2>1. /\ pc[t] = "wait" /\ lock = 1 /\ lock' = 0 /\ phase # "boot"
        /\ step' = [step EXCEPT ![t] = 1]
        /\ UNCHANGED <<phase, cacheOut, cacheIn, chipOut, chipIn, suspect,
                       faults>>
    BY <1>2 DEF Take, TypeOK, BootInv, cacheVars, chipVars
  <2>2. \A s \in Threads : ~Busy(s)
    BY <2>1 DEF MutexInv
  <2>3. /\ Outputs(o) \subseteq Pins /\ Inputs(o) \subseteq Pins
        /\ Last(o) \in {2, 4}
    BY AskedLemma DEF TypeOK
  <2>4. TypeOK'  BY <2>0, <2>1, <2>3 DEF TypeOK
  <2>5. \A s \in Threads : Busy(s)' => s = t
    BY <2>0, <2>2 DEF Busy, TypeOK
  <2>6. MutexInv' /\ BootInv'
    BY <2>1, <2>5 DEF MutexInv, BootInv
  <2>7. CallInv'
    <3> SUFFICES ASSUME NEW s \in Threads, pc'[s] = "write"
                 PROVE  /\ op'[s].kind # "get"
                        /\ step'[s] <= Last(op'[s])
                        /\ newOut'[s] = Outputs(op[s])'
                        /\ newIn'[s] = Inputs(op[s])'
      BY DEF CallInv
    <3>1. s = t  BY <2>5 DEF Busy
    <3>2. /\ op'[s] = o /\ newOut'[s] = Outputs(o) /\ newIn'[s] = Inputs(o)
          /\ step'[s] = 1 /\ o.kind # "get"
      BY <2>0, <2>1, <3>1 DEF TypeOK
    <3>3. Outputs(op[s])' = Outputs(o) /\ Inputs(op[s])' = Inputs(o)
      BY <2>1, <3>2 DEF Outputs, Inputs
    <3>4. QED  BY <2>3, <3>2, <3>3
  <2>8. \A r \in 1..4 \ suspect : Holds(r, cacheOut, cacheIn)
    BY <2>2 DEF ChipFollowsDriver, Busy
  <2>9. ChipInv' /\ ChipFollowsDriver'
    BY <2>0, <2>1, <2>5, <2>8 DEF ChipInv, ChipFollowsDriver, Busy, Holds,
                                  TypeOK
  <2>10. QED  BY <2>4, <2>6, <2>7, <2>9
<1>3. QED  BY <1>1, <1>2

\* The steps of a call that holds the semaphore.
LEMMA OperateStep ==
    ASSUME IInv, NEW t \in Threads, Operate(t)
    PROVE  IInv'
<1> USE DEF IInv
<1>0. Busy(t) /\ lock = 0 /\ \A s \in Threads : Busy(s) => s = t
  BY DEF Operate, WriteNext, WriteLast, WriteFails, ReadNext, ReadLast,
         ReadFails, MutexInv, Busy
<1>1. CASE ReadNext(t) \/ ReadLast(t) \/ ReadFails(t)
  <2>1. /\ pc[t] = "read"
        /\ UNCHANGED <<phase, cacheOut, cacheIn, chipOut, chipIn, suspect>>
        /\ \A s \in Threads : pc[s] # "write" /\ pc'[s] # "write"
    BY <1>0, <1>1 DEF ReadNext, ReadLast, ReadFails, Return, Busy, TypeOK,
                      cacheVars, chipVars
  <2>2. TypeOK'
    <3>1. CASE ReadNext(t)
      <4>1. step[t] + 1 \in 1..4  BY <3>1 DEF ReadNext, Last, TypeOK
      <4>2. QED  BY <2>1, <3>1, <4>1 DEF ReadNext, TypeOK
    <3>2. CASE ReadLast(t)
      BY <2>1, <3>2 DEF ReadLast, Return, Give, TypeOK, Ops
    <3>3. CASE ReadFails(t)
      BY <2>1, <3>3, PcaAssumption DEF ReadFails, Return, BusFails, TypeOK, Ops
    <3>4. QED  BY <1>1, <3>1, <3>2, <3>3
  <2>3. MutexInv' /\ BootInv'
    BY <1>0, <1>1, <2>1 DEF MutexInv, BootInv, Busy, ReadNext, ReadLast,
                            ReadFails, Return, TypeOK
  <2>4. CallInv' /\ ChipInv' /\ ChipFollowsDriver'
    BY <2>1 DEF CallInv, ChipInv, ChipFollowsDriver, Holds
  <2>5. QED  BY <2>2, <2>3, <2>4
<1>2. CASE WriteNext(t) \/ WriteLast(t) \/ WriteFails(t)
  <2> DEFINE r == step[t]
  <2>0. /\ pc[t] = "write" /\ phase # "boot"
        /\ \A s \in Threads \ {t} : ~Busy(s)
    BY <1>0, <1>2 DEF WriteNext, WriteLast, WriteFails, BootInv
  <2>1. /\ r \in 1..4 /\ Last(op[t]) \in {2, 4} /\ r <= Last(op[t])
        /\ newOut[t] = Outputs(op[t]) /\ newIn[t] = Inputs(op[t])
        /\ newOut[t] \subseteq Pins /\ newIn[t] \subseteq Pins
        /\ Last(op[t]) # 4 => newIn[t] = cacheIn
    BY <2>0, AskedLemma DEF CallInv, TypeOK
  <2>2. CASE WriteNext(t)
    <3>1. /\ WriteReg(r, newOut[t], newIn[t]) /\ r < Last(op[t])
          /\ step' = [step EXCEPT ![t] = r + 1]
          /\ UNCHANGED <<phase, lock, pc, op, newOut, newIn, cacheOut, cacheIn,
                         suspect, faults>>
      BY <2>2 DEF WriteNext, cacheVars
    <3>2. TypeOK'
      <4>1. r + 1 \in 1..4  BY <2>1, <3>1
      <4>2. chipOut' \subseteq Pins /\ chipIn' \subseteq Pins
        BY <2>1, <3>1, WriteLemma DEF TypeOK
      <4>3. QED  BY <3>1, <4>1, <4>2 DEF TypeOK
    <3>3. MutexInv' /\ BootInv'
      BY <3>1 DEF MutexInv, BootInv, Busy
    <3>4. CallInv'
      <4>1. Outputs(op[t])' = Outputs(op[t]) /\ Inputs(op[t])' = Inputs(op[t])
        BY <3>1 DEF Outputs, Inputs
      <4>2. step'[t] <= Last(op'[t])
        BY <2>1, <3>1 DEF TypeOK
      <4>3. QED  BY <2>0, <3>1, <4>1, <4>2 DEF CallInv, Busy
    <3>5. ChipInv'
      <4> SUFFICES ASSUME NEW q \in 1..4
                   PROVE  /\ q < r + 1 => Holds(q, newOut[t], newIn[t])'
                          /\ q >= r + 1 /\ q \notin suspect
                                => Holds(q, cacheOut, cacheIn)'
        BY <2>0, <3>1 DEF ChipInv, Busy, TypeOK
      <4>1. /\ q < r => Holds(q, newOut[t], newIn[t])
            /\ q >= r /\ q \notin suspect => Holds(q, cacheOut, cacheIn)
        BY <2>0 DEF ChipInv
      <4>2. QED  BY <2>1, <3>1, <4>1, WriteLemma DEF Holds
    <3>6. ChipFollowsDriver'
      BY <2>0, <3>1 DEF ChipFollowsDriver
    <3>7. QED  BY <3>2, <3>3, <3>4, <3>5, <3>6
  <2>3. CASE WriteLast(t)
    <3>1. /\ WriteReg(r, newOut[t], newIn[t]) /\ r = Last(op[t])
          /\ cacheOut' = newOut[t] /\ cacheIn' = newIn[t]
          /\ suspect' = suspect \ (1..r)
          /\ lock' = 1 /\ Return(t)
          /\ UNCHANGED <<phase, faults>>
      BY <2>3 DEF WriteLast, Give
    <3>2. TypeOK'
      <4>1. chipOut' \subseteq Pins /\ chipIn' \subseteq Pins
        BY <2>1, <3>1, WriteLemma DEF TypeOK
      <4>2. suspect' \subseteq 1..4 /\ lock' \in {0, 1}
        BY <2>1, <3>1 DEF TypeOK
      <4>3. QED  BY <2>1, <3>1, <4>1, <4>2, NoOpLemma DEF TypeOK, Return
    <3>3. \A s \in Threads : ~Busy(s)'
      BY <2>0, <3>1 DEF Busy, Return, TypeOK
    <3>4. MutexInv' /\ BootInv' /\ CallInv' /\ ChipInv'
      BY <2>0, <3>1, <3>3 DEF MutexInv, BootInv, CallInv, ChipInv, Busy
    <3>5. ChipFollowsDriver'
      <4> SUFFICES ASSUME NEW q \in 1..4, q \notin suspect \/ q <= r
                   PROVE  Holds(q, cacheOut, cacheIn)'
        BY <2>1, <3>1 DEF ChipFollowsDriver
      <4>1. /\ q < r => Holds(q, newOut[t], newIn[t])
            /\ q > r => Holds(q, cacheOut, cacheIn) /\ q \in {3, 4} /\ r = 2
        BY <2>0, <2>1, <3>1 DEF ChipInv
      <4>2. CASE q = r
        BY <2>1, <3>1, <4>2, WriteLemma DEF Holds
      <4>3. CASE q < r
        BY <2>1, <3>1, <4>1, <4>3, WriteLemma DEF Holds
      <4>4. CASE q > r
        BY <2>1, <3>1, <4>1, <4>4, WriteLemma DEF Holds
      <4>5. QED  BY <2>1, <4>2, <4>3, <4>4
    <3>6. QED  BY <3>2, <3>4, <3>5
  <2>4. CASE WriteFails(t)
    <3>1. /\ WriteReg(r, newOut[t], newIn[t]) \/ UNCHANGED <<chipOut, chipIn>>
          /\ suspect' = suspect \cup (1..r)
          /\ lock' = 1 /\ Return(t) /\ BusFails
          /\ UNCHANGED <<phase, cacheOut, cacheIn>>
      BY <2>4 DEF WriteFails, Give, cacheVars, chipVars
    <3>2. TypeOK'
      <4>1. chipOut' \subseteq Pins /\ chipIn' \subseteq Pins
        BY <2>1, <3>1, WriteLemma DEF TypeOK
      <4>2. faults' \in 0..MaxFaults
        BY <3>1, PcaAssumption DEF TypeOK, BusFails
      <4>3. suspect' \subseteq 1..4
        <5>1. 1..r \subseteq 1..4  BY <2>1
        <5>2. suspect \subseteq 1..4  BY DEF TypeOK
        <5>3. QED  BY <3>1, <5>1, <5>2
      <4>4. /\ pc' \in [Threads -> {"idle", "wait", "write", "read"}]
            /\ op' \in [Threads -> Ops]
            /\ step' \in [Threads -> 1..4]
            /\ newOut' \in [Threads -> SUBSET Pins]
            /\ newIn' \in [Threads -> SUBSET Pins]
        BY <3>1, NoOpLemma DEF TypeOK, Return
      <4>5. QED  BY <3>1, <4>1, <4>2, <4>3, <4>4 DEF TypeOK
    <3>3. \A s \in Threads : ~Busy(s)'
      BY <2>0, <3>1 DEF Busy, Return, TypeOK
    <3>4. MutexInv' /\ BootInv' /\ CallInv' /\ ChipInv'
      BY <2>0, <3>1, <3>3 DEF MutexInv, BootInv, CallInv, ChipInv, Busy
    <3>5. ChipFollowsDriver'
      <4> SUFFICES ASSUME NEW q \in 1..4, q \notin suspect, q > r
                   PROVE  Holds(q, cacheOut, cacheIn)'
        BY <2>1, <3>1 DEF ChipFollowsDriver
      <4>1. Holds(q, cacheOut, cacheIn)
        BY <2>0, <2>1 DEF ChipInv
      <4>2. QED  BY <2>1, <3>1, <4>1, WriteLemma DEF Holds
    <3>6. QED  BY <3>2, <3>4, <3>5
  <2>5. QED  BY <1>2, <2>2, <2>3, <2>4
<1>3. QED  BY <1>1, <1>2 DEF Operate

\* A restart forgets the calls, and trusts no register.
LEMMA RebootStep == IInv /\ Reboot => IInv'
<1> SUFFICES ASSUME IInv, Reboot PROVE IInv'  OBVIOUS
<1> USE DEF IInv, Reboot
<1>1. TypeOK'  BY DEF TypeOK, Ops, chipVars
<1>2. MutexInv' /\ BootInv' /\ CallInv' /\ ChipInv'
  BY DEF MutexInv, BootInv, CallInv, ChipInv, Busy
<1>3. ChipFollowsDriver'  BY DEF ChipFollowsDriver
<1>4. QED  BY <1>1, <1>2, <1>3

\* Nothing changes in a stuttering step.
LEMMA StutterStep == IInv /\ UNCHANGED vars => IInv'
<1> SUFFICES ASSUME IInv, UNCHANGED vars PROVE IInv'  OBVIOUS
<1> USE DEF IInv, vars, threadVars, cacheVars, chipVars
<1>1. TypeOK'  BY DEF TypeOK
<1>2. MutexInv' /\ BootInv'  BY DEF MutexInv, BootInv, Busy
<1>3. CallInv'  BY DEF CallInv, Outputs, Inputs
<1>4. ChipInv' /\ ChipFollowsDriver'
  BY DEF ChipInv, ChipFollowsDriver, Holds
<1>5. QED  BY <1>1, <1>2, <1>3, <1>4

\* IInv is an inductive invariant of the driver.
THEOREM PcaInvariance == Spec => []IInv
<1>1. IInv /\ [Next]_vars => IInv'
  BY InitDriverStep, TakeStep, OperateStep, RebootStep, StutterStep DEF Next
<1>2. QED  BY <1>1, InitLemma, PTL DEF Spec

-----------------------------------------------------------------------------
(* The properties.                                                         *)

\* Types, and the semaphore is never given twice.
THEOREM PcaTypeCorrect == Spec => []TypeOK
BY PcaInvariance, PTL DEF IInv

\* Between calls the chip holds what the driver recorded, up to what failed
\* calls left behind, across restarts and failed initialisations.
THEOREM PcaChipFollows == Spec => []ChipFollowsDriver
BY PcaInvariance, PTL DEF IInv

\* Of the steps of a ready or failed driver, only a call writes registers,
\* and only the end of a call that succeeds changes the copy.
LEMMA WriterLemma ==
    ASSUME IInv, Next, phase # "boot", phase' # "boot"
    PROVE  \/ UNCHANGED <<cacheOut, cacheIn, chipOut, chipIn>>
           \/ \E t \in Threads :
                 /\ pc[t] = "write" /\ op[t] \in Ops
                 /\ step[t] \in 1..4
                 /\ newOut[t] = Outputs(op[t]) /\ newIn[t] = Inputs(op[t])
                 /\ \A s \in Threads : pc[s] = "write" => s = t
                 /\ \/ WriteReg(step[t], newOut[t], newIn[t])
                    \/ UNCHANGED <<chipOut, chipIn>>
                 /\ \/ UNCHANGED <<cacheOut, cacheIn>>
                    \/ /\ pc'[t] = "idle"
                       /\ cacheOut' = newOut[t] /\ cacheIn' = newIn[t]
<1> USE DEF IInv
<1>1. ~InitDriver /\ ~InitDriverFails /\ ~Reboot
  BY DEF InitDriver, InitDriverFails, Reboot
<1>2. PICK t \in Threads : Call(t) \/ Take(t) \/ Operate(t)
  BY <1>1 DEF Next
<1>3. CASE Call(t) \/ Take(t)
  BY <1>3 DEF Call, Take, cacheVars, chipVars
<1>4. CASE ReadNext(t) \/ ReadLast(t) \/ ReadFails(t)
  BY <1>4 DEF ReadNext, ReadLast, ReadFails, cacheVars, chipVars
<1>5. CASE WriteNext(t) \/ WriteLast(t) \/ WriteFails(t)
  <2>1. /\ pc[t] = "write" /\ op[t] \in Ops /\ step[t] \in 1..4
        /\ newOut[t] = Outputs(op[t]) /\ newIn[t] = Inputs(op[t])
    BY <1>5 DEF WriteNext, WriteLast, WriteFails, CallInv, TypeOK
  <2>2. \A s \in Threads : pc[s] = "write" => s = t
    BY <2>1 DEF MutexInv, Busy
  <2>3. \/ WriteReg(step[t], newOut[t], newIn[t])
        \/ UNCHANGED <<chipOut, chipIn>>
    BY <1>5 DEF WriteNext, WriteLast, WriteFails, chipVars
  <2>4. \/ UNCHANGED <<cacheOut, cacheIn>>
        \/ /\ pc'[t] = "idle"
           /\ cacheOut' = newOut[t] /\ cacheIn' = newIn[t]
    BY <1>5 DEF WriteNext, WriteLast, WriteFails, cacheVars, Return, TypeOK
  <2>5. QED  BY <2>1, <2>2, <2>3, <2>4
<1>6. QED  BY <1>2, <1>3, <1>4, <1>5 DEF Operate

\* What is recorded of a pin is changed only by the end of a call that names
\* it: overlapping calls of any threads lose no update.
THEOREM PcaNoLostUpdate == Spec => NoLostUpdate
<1> DEFINE Kept ==
      phase = "boot" \/ phase' = "boot" \/
      \A p \in Flip(cacheOut, cacheOut') \cup Flip(cacheIn, cacheIn') :
         \E t \in Threads : pc[t] = "write" /\ pc'[t] = "idle"
                            /\ p \in Named(op[t])
<1>1. ASSUME IInv, Next PROVE Kept
  <2> SUFFICES ASSUME phase # "boot", phase' # "boot",
                      NEW p \in Flip(cacheOut, cacheOut')
                                 \cup Flip(cacheIn, cacheIn')
               PROVE  \E t \in Threads : pc[t] = "write" /\ pc'[t] = "idle"
                                          /\ p \in Named(op[t])
    OBVIOUS
  <2>1. ~UNCHANGED <<cacheOut, cacheIn>>
    BY DEF Flip
  <2>2. PICK t \in Threads :
           /\ pc[t] = "write" /\ pc'[t] = "idle" /\ op[t] \in Ops
           /\ cacheOut' = Outputs(op[t]) /\ cacheIn' = Inputs(op[t])
    BY <1>1, <2>1, WriterLemma
  <2>3. p \in Named(op[t])
    BY <1>1, <2>2, AskedLemma DEF IInv, TypeOK
  <2>4. QED  BY <2>2, <2>3
<1>2. IInv /\ [Next]_vars => [Kept]_vars
  BY <1>1
<1>3. QED
  BY PcaInvariance, <1>2, PTL DEF Spec, NoLostUpdate, Kept

\* A byte that is written where the chip held what the driver recorded
\* changes only pins the call names.
LEMMA ByteLemma ==
    ASSUME IInv, NEW t \in Threads, pc[t] = "write", op[t] \in Ops,
           step[t] \in 1..4, step[t] \notin suspect,
           newOut[t] = Outputs(op[t]), newIn[t] = Inputs(op[t]),
           WriteReg(step[t], newOut[t], newIn[t])
    PROVE  /\ Flip(chipOut, chipOut') \subseteq Named(op[t])
           /\ Flip(chipIn, chipIn') \subseteq Named(op[t])
<1> DEFINE r == step[t]
<1>1. Holds(r, cacheOut, cacheIn)
  BY DEF IInv, ChipInv
<1>2. /\ Flip(cacheOut, newOut[t]) \subseteq Named(op[t])
      /\ Flip(cacheIn, newIn[t]) \subseteq Named(op[t])
  BY AskedLemma DEF IInv, TypeOK
<1>3. CASE r \in {1, 2}
  BY <1>1, <1>2, <1>3 DEF Holds, WriteReg, Written, Flip
<1>4. CASE r \in {3, 4}
  BY <1>1, <1>2, <1>4 DEF Holds, WriteReg, Written, Flip
<1>5. QED  BY <1>3, <1>4

\* A write changes only the byte that is written.
LEMMA OneByteLemma ==
    ASSUME NEW r \in 1..4, NEW out, NEW in, WriteReg(r, out, in)
    PROVE  /\ \A p \in Flip(chipOut, chipOut') : r \in {1, 2} /\ p \in Byte(r)
           /\ \A p \in Flip(chipIn, chipIn') : r \in {3, 4} /\ p \in Byte(r)
BY DEF WriteReg, Written, Flip

\* No call disturbs a pin it does not name, but to repair what a failed call
\* left wrong.
THEOREM PcaNoGlitch == Spec => NoGlitch
<1> DEFINE Quiet ==
      phase = "boot" \/
      /\ \A p \in Flip(chipOut, chipOut') :
            \/ \E t \in Threads : pc[t] = "write" /\ p \in Named(op[t])
            \/ \E r \in suspect \cap {1, 2} : p \in Byte(r)
      /\ \A p \in Flip(chipIn, chipIn') :
            \/ \E t \in Threads : pc[t] = "write" /\ p \in Named(op[t])
            \/ \E r \in suspect \cap {3, 4} : p \in Byte(r)
<1>1. ASSUME IInv, Next PROVE Quiet
  <2>1. CASE UNCHANGED <<chipOut, chipIn>>
    BY <2>1 DEF Flip
  <2>2. CASE phase # "boot" /\ ~UNCHANGED <<chipOut, chipIn>>
    <3>1. phase' # "boot"
      BY <1>1, <2>2 DEF Next, Reboot, InitDriver, InitDriverFails, Call, Take,
         Operate, WriteNext, WriteLast, WriteFails, ReadNext, ReadLast,
         ReadFails, chipVars
    <3>2. PICK t \in Threads :
             /\ pc[t] = "write" /\ op[t] \in Ops /\ step[t] \in 1..4
             /\ newOut[t] = Outputs(op[t]) /\ newIn[t] = Inputs(op[t])
             /\ WriteReg(step[t], newOut[t], newIn[t])
      BY <1>1, <2>2, <3>1, WriterLemma
    <3>3. CASE step[t] \notin suspect
      BY <1>1, <3>2, <3>3, ByteLemma
    <3>4. CASE step[t] \in suspect
      BY <3>2, <3>4, OneByteLemma
    <3>5. QED  BY <3>3, <3>4
  <2>3. QED  BY <2>1, <2>2
<1>2. IInv /\ [Next]_vars => [Quiet]_vars
  BY <1>1
<1>3. QED
  BY PcaInvariance, <1>2, PTL DEF Spec, NoGlitch, Quiet

\* When a pin becomes an output the chip's output register already has the
\* level the call gives it.
THEOREM PcaLevelFirst == Spec => LevelBeforeDrive
<1> DEFINE Settled ==
      phase = "boot" \/
      \A p \in chipIn \ chipIn' : \A t \in Threads :
         pc[t] = "write" => (p \in chipOut <=> p \in newOut[t])
<1>1. ASSUME IInv, Next PROVE Settled
  <2> SUFFICES ASSUME phase # "boot", NEW p \in chipIn \ chipIn',
                      NEW t \in Threads, pc[t] = "write"
               PROVE  p \in chipOut <=> p \in newOut[t]
    OBVIOUS
  <2>1. phase' # "boot"
    BY <1>1 DEF Next, Reboot, InitDriver, InitDriverFails, Call, Take,
       Operate, WriteNext, WriteLast, WriteFails, ReadNext, ReadLast,
       ReadFails, chipVars
  <2>2. /\ step[t] \in 1..4
        /\ WriteReg(step[t], newOut[t], newIn[t])
    BY <1>1, <2>1, WriterLemma
  <2>3. step[t] \in {3, 4} /\ p \in Pins
    BY <1>1, <2>2, OneByteLemma DEF Flip, IInv, TypeOK
  <2>4. Holds(1, newOut[t], newIn[t]) /\ Holds(2, newOut[t], newIn[t])
    BY <1>1, <2>3 DEF IInv, ChipInv
  <2>5. QED  BY <2>3, <2>4 DEF Holds, Byte, Pins
<1>2. IInv /\ [Next]_vars => [Settled]_vars
  BY <1>1
<1>3. QED
  BY PcaInvariance, <1>2, PTL DEF Spec, LevelBeforeDrive, Settled

-----------------------------------------------------------------------------
(* Refinement of PinBank.                                                  *)

\* A thread that writes nothing has asked for nothing.
QuietInv == \A t \in Threads : pc[t] # "write" => op[t] = NoOp

LEMMA QuietInvariance == Spec => []QuietInv
<1>1. Init => QuietInv
  BY DEF Init, QuietInv
<1>2. IInv /\ QuietInv /\ [Next]_vars => QuietInv'
  <2> SUFFICES ASSUME IInv, QuietInv, [Next]_vars PROVE QuietInv'
    OBVIOUS
  <2> USE DEF QuietInv, IInv, TypeOK
  <2>1. CASE InitDriver \/ InitDriverFails
    BY <2>1 DEF InitDriver, InitDriverFails, threadVars
  <2>2. CASE Reboot
    BY <2>2 DEF Reboot
  <2>3. CASE UNCHANGED vars
    BY <2>3 DEF vars, threadVars
  <2>4. ASSUME NEW t \in Threads, Call(t)
        PROVE  QuietInv'
    BY <2>4 DEF Call
  <2>5. ASSUME NEW t \in Threads, Take(t)
        PROVE  QuietInv'
    <3>1. PICK o \in Ops :
             /\ op' = [op EXCEPT ![t] = o]
             /\ pc' = [pc EXCEPT ![t] =
                          IF o.kind = "get" THEN "read" ELSE "write"]
      BY <2>5 DEF Take
    <3>2. o.kind = "get" => o = NoOp
      BY DEF Ops, SetOps, ToggleOps, ConfigureOps
    <3>3. QED  BY <3>1, <3>2
  <2>6. ASSUME NEW t \in Threads, Operate(t)
        PROVE  QuietInv'
    <3>1. CASE WriteNext(t) \/ ReadNext(t)
      BY <3>1 DEF WriteNext, ReadNext
    <3>2. CASE WriteLast(t) \/ WriteFails(t) \/ ReadLast(t) \/ ReadFails(t)
      BY <3>2 DEF WriteLast, WriteFails, ReadLast, ReadFails, Return
    <3>3. QED  BY <2>6, <3>1, <3>2 DEF Operate
  <2>7. QED  BY <2>1, <2>2, <2>3, <2>4, <2>5, <2>6 DEF Next
<1>3. QED
  BY <1>1, <1>2, PcaInvariance, PTL DEF Spec

\* What a call computes from the copy is the effect it promises.
LEMMA EffectLemma ==
    ASSUME NEW o \in Ops, o.kind # "get", cacheOut \subseteq Pins,
           cacheOut' = Outputs(o), cacheIn' = Inputs(o)
    PROVE  Bank!SetPort(o) \/ Bank!ConfigurePin(o)
<1>1. CASE o \in SetOps \cup ToggleOps
  <2>1. /\ o.kind = "set"
        /\ o.mask \subseteq Pins /\ o.value \subseteq Pins
        /\ o.toggle \subseteq Pins
    BY <1>1 DEF SetOps, ToggleOps
  <2>2. cacheOut' =
          Flip((cacheOut \ o.mask) \cup (o.value \cap o.mask), o.toggle)
    BY <2>1 DEF Outputs
  <2>3. cacheIn' = cacheIn
    BY <2>1 DEF Inputs
  <2>4. QED  BY <2>1, <2>2, <2>3 DEF Bank!SetPort, Flip
<1>2. CASE o \in ConfigureOps
  BY <1>2 DEF ConfigureOps, Outputs, Inputs, Bank!ConfigurePin
<1>3. QED  BY <1>1, <1>2 DEF Ops, NoOp

\* Calls are atomic to their callers: for any threads, pins, failures and
\* restarts the driver implements PinBank.
THEOREM PcaAtomicCalls == Spec => AtomicCalls
<1>1. Init => Bank!BankInit
  BY DEF Init, Bank!BankInit
<1>2. IInv /\ QuietInv /\ [Next]_vars => [Bank!BankNext]_(Bank!bankVars)
  <2> SUFFICES ASSUME IInv, QuietInv, [Next]_vars
               PROVE  Bank!BankNext \/ UNCHANGED Bank!bankVars
    OBVIOUS
  <2> USE DEF IInv, TypeOK
  <2>1. CASE InitDriver \/ InitDriverFails
    <3>1. Bank!Start
      BY <2>1 DEF InitDriver, InitDriverFails, Bank!Start, threadVars
    <3>2. QED  BY <3>1 DEF Bank!BankNext
  <2>2. CASE Reboot
    <3>1. Bank!Restart  BY <2>2 DEF Reboot, Bank!Restart
    <3>2. QED  BY <3>1 DEF Bank!BankNext
  <2>3. CASE UNCHANGED vars
    BY <2>3 DEF vars, threadVars, cacheVars, Bank!bankVars
  <2>4. ASSUME NEW t \in Threads, Call(t)
        PROVE  UNCHANGED Bank!bankVars
    BY <2>4 DEF Call, cacheVars, Bank!bankVars
  <2>5. ASSUME NEW t \in Threads, Take(t)
        PROVE  Bank!Ask(t) \/ UNCHANGED Bank!bankVars
    <3>1. PICK o \in Ops : op' = [op EXCEPT ![t] = o]
      BY <2>5 DEF Take
    <3>2. pc[t] = "wait" /\ op[t] = NoOp /\ phase # "boot"
      BY <2>5 DEF Take, QuietInv, BootInv
    <3>3. UNCHANGED <<phase, cacheOut, cacheIn>>
      BY <2>5 DEF Take, cacheVars
    <3>4. CASE o = NoOp
      BY <3>1, <3>2, <3>3, <3>4 DEF Bank!bankVars
    <3>5. CASE o \in SetOps \cup ToggleOps \cup ConfigureOps
      BY <3>1, <3>2, <3>3, <3>5 DEF Bank!Ask
    <3>6. QED  BY <3>4, <3>5 DEF Ops
  <2>6. ASSUME NEW t \in Threads, WriteNext(t) \/ ReadNext(t)
        PROVE  UNCHANGED Bank!bankVars
    BY <2>6 DEF WriteNext, ReadNext, cacheVars, Bank!bankVars
  <2>7. ASSUME NEW t \in Threads, WriteLast(t)
        PROVE  Bank!Perform(t)
    <3>1. /\ pc[t] = "write" /\ op[t] \in Ops /\ op[t].kind # "get"
          /\ cacheOut' = Outputs(op[t]) /\ cacheIn' = Inputs(op[t])
      BY <2>7 DEF WriteLast, CallInv
    <3>2. Bank!SetPort(op[t]) \/ Bank!ConfigurePin(op[t])
      BY <3>1, EffectLemma
    <3>3. op[t] # NoOp
      BY <3>1 DEF NoOp
    <3>4. op' = [op EXCEPT ![t] = NoOp] /\ UNCHANGED phase
      BY <2>7 DEF WriteLast, Return
    <3>5. QED  BY <3>2, <3>3, <3>4 DEF Bank!Perform
  <2>8. ASSUME NEW t \in Threads, WriteFails(t)
        PROVE  Bank!Refuse(t)
    <3>1. pc[t] = "write" /\ op[t].kind # "get"
      BY <2>8 DEF WriteFails, CallInv
    <3>2. op[t] # NoOp
      BY <3>1 DEF NoOp
    <3>3. QED
      BY <2>8, <3>2 DEF WriteFails, Return, cacheVars, Bank!Refuse
  <2>9. ASSUME NEW t \in Threads, ReadLast(t) \/ ReadFails(t)
        PROVE  UNCHANGED Bank!bankVars
    <3>1. op[t] = NoOp
      BY <2>9 DEF ReadLast, ReadFails, QuietInv
    <3>2. op' = op
      BY <2>9, <3>1 DEF ReadLast, ReadFails, Return
    <3>3. QED
      BY <2>9, <3>2 DEF ReadLast, ReadFails, cacheVars, Bank!bankVars
  <2>10. QED
    BY <2>1, <2>2, <2>3, <2>4, <2>5, <2>6, <2>7, <2>8, <2>9
       DEF Next, Operate, Bank!BankNext
<1>3. QED
  BY <1>1, <1>2, PcaInvariance, QuietInvariance, PTL
     DEF Spec, AtomicCalls, Bank!BankSpec
=============================================================================
