----------------------------- MODULE EEIProofs -----------------------------
(***************************************************************************)
(* Proofs about EEI for every schedule, depth limit, account set and gas.  *)
(***************************************************************************)
EXTENDS EEI, SequenceTheorems, TLAPS

(***************************************************************************)
(* What the helpers return.                                                *)
(***************************************************************************)
\* Every entry of the gas schedule is a natural number.
LEMMA CostNat == \A field \in GasFields : Cost(field) \in Nat
  BY GasScheduleAssumption DEF Cost

\* A product of naturals is a natural.
LEMMA NatProduct == \A x, y \in Nat : x * y \in Nat
  OBVIOUS

\* The prices of the data-copying methods and of eeiLog are natural numbers.
LEMMA ChargeNat ==
  /\ \A base \in GasFields, length \in Nat : DataCopyCost(base, length) \in Nat
  /\ \A length, topics \in Nat : LogCost(length, topics) \in Nat
<1>1. ASSUME NEW base \in GasFields, NEW length \in Nat
      PROVE DataCopyCost(base, length) \in Nat
  <2>1. (length + 31) \div 32 \in Nat
    OBVIOUS
  <2>2. Cost("copy") \in Nat /\ Cost(base) \in Nat
    BY CostNat DEF GasFields
  <2>3. Cost("copy") * ((length + 31) \div 32) \in Nat
    BY <2>1, <2>2, NatProduct
  <2> QED BY <2>2, <2>3 DEF DataCopyCost
<1>2. ASSUME NEW length \in Nat, NEW topics \in Nat
      PROVE LogCost(length, topics) \in Nat
  <2>1. Cost("log") \in Nat /\ Cost("logTopic") \in Nat /\ Cost("logData") \in Nat
    BY CostNat DEF GasFields
  <2>2. Cost("logTopic") * topics \in Nat /\ Cost("logData") * length \in Nat
    BY <2>1, NatProduct
  <2> QED BY <2>1, <2>2 DEF LogCost
<1> QED BY <1>1, <1>2

\* maxCallGas never forwards more than there is.
LEMMA MaxCallGasBound == \A g \in Nat : maxCallGas(g) \in Nat /\ maxCallGas(g) <= g
<1> SUFFICES ASSUME NEW g \in Nat
             PROVE  maxCallGas(g) \in Nat /\ maxCallGas(g) <= g
  OBVIOUS
<1>1. g \div GasRetention \in Nat /\ g \div GasRetention <= g
  BY ConstantsAssumption
<1> QED BY <1>1 DEF maxCallGas

\* The world after a transfer or a store is a world.
LEMMA TransferWorld ==
  \A w \in World, from, to \in Accounts, value \in Nat :
    value <= w.balance[from] => Transfer(w, from, to, value) \in World
<1> SUFFICES ASSUME NEW w \in World, NEW from \in Accounts, NEW to \in Accounts,
                    NEW value \in Nat, value <= w.balance[from]
             PROVE  Transfer(w, from, to, value) \in World
  OBVIOUS
<1> DEFINE nb == [a \in Accounts |->
               IF from = to THEN w.balance[a]
               ELSE IF a = from THEN w.balance[a] - value
               ELSE IF a = to THEN w.balance[a] + value
               ELSE w.balance[a]]
<1>1. w.balance \in [Accounts -> Nat]
  BY DEF World
<1>2. \A a \in Accounts : w.balance[a] \in Nat
  BY <1>1
<1>3. nb \in [Accounts -> Nat]
  BY <1>2
<1>4. w.exists \union {to} \in SUBSET Accounts
  BY DEF World
<1> HIDE DEF nb
<1>5. [w EXCEPT !.balance = nb, !.exists = w.exists \union {to}] \in World
  BY <1>3, <1>4 DEF World
<1> QED BY <1>5 DEF Transfer, nb

\* What CanPay guarantees about the gas left.
LEMMA GasAfterBound ==
  ASSUME TypeOK, NEW c \in Nat, CanPay(c)
  PROVE  GasAfter(c) \in Nat /\ GasAfter(c) <= cur.gas
  BY DEF TypeOK, Frame, CanPay, GasAfter

(***************************************************************************)
(* The three shapes a step can have.                                       *)
(***************************************************************************)
\* A step of the running frame that neither suspends nor ends it.
LocalStep ==
  /\ UNCHANGED <<callers, result>>
  /\ cur' \in Frame
  /\ world' \in World
  /\ cur'.static = cur.static /\ cur'.depth = cur.depth
  /\ cur'.start = cur.start /\ cur'.credit = cur.credit /\ cur'.snap = cur.snap
  /\ cur'.gas <= cur.gas
  /\ cur.static => world' = world

\* A step that suspends the running frame and starts a callee.
EnterStep ==
  /\ UNCHANGED result
  /\ cur' \in Frame
  /\ world' \in World
  /\ cur'.gas = cur'.start /\ cur'.credit = 0 /\ cur'.snap = world
  /\ cur.depth < MaxDepth /\ cur'.depth = cur.depth + 1
  /\ cur.static => cur'.static
  /\ cur'.static => world' = world
  /\ \E left, unpaid \in Nat :
       /\ callers' = Append(callers, [cur EXCEPT !.gas = left, !.credit = cur.credit + unpaid])
       /\ left + cur'.start <= cur.gas + unpaid

\* Raising an exception is a local step.
LEMMA ThrowLocal ==
  ASSUME TypeOK, NEW exc \in Exceptions, Throw(exc)
  PROVE  LocalStep
  BY DEF TypeOK, Throw, LocalStep, Frame

\* So is a failed check of a method.
LEMMA RaiseLocal ==
  ASSUME TypeOK, NEW checks, \A i \in DOMAIN checks : checks[i].exc \in Exceptions,
         Raise(checks)
  PROVE  LocalStep
<1>1. PICK i \in DOMAIN checks : Throw(checks[i].exc)
  BY DEF Raise
<1> QED BY <1>1, ThrowLocal

\* A method that only charges is a local step.
LEMMA ChargedLocal ==
  ASSUME TypeOK, NEW c \in Nat, CanPay(c), Charged(c)
  PROVE  LocalStep
<1>1. GasAfter(c) \in Nat /\ GasAfter(c) <= cur.gas
  BY GasAfterBound
<1> QED BY <1>1 DEF TypeOK, Charged, LocalStep, Frame

\* So is an early return of a call.
LEMMA ReturnOneLocal ==
  ASSUME TypeOK, NEW c \in Nat, CanPay(c), ReturnOne(c)
  PROVE  LocalStep
<1>1. GasAfter(c) \in Nat /\ GasAfter(c) <= cur.gas
  BY GasAfterBound
<1>2. cur \in Frame /\ cur' = [cur EXCEPT !.gas = GasAfter(c), !.rc = 1]
  BY DEF TypeOK, ReturnOne
<1>3. 1 \in 0..2
  OBVIOUS
<1>4. cur' \in Frame
  BY <1>1, <1>2, <1>3 DEF Frame
<1> QED BY <1>1, <1>2, <1>4 DEF TypeOK, ReturnOne, LocalStep, Frame

\* useGas.
LEMMA UseGasLocal ==
  ASSUME TypeOK, NEW gas \in Int, eeiUseGas(gas)
  PROVE  LocalStep
<1> DEFINE checks == UseGasChecks(gas)
<1>1. \A i \in DOMAIN checks : checks[i].exc \in Exceptions
  BY DEF UseGasChecks, Check, Exceptions
<1>2. CASE Raise(checks)
  BY <1>1, <1>2, RaiseLocal
<1>3. CASE /\ AllHold(checks)
           /\ cur' = [cur EXCEPT !.gas = cur.gas - gas]
           /\ UNCHANGED <<callers, world, result>>
  <2>0. checks[1].ok /\ checks[2].ok
    BY <1>3 DEF AllHold, UseGasChecks, Check
  <2>1. gas >= 0 /\ gas <= cur.gas
    BY <2>0 DEF UseGasChecks, Check
  <2>2. cur.gas - gas \in Nat /\ cur.gas - gas <= cur.gas
    BY <2>1 DEF TypeOK, Frame
  <2> QED BY <1>3, <2>2 DEF TypeOK, LocalStep, Frame
<1> QED BY <1>2, <1>3 DEF eeiUseGas

\* The getters.
LEMMA GetLocal ==
  ASSUME TypeOK, NEW field \in GasFields, NEW mem \in BOOLEAN, eeiGet(field, mem)
  PROVE  LocalStep
<1> DEFINE checks == << Check(CanPay(Cost(field)), "OutOfGas"),
                        Check(mem, "InvalidMemoryAccess") >>
<1>1. \A i \in DOMAIN checks : checks[i].exc \in Exceptions
  BY DEF Check, Exceptions
<1>2. CASE Raise(checks)
  BY <1>1, <1>2, RaiseLocal
<1>3. CASE AllHold(checks) /\ Charged(Cost(field))
  <2>1. CanPay(Cost(field))
    BY <1>3 DEF AllHold, Check
  <2> QED BY <1>3, <2>1, CostNat, ChargedLocal
<1> QED BY <1>2, <1>3 DEF eeiGet

\* The data-copying methods.
LEMMA CopyLocal ==
  ASSUME TypeOK, NEW base \in GasFields, NEW length \in Nat, NEW src \in BOOLEAN,
         NEW mem \in BOOLEAN, eeiCopy(base, length, src, mem)
  PROVE  LocalStep
<1> DEFINE c == DataCopyCost(base, length)
<1> DEFINE checks == << Check(CanPay(c), "OutOfGas"),
                        Check(src, "InvalidMemoryAccess"),
                        Check(mem, "InvalidMemoryAccess") >>
<1>1. \A i \in DOMAIN checks : checks[i].exc \in Exceptions
  BY DEF Check, Exceptions
<1>2. CASE Raise(checks)
  BY <1>1, <1>2, RaiseLocal
<1>3. CASE AllHold(checks) /\ Charged(c)
  <2>1. CanPay(c)
    BY <1>3 DEF AllHold, Check
  <2>2. c \in Nat
    BY ChargeNat
  <2> HIDE DEF c
  <2> QED BY <1>3, <2>1, <2>2, ChargedLocal
<1> QED BY <1>2, <1>3 DEF eeiCopy

\* storageStore.
LEMMA StorageStoreLocal ==
  ASSUME TypeOK, NEW key \in Keys, NEW word \in Word, NEW mem \in BOOLEAN,
         eeiStorageStore(key, word, mem)
  PROVE  LocalStep
<1> DEFINE create == world.storage[cur.dest][key] = 0 /\ word # 0
           c == Cost("storageStoreChange")
                + IF create THEN Cost("storageStoreCreate") - Cost("storageStoreChange")
                  ELSE 0
           checks == << Check(CanPay(Cost("storageStoreChange")), "OutOfGas"),
                        Check(~cur.static, "StaticModeViolation"),
                        Check(mem, "InvalidMemoryAccess"),
                        Check(CanPay(c), "OutOfGas") >>
<1>1. \A i \in DOMAIN checks : checks[i].exc \in Exceptions
  BY DEF Check, Exceptions
<1>2. CASE Raise(checks)
  BY <1>1, <1>2, RaiseLocal
<1>3. CASE /\ AllHold(checks)
           /\ cur' = [cur EXCEPT !.gas = GasAfter(c)]
           /\ world' = [world EXCEPT !.storage[cur.dest][key] = word]
           /\ UNCHANGED <<callers, result>>
  <2>1. checks[2].ok /\ checks[4].ok
    BY <1>3 DEF AllHold, Check
  <2>2. ~cur.static /\ CanPay(c)
    BY <2>1 DEF Check
  <2>3. c \in Nat
    <3>1. Cost("storageStoreChange") \in Nat /\ Cost("storageStoreCreate") \in Nat
      BY CostNat DEF GasFields
    <3>2. Cost("storageStoreCreate") >= Cost("storageStoreChange")
      BY GasScheduleAssumption DEF Cost
    <3> QED BY <3>1, <3>2
  <2> HIDE DEF c
  <2>4. GasAfter(c) \in Nat /\ GasAfter(c) <= cur.gas
    BY <2>2, <2>3, GasAfterBound
  <2>5. world' \in World
    BY <1>3 DEF TypeOK, World, Frame
  <2> QED BY <1>3, <2>2, <2>4, <2>5 DEF TypeOK, LocalStep, Frame
<1> QED BY <1>2, <1>3 DEF eeiStorageStore

\* log.
LEMMA LogLocal ==
  ASSUME TypeOK, NEW length \in Nat, NEW topics \in Nat, NEW mem \in BOOLEAN,
         eeiLog(length, topics, mem)
  PROVE  LocalStep
<1> DEFINE c == LogCost(length, topics)
           checks == LogChecks(c, topics, mem)
<1>1. \A i \in DOMAIN checks : checks[i].exc \in Exceptions
  BY DEF Check, Exceptions, LogChecks
<1>2. CASE Raise(checks)
  BY <1>1, <1>2, RaiseLocal
<1>3. CASE /\ AllHold(checks)
           /\ cur' = [cur EXCEPT !.gas = GasAfter(c)]
           /\ world' = [world EXCEPT !.marks = @ \union {"log"}]
           /\ UNCHANGED <<callers, result>>
  <2>1. checks[1].ok /\ checks[2].ok
    BY <1>3 DEF AllHold, Check, LogChecks
  <2>2. ~cur.static /\ CanPay(c)
    BY <2>1 DEF Check, LogChecks
  <2>3. c \in Nat
    BY ChargeNat
  <2> HIDE DEF c
  <2>4. GasAfter(c) \in Nat /\ GasAfter(c) <= cur.gas
    BY <2>2, <2>3, GasAfterBound
  <2>5. world' \in World
    BY <1>3 DEF TypeOK, World
  <2> QED BY <1>3, <2>2, <2>4, <2>5 DEF TypeOK, LocalStep, Frame
<1> QED BY <1>2, <1>3 DEF eeiLog

\* selfDestruct.
LEMMA SelfDestructLocal ==
  ASSUME TypeOK, NEW heir \in Accounts, NEW mem \in BOOLEAN, eeiSelfDestruct(heir, mem)
  PROVE  LocalStep
<1> DEFINE c == Cost("selfdestruct")
                + IF heir \in world.exists THEN 0 ELSE Cost("callNewAccount")
           checks == << Check(CanPay(Cost("selfdestruct")), "OutOfGas"),
                        Check(~cur.static, "StaticModeViolation"),
                        Check(mem, "InvalidMemoryAccess"),
                        Check(CanPay(c), "OutOfGas") >>
           nb == [a \in Accounts |->
                    IF a = cur.dest THEN 0
                    ELSE IF a = heir THEN world.balance[a] + world.balance[cur.dest]
                    ELSE world.balance[a]]
<1>1. \A i \in DOMAIN checks : checks[i].exc \in Exceptions
  BY DEF Check, Exceptions
<1>2. CASE Raise(checks)
  BY <1>1, <1>2, RaiseLocal
<1>3. CASE /\ AllHold(checks)
           /\ cur' = [cur EXCEPT !.gas = GasAfter(c), !.exc = "EndExecution"]
           /\ world' = [world EXCEPT !.balance = nb, !.exists = @ \union {heir},
                                     !.marks = @ \union {"selfdestruct"}]
           /\ UNCHANGED <<callers, result>>
  <2>1. checks[2].ok /\ checks[4].ok
    BY <1>3 DEF AllHold, Check
  <2>2. ~cur.static /\ CanPay(c)
    BY <2>1 DEF Check
  <2>3. c \in Nat
    <3>1. Cost("selfdestruct") \in Nat /\ Cost("callNewAccount") \in Nat
      BY CostNat DEF GasFields
    <3> QED BY <3>1
  <2> HIDE DEF c
  <2>4. GasAfter(c) \in Nat /\ GasAfter(c) <= cur.gas
    BY <2>2, <2>3, GasAfterBound
  <2>5. world.balance \in [Accounts -> Nat] /\ cur.dest \in Accounts
    BY DEF TypeOK, World, Frame
  <2>6. nb \in [Accounts -> Nat]
    BY <2>5
  <2> HIDE DEF nb
  <2>7. world' \in World
    BY <1>3, <2>6 DEF TypeOK, World
  <2>8. cur' \in Frame
    BY <1>3, <2>4 DEF TypeOK, Frame, Exceptions
  <2> QED BY <1>3, <2>2, <2>4, <2>7, <2>8 DEF TypeOK, LocalStep, Frame
<1> QED BY <1>2, <1>3 DEF eeiSelfDestruct

\* The ways a frame's execution ends.
LEMMA FinishLocal ==
  ASSUME TypeOK, Finish \/ RefuseDeployed
  PROVE  LocalStep
<1>1. ASSUME NEW revert \in BOOLEAN, NEW mem \in BOOLEAN, NEW size \in Lengths,
             eeiRevertOrFinish(revert, size, mem)
      PROVE  LocalStep
  <2>1. CASE Throw("InvalidMemoryAccess")
    BY <2>1, ThrowLocal DEF Exceptions
  <2>2. CASE /\ cur' = [cur EXCEPT !.out = size, !.revert = revert, !.exc = "EndExecution"]
             /\ UNCHANGED <<callers, world, result>>
    <3>1. size \in Nat
      BY ConstantsAssumption
    <3>2. cur' \in Frame
      BY <2>2, <3>1 DEF TypeOK, Frame, Exceptions
    <3> QED BY <2>2, <3>2 DEF TypeOK, LocalStep, Frame
  <2> QED BY <1>1, <2>1, <2>2 DEF eeiRevertOrFinish
<1>2. CASE Leave \/ Trap \/ RefuseDeployed
  BY <1>2, ThrowLocal DEF Leave, Trap, RefuseDeployed, Exceptions
<1> QED BY <1>1, <1>2 DEF Finish

\* Starting a callee, when the caller's gas covers what the callee is given.
LEMMA EnterShape ==
  ASSUME TypeOK, cur.depth < MaxDepth,
         NEW kind \in CallKinds \union {"Create"}, NEW static \in BOOLEAN,
         NEW dest \in Accounts, NEW value \in Word, NEW w \in World,
         NEW charge \in Nat, NEW forward \in Nat, NEW given \in Nat, NEW unpaid \in Nat,
         CanPay(charge + forward),
         GasAfter(charge + forward) + given <= cur.gas + unpaid,
         cur.static => static, static => w = world,
         Enter(kind, static, dest, value, w, charge, forward, given, unpaid)
  PROVE  EnterStep
<1> DEFINE left == GasAfter(charge + forward)
<1>1. left \in Nat
  BY GasAfterBound
<1>2. PICK meter \in MeterModes :
        cur' = NewFrame(kind, static, cur.depth + 1, dest, value, given, meter, world)
  BY DEF Enter
<1>3. meter \in BOOLEAN
  BY ConstantsAssumption
<1>4. cur.depth + 1 \in 0..MaxDepth
  BY ConstantsAssumption DEF TypeOK, Frame
<1>5. 0 \in 0..2 /\ world \in World
  BY DEF TypeOK
<1>6. cur' \in Frame
  BY <1>2, <1>3, <1>4, <1>5 DEF Frame, NewFrame
<1>7. /\ cur'.gas = given /\ cur'.start = given /\ cur'.credit = 0 /\ cur'.snap = world
      /\ cur'.depth = cur.depth + 1 /\ cur'.static = static
  BY <1>2 DEF NewFrame
<1>8. /\ callers' = Append(callers, [cur EXCEPT !.gas = left, !.credit = cur.credit + unpaid])
      /\ world' = w /\ result' = result
  BY DEF Enter
<1> HIDE DEF left
<1>9. left + cur'.start <= cur.gas + unpaid
  BY <1>7 DEF left
<1> QED BY <1>1, <1>6, <1>7, <1>8, <1>9 DEF EnterStep

\* create.
LEMMA CreateShape ==
  ASSUME TypeOK, NEW word \in Word, NEW mem \in BOOLEAN, NEW code \in BOOLEAN,
         eeiCreate(word, mem, code)
  PROVE  LocalStep \/ EnterStep
<1> DEFINE c == Cost("create")
           early == << Check(CanPay(Cost("create")), "OutOfGas"),
                       Check(~cur.static, "StaticModeViolation"),
                       Check(mem, "InvalidMemoryAccess") >>
           fwd == maxCallGas(GasAfter(Cost("create")))
<1>1. \A i \in DOMAIN early : early[i].exc \in Exceptions
  BY DEF Check, Exceptions
<1>2. c \in Nat
  BY CostNat DEF GasFields
<1>3. CASE Raise(early)
  BY <1>1, <1>3, RaiseLocal
<1>4. CASE Throw("InvalidMemoryAccess")
  BY <1>4, ThrowLocal DEF Exceptions
<1>5. ASSUME AllHold(early)
      PROVE  CanPay(c) /\ ~cur.static
  <2>1. early[1].ok /\ early[2].ok
    BY <1>5 DEF AllHold, Check
  <2> QED BY <2>1 DEF Check
<1>6. CASE AllHold(early) /\ ReturnOne(c)
  BY <1>2, <1>5, <1>6, ReturnOneLocal
<1>7. ASSUME AllHold(early), ~TooDeep, world.balance[cur.dest] >= word,
             NEW a \in Accounts \ world.exists,
             Enter("Create", FALSE, a, word, Transfer(world, cur.dest, a, word),
                   c, fwd, fwd, IF cur.meter THEN 0 ELSE fwd)
      PROVE  EnterStep
  <2>1. CanPay(c) /\ ~cur.static
    BY <1>5, <1>7
  <2>2. GasAfter(c) \in Nat
    BY <1>2, <2>1, GasAfterBound
  <2>3. fwd \in Nat /\ fwd <= GasAfter(c)
    BY <2>2, MaxCallGasBound
  <2>4. cur.gas \in Nat /\ cur.meter \in BOOLEAN /\ cur.depth < MaxDepth
    BY <1>7, ConstantsAssumption DEF TypeOK, Frame, TooDeep
  <2>5. world \in World /\ cur.dest \in Accounts /\ word \in Nat
    BY DEF TypeOK, Frame, Word
  <2>6. Transfer(world, cur.dest, a, word) \in World
    BY <1>7, <2>5, TransferWorld
  <2> DEFINE unpaid == IF cur.meter THEN 0 ELSE fwd
  <2> HIDE DEF c, fwd
  <2>7. unpaid \in Nat /\ CanPay(c + fwd)
    BY <1>2, <2>1, <2>3, <2>4 DEF CanPay, GasAfter
  <2>8. GasAfter(c + fwd) + fwd <= cur.gas + unpaid
    BY <1>2, <2>1, <2>3, <2>4 DEF CanPay, GasAfter
  <2> HIDE DEF unpaid
  <2>9. Enter("Create", FALSE, a, word, Transfer(world, cur.dest, a, word), c, fwd, fwd, unpaid)
    BY <1>7 DEF unpaid
  <2> QED BY <1>2, <2>1, <2>3, <2>4, <2>6, <2>7, <2>8, <2>9, EnterShape
<1>8. world.balance[cur.dest] \in Nat /\ word \in Nat
  BY DEF TypeOK, World, Frame, Word
<1> DEFINE blocked == TooDeep \/ world.balance[cur.dest] < word
           Start(a) == Enter("Create", FALSE, a, word, Transfer(world, cur.dest, a, word),
                             c, fwd, fwd, IF cur.meter THEN 0 ELSE fwd)
<1>9. CASE AllHold(early) /\ ~blocked /\ \E a \in Accounts \ world.exists : Start(a)
  <2>1. ~TooDeep /\ world.balance[cur.dest] >= word
    BY <1>8, <1>9
  <2>2. PICK a \in Accounts \ world.exists : Start(a)
    BY <1>9
  <2> QED BY <1>7, <1>9, <2>1, <2>2
<1>10. \/ Raise(early)
       \/ AllHold(early) /\ ReturnOne(c)
       \/ Throw("InvalidMemoryAccess")
       \/ AllHold(early) /\ ~blocked /\ \E a \in Accounts \ world.exists : Start(a)
  BY Zenon DEF eeiCreate
<1> QED BY <1>3, <1>4, <1>6, <1>9, <1>10

\* What eeiCall charges before it forwards gas; a call that transfers value
\* has paid for the stipend.
LEMMA CallCost ==
  ASSUME NEW kind \in CallKinds, NEW to \in Accounts, NEW word \in Word
  PROVE  /\ TransferCost(kind, word) \in Nat
         /\ AccountCost(kind, to, word) \in Nat
         /\ Transfers(kind, word) => Cost("valueStipend") <= AccountCost(kind, to, word)
<1>1. /\ Cost("call") \in Nat /\ Cost("valuetransfer") \in Nat
      /\ Cost("callNewAccount") \in Nat /\ Cost("valueStipend") \in Nat
  BY CostNat DEF GasFields
<1>2. Cost("valueStipend") <= Cost("valuetransfer")
  BY GasScheduleAssumption DEF Cost
<1>3. /\ TransferCost(kind, word) \in Nat
      /\ Transfers(kind, word) => Cost("valueStipend") <= TransferCost(kind, word)
  BY <1>1, <1>2 DEF TransferCost
<1> QED BY <1>1, <1>3 DEF AccountCost

\* The value of the message eeiCall builds.
LEMMA CallValue ==
  ASSUME TypeOK, NEW kind \in CallKinds, NEW word \in Word
  PROVE  /\ MessageValue(kind, word) \in Word
         /\ Stipend(kind, word) \in Nat
         /\ kind = "CallStatic" => Stipend(kind, word) = 0
         /\ kind # "CallDelegate" /\ Stipend(kind, word) # 0 => Transfers(kind, word)
         /\ Stipend(kind, word) <= Cost("valueStipend")
<1>1. Cost("valueStipend") \in Nat
  BY CostNat DEF GasFields
<1>2. 0 \in Word /\ cur.value \in Word
  BY ConstantsAssumption DEF Word, TypeOK, Frame
<1>3. CASE kind \in {"Call", "CallCode"}
  BY <1>1, <1>2, <1>3 DEF MessageValue, Stipend, Transfers
<1>4. CASE kind = "CallDelegate"
  BY <1>1, <1>2, <1>4 DEF MessageValue, Stipend, Transfers
<1>5. CASE kind = "CallStatic"
  BY <1>1, <1>2, <1>5 DEF MessageValue, Stipend, Transfers
<1> QED BY <1>3, <1>4, <1>5 DEF CallKinds

\* call, callCode, callDelegate, callStatic.
LEMMA CallShape ==
  ASSUME TypeOK, NEW kind \in CallKinds, NEW gas \in Int, NEW to \in Accounts,
         NEW word \in Word, NEW mem \in BOOLEAN, NEW data \in BOOLEAN,
         eeiCall(kind, gas, to, word, mem, data)
  PROVE  LocalStep \/ EnterStep
<1> DEFINE checks == CallChecks(kind, gas, word, mem, data)
           surcharged == TransferCost(kind, word)
           c == AccountCost(kind, to, word)
           fwd == Forwarded(gas, c)
           given == fwd + Stipend(kind, word)
           unpaid == UnpaidGas(kind, word, given)
           dest == IF kind \in {"Call", "CallStatic"} THEN to ELSE cur.dest
           w == IF Transfers(kind, word) /\ kind = "Call"
                THEN Transfer(world, cur.dest, to, word) ELSE world
           poor == Transfers(kind, word) /\ world.balance[cur.dest] < word
           Start == Enter(kind, CalleeStatic(kind), dest, MessageValue(kind, word), w,
                          c, fwd, given, unpaid)
<1>1. \A i \in DOMAIN checks : checks[i].exc \in Exceptions
  BY DEF CallChecks, Check, Exceptions
<1>2. ASSUME AllHold(checks)
      PROVE  /\ gas >= 0 /\ CanPay(Cost("call"))
             /\ ~(kind = "Call" /\ word # 0 /\ cur.static)
  <2>1. checks[1].ok /\ checks[3].ok /\ checks[5].ok
    BY <1>2 DEF AllHold, CallChecks, Check
  <2> QED BY <2>1 DEF CallChecks, Check
<1>3. c \in Nat /\ surcharged \in Nat /\ Cost("call") \in Nat
  BY CallCost, CostNat DEF GasFields
<1>4. CASE Raise(checks)
  BY <1>1, <1>4, RaiseLocal
<1>5. CASE Throw("OutOfGas")
  BY <1>5, ThrowLocal DEF Exceptions
<1>6. CASE AllHold(checks) /\ ReturnOne(Cost("call"))
  BY <1>2, <1>3, <1>6, ReturnOneLocal
<1>7. CASE CanPay(surcharged) /\ ReturnOne(surcharged)
  <2> HIDE DEF surcharged
  <2> QED BY <1>3, <1>7, ReturnOneLocal
<1>8. CASE AllHold(checks) /\ ~TooDeep /\ ~poor /\ CanPay(c) /\ Start
  <2>1. /\ cur.gas \in Nat /\ cur.meter \in BOOLEAN /\ cur.depth < MaxDepth
        /\ cur.dest \in Accounts /\ world \in World /\ cur.static \in BOOLEAN
    BY <1>8, ConstantsAssumption DEF TypeOK, Frame, TooDeep
  <2>2. GasAfter(c) \in Nat
    BY <1>3, <1>8, GasAfterBound
  <2>3. fwd \in Nat /\ fwd <= GasAfter(c)
    BY <1>2, <1>8, <2>2, MaxCallGasBound DEF Forwarded
  <2>4. dest \in Accounts /\ CalleeStatic(kind) \in BOOLEAN
    BY <2>1 DEF CalleeStatic
  <2>5. w \in World
    <3>1. world.balance[cur.dest] \in Nat /\ word \in Nat
      BY <2>1 DEF World, Word
    <3>2. Transfers(kind, word) => word <= world.balance[cur.dest]
      BY <1>8, <3>1
    <3> QED BY <2>1, <3>1, <3>2, TransferWorld
  <2>6. CalleeStatic(kind) => w = world
    BY <1>2, <1>8 DEF CalleeStatic, Transfers
  <2>7. Stipend(kind, word) \in Nat /\ MessageValue(kind, word) \in Word
    BY CallValue
  <2>8. given \in Nat
    BY <2>3, <2>7
  <2>9. CanPay(c + fwd)
    BY <1>3, <1>8, <2>1, <2>3 DEF CanPay, GasAfter
  <2>10. unpaid \in Nat /\ GasAfter(c + fwd) + given <= cur.gas + unpaid
    <3> HIDE DEF c, fwd
    <3>1. CASE ~cur.meter
      BY <2>1, <2>3, <2>8, <3>1 DEF UnpaidGas, GasAfter
    <3>2. CASE cur.meter /\ kind = "CallDelegate"
      BY <1>3, <2>1, <2>3, <2>7, <3>2 DEF UnpaidGas, GasAfter
    <3>3. CASE cur.meter /\ kind # "CallDelegate"
      <4>1. Stipend(kind, word) <= c
        <5>1. Cost("valueStipend") \in Nat
          BY CostNat DEF GasFields
        <5> QED BY <1>3, <2>7, <3>3, <5>1, CallCost, CallValue DEF c
      <4> QED BY <1>3, <2>1, <2>3, <2>7, <3>3, <4>1 DEF UnpaidGas, GasAfter
    <3> QED BY <2>1, <3>1, <3>2, <3>3
  <2>11. cur.static => CalleeStatic(kind)
    BY DEF CalleeStatic
  <2>12. Start /\ kind \in CallKinds \union {"Create"}
    BY <1>8
  <2> HIDE DEF c, fwd, given, unpaid, dest, w
  <2> QED BY <1>3, <2>1, <2>3, <2>4, <2>5, <2>6, <2>7, <2>8, <2>9, <2>10, <2>11, <2>12, EnterShape
<1>9. \/ Raise(checks)
      \/ AllHold(checks) /\ ReturnOne(Cost("call"))
      \/ Throw("OutOfGas")
      \/ CanPay(surcharged) /\ ReturnOne(surcharged)
      \/ AllHold(checks) /\ ~TooDeep /\ ~poor /\ CanPay(c) /\ Start
  BY Zenon DEF eeiCall
<1> QED BY <1>4, <1>5, <1>6, <1>7, <1>8, <1>9

(***************************************************************************)
(* The end of a frame.                                                     *)
(***************************************************************************)
\* A step that ends the running frame and resumes its caller.
ResumeStep ==
  LET n == Len(callers) IN
  /\ callers # << >>
  /\ callers' = SubSeq(callers, 1, n - 1)
  /\ UNCHANGED result
  /\ cur' \in Frame
  /\ cur'.static = callers[n].static /\ cur'.depth = callers[n].depth
  /\ cur'.start = callers[n].start /\ cur'.snap = callers[n].snap
  /\ cur'.credit = callers[n].credit + cur.credit
  /\ cur'.gas <= callers[n].gas + cur.gas

\* The host's world after a frame is the current one or the snapshot.
LEMMA WorldAfterChoice == WorldAfter = world \/ WorldAfter = cur.snap
  BY DEF WorldAfter

\* A frame that ends: the last one leaves the frames alone, another resumes its caller.
LEMMA EndFrameShape ==
  ASSUME TypeOK, EndFrame
  PROVE  /\ world' = WorldAfter
         /\ \/ ResumeStep
            \/ UNCHANGED <<cur, callers>> /\ result' \in Results /\ callers = << >>
<1>1. cur.gas \in Nat /\ cur.out \in Nat /\ cur.credit \in Nat
  BY DEF TypeOK, Frame
<1>2. /\ FinalGas \in Nat /\ FinalGas <= cur.gas /\ FinalOut \in Nat
      /\ ResultCode \in 0..2 /\ Status \in {"SUCCESS", "REVERT", "FAILED"}
  BY <1>1 DEF FinalGas, FinalOut, ResultCode, Status
<1>3. world' = WorldAfter
  BY DEF EndFrame
<1>4. CASE callers = << >>
  <2>1. result' = [status |-> Status, gasLeft |-> FinalGas, out |-> FinalOut]
        /\ UNCHANGED <<cur, callers>>
    BY <1>4 DEF EndFrame
  <2> QED BY <1>2, <1>3, <1>4, <2>1 DEF Results
<1>5. CASE callers # << >>
  <2> DEFINE n == Len(callers)
             f == callers[n]
  <2>1. n \in Nat /\ n > 0
    BY <1>5 DEF TypeOK
  <2>2. f \in Frame
    BY <2>1 DEF TypeOK
  <2>3. f.gas \in Nat /\ f.credit \in Nat
    BY <2>2 DEF Frame
  <2>4. /\ callers' = SubSeq(callers, 1, n - 1) /\ result' = result
        /\ ReturnToCall \/ ReturnToCreate
    BY <1>5 DEF EndFrame
  <2> DEFINE gas == f.gas + FinalGas
             credit == f.credit + cur.credit
  <2>5. gas \in Nat /\ credit \in Nat /\ gas <= f.gas + cur.gas
    <3>1. FinalGas \in Nat /\ FinalGas <= cur.gas
      BY <1>2
    <3> HIDE DEF f
    <3> QED BY <1>1, <2>3, <3>1
  <2>6. \/ cur' = [f EXCEPT !.gas = gas, !.ret = FinalOut, !.rc = ResultCode, !.credit = credit]
        \/ cur' = [f EXCEPT !.gas = gas, !.credit = credit, !.ret = 0, !.rc = 0]
        \/ cur' = [f EXCEPT !.gas = gas, !.credit = credit, !.exc = "InvalidMemoryAccess"]
        \/ cur' = [f EXCEPT !.gas = gas, !.credit = credit, !.ret = FinalOut, !.rc = ResultCode]
    <3>1. CASE ReturnToCall
      BY <2>2, <3>1 DEF ReturnToCall, Frame
    <3>2. CASE ReturnToCreate
      BY <2>2, <3>2 DEF ReturnToCreate, Frame
    <3> QED BY <2>4, <3>1, <3>2
  <2> HIDE DEF f, gas, credit
  <2>7. /\ cur' \in Frame
        /\ cur'.static = f.static /\ cur'.depth = f.depth
        /\ cur'.start = f.start /\ cur'.snap = f.snap
        /\ cur'.credit = credit /\ cur'.gas = gas
    <3>1. 0 \in 0..2 /\ "InvalidMemoryAccess" \in Exceptions
      BY DEF Exceptions
    <3>2. CASE cur' = [f EXCEPT !.gas = gas, !.ret = FinalOut, !.rc = ResultCode, !.credit = credit]
      BY <1>2, <2>2, <2>5, <3>2 DEF Frame
    <3>3. CASE cur' = [f EXCEPT !.gas = gas, !.credit = credit, !.ret = 0, !.rc = 0]
      BY <2>2, <2>5, <3>1, <3>3 DEF Frame
    <3>4. CASE cur' = [f EXCEPT !.gas = gas, !.credit = credit, !.exc = "InvalidMemoryAccess"]
      BY <2>2, <2>5, <3>1, <3>4 DEF Frame
    <3>5. CASE cur' = [f EXCEPT !.gas = gas, !.credit = credit, !.ret = FinalOut, !.rc = ResultCode]
      BY <1>2, <2>2, <2>5, <3>5 DEF Frame
    <3> QED BY <2>6, <3>2, <3>3, <3>4, <3>5
  <2>8. ResumeStep
    BY <1>5, <2>4, <2>5, <2>7 DEF ResumeStep, f, credit
  <2> QED BY <1>3, <2>8
<1> QED BY <1>4, <1>5

\* Every step has one of the shapes.
LEMMA NextShape ==
  ASSUME TypeOK, Next
  PROVE  LocalStep \/ EnterStep \/ EndFrame
<1>1. CASE \E gas \in GasArgs : eeiUseGas(gas)
  BY <1>1, UseGasLocal, ConstantsAssumption
<1>2. CASE Query
  BY <1>2, GetLocal DEF Query, eeiStorageLoad, GasFields
<1>3. CASE Copy
  <2>1. Lengths \subseteq Nat
    BY ConstantsAssumption
  <2>2. "verylow" \in GasFields /\ "extcode" \in GasFields
    BY DEF GasFields
  <2>3. \A offset, length \in Lengths : (offset + length <= cur.ret) \in BOOLEAN
    OBVIOUS
  <2> QED BY <1>3, <2>1, <2>2, <2>3, CopyLocal DEF Copy, eeiReturnDataCopy
<1>4. CASE Write
  <2>1. Lengths \subseteq Nat /\ 0..5 \subseteq Nat
    BY ConstantsAssumption
  <2> QED BY <1>4, <2>1, StorageStoreLocal, LogLocal, SelfDestructLocal DEF Write
<1>5. CASE Call
  BY <1>5, CallShape, CreateShape, ConstantsAssumption DEF Call
<1>6. CASE Finish \/ RefuseDeployed
  BY <1>6, FinishLocal
<1> QED BY <1>1, <1>2, <1>3, <1>4, <1>5, <1>6 DEF Next

(***************************************************************************)
(* The theorems.                                                           *)
(***************************************************************************)
\* A transaction starts in a well-formed state.
LEMMA InitType == Init => TypeOK
<1> SUFFICES ASSUME Init PROVE TypeOK
  OBVIOUS
<1>1. world \in World /\ callers = << >> /\ result = NoResult
  BY WorldsAssumption DEF Init
<1>2. PICK static \in BOOLEAN, meter \in MeterModes, dest \in world.exists, value \in Word :
        cur = NewFrame("Call", static, 0, dest, value, RootGas, meter, world)
  BY DEF Init
<1>3. dest \in Accounts /\ meter \in BOOLEAN /\ RootGas \in Nat /\ 0 \in 0..MaxDepth /\ 0 \in 0..2
  BY <1>1, ConstantsAssumption DEF World
<1>4. cur \in Frame
  BY <1>1, <1>2, <1>3 DEF NewFrame, Frame, CallKinds
<1> QED BY <1>1, <1>4 DEF TypeOK

\* Every step keeps the state well formed.
LEMMA StepType == TypeOK /\ [Next]_vars => TypeOK'
<1> SUFFICES ASSUME TypeOK, [Next]_vars PROVE TypeOK'
  OBVIOUS
<1>1. CASE LocalStep
  BY <1>1 DEF LocalStep, TypeOK
<1>2. CASE EnterStep
  <2>1. PICK left \in Nat, unpaid \in Nat :
          callers' = Append(callers, [cur EXCEPT !.gas = left, !.credit = cur.credit + unpaid])
    BY <1>2 DEF EnterStep
  <2>2. [cur EXCEPT !.gas = left, !.credit = cur.credit + unpaid] \in Frame
    <3>1. cur \in Frame /\ cur.credit + unpaid \in Nat
      BY DEF TypeOK, Frame
    <3> QED BY <3>1 DEF Frame
  <2>3. callers' \in Seq(Frame)
    BY <2>1, <2>2 DEF TypeOK
  <2> QED BY <1>2, <2>3 DEF EnterStep, TypeOK
<1>3. CASE EndFrame
  <2>1. world' \in World
    BY <1>3, EndFrameShape, WorldAfterChoice DEF TypeOK, Frame
  <2>2. CASE ResumeStep
    <3>1. callers' \in Seq(Frame)
      BY <2>2 DEF ResumeStep, TypeOK
    <3> QED BY <2>1, <2>2, <3>1 DEF ResumeStep, TypeOK
  <2>3. CASE UNCHANGED <<cur, callers>> /\ result' \in Results
    BY <2>1, <2>3 DEF TypeOK
  <2> QED BY <1>3, <2>2, <2>3, EndFrameShape
<1>4. CASE UNCHANGED vars
  BY <1>4 DEF vars, TypeOK
<1> QED BY <1>1, <1>2, <1>3, <1>4, NextShape

\* Every reachable state of the interface is well formed: gasLeft is never
\* negative (takeGas) and no balance ever is (enoughSenderBalanceFor).
THEOREM TypeCorrect == Spec => []TypeOK
<1> QED BY InitType, StepType, PTL DEF Spec

\* What each shape does to the sequence of frames.
LEMMA EnterFrames ==
  ASSUME TypeOK, EnterStep
  PROVE  \E left, unpaid \in Nat :
           /\ Len(callers') = Len(callers) + 1
           /\ callers'[Len(callers) + 1]
                = [cur EXCEPT !.gas = left, !.credit = cur.credit + unpaid]
           /\ \A i \in 1..Len(callers) : callers'[i] = callers[i]
           /\ left + cur'.start <= cur.gas + unpaid
<1>1. PICK left \in Nat, unpaid \in Nat :
        /\ callers' = Append(callers, [cur EXCEPT !.gas = left, !.credit = cur.credit + unpaid])
        /\ left + cur'.start <= cur.gas + unpaid
  BY DEF EnterStep
<1>2. callers \in Seq(Frame)
  BY DEF TypeOK
<1>3. /\ Len(callers') = Len(callers) + 1
      /\ callers'[Len(callers) + 1] = [cur EXCEPT !.gas = left, !.credit = cur.credit + unpaid]
      /\ \A i \in 1..Len(callers) : callers'[i] = callers[i]
  BY <1>1, <1>2
<1> QED BY <1>1, <1>3

\* Resuming a caller removes the innermost frame.
LEMMA ResumeFrames ==
  ASSUME TypeOK, ResumeStep
  PROVE  /\ Len(callers) \in Nat \ {0}
         /\ Len(callers') = Len(callers) - 1
         /\ \A i \in 1..(Len(callers) - 1) : callers'[i] = callers[i]
<1>1. callers \in Seq(Frame) /\ callers # << >>
  BY DEF ResumeStep, TypeOK
<1>2. callers' = SubSeq(callers, 1, Len(callers) - 1)
  BY DEF ResumeStep
<1>3. Len(callers) \in Nat \ {0}
  BY <1>1
<1>4. ASSUME NEW s \in Seq(Frame), NEW n \in Nat \ {0}, Len(s) = n
      PROVE  /\ Len(SubSeq(s, 1, n - 1)) = n - 1
             /\ \A i \in 1..(n - 1) : SubSeq(s, 1, n - 1)[i] = s[i]
  OBVIOUS
<1> QED BY <1>1, <1>2, <1>3, <1>4, Zenon

\* Every step keeps the gas budget: a caller pays what it hands to its callee.
LEMMA StepGas == TypeOK /\ TypeOK' /\ GasBudget /\ [Next]_vars => GasBudget'
<1> SUFFICES ASSUME TypeOK, TypeOK', GasBudget, [Next]_vars PROVE GasBudget'
  OBVIOUS
<1>0. callers \in Seq(Frame) /\ Len(callers) \in Nat
  BY DEF TypeOK
<1> PICK n \in Nat : n = Len(callers)
  BY <1>0
<1>f. /\ \A i \in 1..n : callers[i] \in Frame
      /\ cur \in Frame /\ cur' \in Frame
  BY <1>0 DEF TypeOK
<1>b. /\ cur.gas <= cur.start + cur.credit
      /\ \A i \in 1..n : callers[i].gas + Callee(i).start <= callers[i].start + callers[i].credit
  BY DEF GasBudget
<1>1. CASE LocalStep
  <2>1. /\ callers' = callers /\ cur'.start = cur.start /\ cur'.credit = cur.credit
        /\ cur'.gas <= cur.gas
    BY <1>1 DEF LocalStep
  <2>2. cur'.gas <= cur'.start + cur'.credit
    BY <1>b, <1>f, <2>1 DEF Frame
  <2>3. \A i \in 1..n : (Callee(i)').start = Callee(i).start
    BY <2>1 DEF Callee
  <2> QED BY <1>b, <2>1, <2>2, <2>3 DEF GasBudget
<1>2. CASE EnterStep
  <2>1. PICK left \in Nat, unpaid \in Nat :
           /\ Len(callers') = n + 1
           /\ callers'[n + 1] = [cur EXCEPT !.gas = left, !.credit = cur.credit + unpaid]
           /\ \A i \in 1..n : callers'[i] = callers[i]
           /\ left + cur'.start <= cur.gas + unpaid
    BY <1>2, EnterFrames
  <2>2. cur'.gas <= cur'.start + cur'.credit
    <3>1. cur'.gas = cur'.start /\ cur'.credit = 0 /\ cur'.start \in Nat
      BY <1>2, <1>f DEF EnterStep, Frame
    <3> QED BY <3>1
  <2>3. /\ callers'[n + 1].gas = left /\ callers'[n + 1].start = cur.start
        /\ callers'[n + 1].credit = cur.credit + unpaid
    BY <1>f, <2>1 DEF Frame
  <2>4. callers'[n + 1].gas + cur'.start <= callers'[n + 1].start + callers'[n + 1].credit
    <3>1. cur.gas \in Nat /\ cur.start \in Nat /\ cur.credit \in Nat /\ cur'.start \in Nat
      BY <1>f DEF Frame
    <3>2. /\ cur.gas <= cur.start + cur.credit
          /\ left + cur'.start <= cur.gas + unpaid
      BY <1>b, <2>1
    <3>3. \A a, b, c, d \in Nat :
             a <= b + c /\ left + d <= a + unpaid => left + d <= b + (c + unpaid)
      OBVIOUS
    <3>4. left + cur'.start <= cur.start + (cur.credit + unpaid)
      BY <3>1, <3>2, <3>3
    <3> QED BY <2>3, <3>4
  <2>5. ASSUME NEW i \in 1..n
        PROVE  callers'[i].gas + Callee(i)'.start <= callers'[i].start + callers'[i].credit
    <3>1. Callee(i)' = callers'[i + 1]
      BY <2>1 DEF Callee
    <3>2. (Callee(i)').start = Callee(i).start
      <4>1. CASE i = n
        BY <2>3, <3>1, <4>1 DEF Callee
      <4>2. CASE i # n
        <5>1. i + 1 \in 1..n
          BY <4>2
        <5> QED BY <2>1, <3>1, <4>2, <5>1 DEF Callee
      <4> QED BY <4>1, <4>2
    <3> QED BY <1>b, <2>1, <3>2
  <2>6. Callee(n + 1)' = cur'
    BY <2>1 DEF Callee
  <2>7. \A i \in 1..(n + 1) : i \in 1..n \/ i = n + 1
    OBVIOUS
  <2>8. \A i \in 1..(n + 1) :
           callers'[i].gas + Callee(i)'.start <= callers'[i].start + callers'[i].credit
    BY <2>4, <2>5, <2>6, <2>7
  <2> QED BY <2>1, <2>2, <2>8 DEF GasBudget
<1>3. CASE EndFrame /\ ResumeStep
  <2>1. /\ n \in Nat \ {0}
        /\ Len(callers') = n - 1
        /\ \A i \in 1..(n - 1) : callers'[i] = callers[i]
    BY <1>3, ResumeFrames
  <2>2. /\ cur'.start = callers[n].start
        /\ cur'.credit = callers[n].credit + cur.credit
        /\ cur'.gas <= callers[n].gas + cur.gas
    BY <1>3 DEF ResumeStep
  <2>3. callers[n].gas + cur.start <= callers[n].start + callers[n].credit
    BY <1>b, <2>1 DEF Callee
  <2>4. cur'.gas <= cur'.start + cur'.credit
    <3>1. n \in 1..n
      BY <2>1
    <3>2. /\ cur.gas \in Nat /\ cur.start \in Nat /\ cur.credit \in Nat /\ cur'.gas \in Nat
          /\ callers[n].gas \in Nat /\ callers[n].start \in Nat /\ callers[n].credit \in Nat
      BY <1>f, <3>1 DEF Frame
    <3>3. cur.gas <= cur.start + cur.credit
      BY <1>b
    <3>4. \A a, b, c, d, e, f, g \in Nat :
             a <= b + c /\ d + b <= e + f /\ g <= d + a => g <= e + (f + c)
      OBVIOUS
    <3>5. cur'.gas <= callers[n].start + (callers[n].credit + cur.credit)
      BY <2>2, <2>3, <3>2, <3>3, <3>4
    <3> QED BY <2>2, <3>5
  <2>5. ASSUME NEW i \in 1..(n - 1)
        PROVE  callers'[i].gas + Callee(i)'.start <= callers'[i].start + callers'[i].credit
    <3>1. i \in 1..n /\ i # n /\ i + 1 \in 1..n
      BY <2>1
    <3>2. Callee(i) = callers[i + 1]
      BY <3>1 DEF Callee
    <3>3. (Callee(i)').start = callers[i + 1].start
      <4>1. CASE i = n - 1
        <5>1. Callee(i)' = cur' /\ i + 1 = n
          BY <2>1, <4>1 DEF Callee
        <5> QED BY <2>2, <5>1
      <4>2. CASE i # n - 1
        <5>1. i + 1 \in 1..(n - 1)
          BY <2>1, <4>2
        <5> QED BY <2>1, <4>2, <5>1 DEF Callee
      <4> QED BY <4>1, <4>2
    <3> QED BY <1>b, <2>1, <3>1, <3>2, <3>3
  <2> QED BY <2>1, <2>4, <2>5 DEF GasBudget
<1>4. CASE UNCHANGED <<cur, callers>>
  BY <1>4 DEF GasBudget, Callee
<1> QED BY <1>1, <1>2, <1>3, <1>4, NextShape, EndFrameShape DEF vars

\* Gas is conserved across nested calls and their refunds, for every schedule:
\* a frame never ends with more gas than its message carried, plus what
\* unmetered frames and delegate-call stipends handed out unpaid.
THEOREM GasConservation == Spec => []GasBudget
<1>1. Init => GasBudget
  <2> SUFFICES ASSUME Init PROVE GasBudget
    OBVIOUS
  <2>1. Len(callers) = 0 /\ cur.gas = RootGas /\ cur.start = RootGas /\ cur.credit = 0
    BY DEF Init, NewFrame
  <2> QED BY <2>1, ConstantsAssumption DEF GasBudget
<1> QED BY <1>1, StepGas, TypeCorrect, PTL DEF Spec

\* Every step keeps the world of a static frame.
LEMMA StepStatic == TypeOK /\ StaticPure /\ [Next]_vars => StaticPure'
<1> SUFFICES ASSUME TypeOK, StaticPure, [Next]_vars PROVE StaticPure'
  OBVIOUS
<1>0. callers \in Seq(Frame) /\ Len(callers) \in Nat
  BY DEF TypeOK
<1> PICK n \in Nat : n = Len(callers)
  BY <1>0
<1>b. /\ cur.static => world = cur.snap
      /\ \A i \in 1..n : callers[i].static =>
            world = callers[i].snap /\ cur.static /\ \A j \in i..n : callers[j].static
  BY DEF StaticPure
<1>1. CASE LocalStep
  <2>1. /\ callers' = callers /\ cur'.static = cur.static /\ cur'.snap = cur.snap
        /\ cur.static => world' = world
    BY <1>1 DEF LocalStep
  <2> QED BY <1>b, <2>1 DEF StaticPure
<1>2. CASE EnterStep
  <2>1. /\ cur'.snap = world
        /\ cur.static => cur'.static
        /\ cur'.static => world' = world
    BY <1>2 DEF EnterStep
  <2>2. /\ Len(callers') = n + 1
        /\ callers'[n + 1].static = cur.static /\ callers'[n + 1].snap = cur.snap
        /\ \A i \in 1..n : callers'[i] = callers[i]
    <3>1. PICK left \in Nat, unpaid \in Nat :
             /\ Len(callers') = n + 1
             /\ callers'[n + 1] = [cur EXCEPT !.gas = left, !.credit = cur.credit + unpaid]
             /\ \A i \in 1..n : callers'[i] = callers[i]
      BY <1>2, EnterFrames
    <3> QED BY <3>1 DEF TypeOK, Frame
  <2>3. ASSUME NEW i \in 1..(n + 1), callers'[i].static
        PROVE  /\ world' = callers'[i].snap /\ cur'.static
               /\ \A j \in i..(n + 1) : callers'[j].static
    <3>1. cur.static /\ callers'[i].snap = world
      <4>1. CASE i = n + 1
        BY <1>b, <2>2, <2>3, <4>1
      <4>2. CASE i # n + 1
        <5>1. i \in 1..n
          BY <4>2
        <5> QED BY <1>b, <2>2, <2>3, <5>1
      <4> QED BY <4>1, <4>2
    <3>2. ASSUME NEW j \in i..(n + 1) PROVE callers'[j].static
      <4>1. CASE j = n + 1
        BY <2>2, <3>1, <4>1
      <4>2. CASE j # n + 1
        <5>1. i \in 1..n /\ j \in i..n /\ j \in 1..n
          BY <4>2
        <5>2. callers[i].static
          BY <2>2, <2>3, <5>1
        <5> QED BY <1>b, <2>2, <5>1, <5>2
      <4> QED BY <4>1, <4>2
    <3> QED BY <2>1, <3>1, <3>2
  <2> QED BY <2>1, <2>2, <2>3 DEF StaticPure
<1>3. CASE EndFrame /\ ResumeStep
  <2>1. /\ n \in Nat \ {0}
        /\ Len(callers') = n - 1
        /\ \A i \in 1..(n - 1) : callers'[i] = callers[i]
    BY <1>3, ResumeFrames
  <2>2. cur'.static = callers[n].static /\ cur'.snap = callers[n].snap
    BY <1>3 DEF ResumeStep
  <2>3. world' = world \/ world' = cur.snap
    BY <1>3, EndFrameShape, WorldAfterChoice
  <2>4. n \in 1..n
    BY <2>1
  <2>5. callers[n].static => world' = world /\ world = callers[n].snap
    BY <1>b, <2>3, <2>4
  <2>6. ASSUME NEW i \in 1..(n - 1), callers'[i].static
        PROVE  /\ world' = callers'[i].snap /\ cur'.static
               /\ \A j \in i..(n - 1) : callers'[j].static
    <3>1. i \in 1..n /\ n \in i..n
      BY <2>1
    <3>2. callers[i].static /\ callers'[i] = callers[i]
      BY <2>1, <2>6
    <3>3. world = callers[i].snap /\ \A j \in i..n : callers[j].static
      BY <1>b, <3>1, <3>2
    <3>4. callers[n].static
      BY <3>1, <3>3
    <3>5. ASSUME NEW j \in i..(n - 1) PROVE callers'[j].static
      <4>1. j \in i..n /\ j \in 1..(n - 1)
        OBVIOUS
      <4> QED BY <2>1, <3>3, <4>1
    <3> QED BY <2>2, <2>5, <3>2, <3>3, <3>4, <3>5
  <2> QED BY <2>1, <2>2, <2>5, <2>6 DEF StaticPure
<1>4. CASE EndFrame /\ UNCHANGED <<cur, callers>> /\ callers = << >>
  <2>1. world' = world \/ world' = cur.snap
    BY <1>4, EndFrameShape, WorldAfterChoice
  <2>2. Len(callers') = 0 /\ cur' = cur
    BY <1>4
  <2> QED BY <1>b, <2>1, <2>2 DEF StaticPure
<1>5. CASE UNCHANGED vars
  BY <1>5 DEF vars, StaticPure
<1> QED BY <1>1, <1>2, <1>3, <1>4, <1>5, NextShape, EndFrameShape

\* Static mode protects the world through every nesting of calls: whatever a
\* static frame and its callees do, and however they end, the account state
\* stays the one the static frame was entered with.
THEOREM StaticMode == Spec => []StaticPure
<1>1. Init => StaticPure
  <2> SUFFICES ASSUME Init PROVE StaticPure
    OBVIOUS
  <2>1. Len(callers) = 0 /\ cur.snap = world
    BY DEF Init, NewFrame
  <2> QED BY <2>1 DEF StaticPure
<1> QED BY <1>1, StepStatic, TypeCorrect, PTL DEF Spec

\* Every step keeps depth equal to the number of suspended frames.
LEMMA StepDepth == TypeOK /\ DepthCounts /\ [Next]_vars => DepthCounts'
<1> SUFFICES ASSUME TypeOK, DepthCounts, [Next]_vars PROVE DepthCounts'
  OBVIOUS
<1>0. callers \in Seq(Frame) /\ Len(callers) \in Nat
  BY DEF TypeOK
<1> PICK n \in Nat : n = Len(callers)
  BY <1>0
<1>b. /\ cur.depth = n
      /\ \A i \in 1..n : callers[i].depth = i - 1 /\ callers[i].depth < MaxDepth
  BY DEF DepthCounts
<1>1. CASE LocalStep
  BY <1>1 DEF LocalStep, DepthCounts
<1>2. CASE EnterStep
  <2>1. PICK left \in Nat, unpaid \in Nat :
           /\ Len(callers') = n + 1
           /\ callers'[n + 1] = [cur EXCEPT !.gas = left, !.credit = cur.credit + unpaid]
           /\ \A i \in 1..n : callers'[i] = callers[i]
    BY <1>2, EnterFrames
  <2>2. callers'[n + 1].depth = n
    BY <1>b, <2>1 DEF TypeOK, Frame
  <2>3. cur'.depth = n + 1 /\ n < MaxDepth
    BY <1>2, <1>b DEF EnterStep
  <2>4. ASSUME NEW i \in 1..(n + 1)
        PROVE  callers'[i].depth = i - 1 /\ callers'[i].depth < MaxDepth
    <3>1. CASE i = n + 1
      BY <2>2, <2>3, <3>1
    <3>2. CASE i # n + 1
      <4>1. i \in 1..n
        BY <3>2
      <4> QED BY <1>b, <2>1, <4>1
    <3> QED BY <3>1, <3>2
  <2> QED BY <2>1, <2>3, <2>4 DEF DepthCounts
<1>3. CASE EndFrame /\ ResumeStep
  <2>1. /\ n \in Nat \ {0}
        /\ Len(callers') = n - 1
        /\ \A i \in 1..(n - 1) : callers'[i] = callers[i]
    BY <1>3, ResumeFrames
  <2>2. cur'.depth = callers[n].depth /\ n \in 1..n
    BY <1>3, <2>1 DEF ResumeStep
  <2>3. \A i \in 1..(n - 1) : i \in 1..n
    OBVIOUS
  <2> QED BY <1>b, <2>1, <2>2, <2>3 DEF DepthCounts
<1>4. CASE UNCHANGED <<cur, callers>>
  BY <1>4 DEF DepthCounts
<1> QED BY <1>1, <1>2, <1>3, <1>4, NextShape, EndFrameShape DEF vars

\* No chain of calls, delegate calls and creations runs past the depth limit,
\* and the depth in a message is the number of frames suspended below it.
THEOREM DepthLimit == Spec => []DepthCounts
<1>1. Init => DepthCounts
  <2> SUFFICES ASSUME Init PROVE DepthCounts
    OBVIOUS
  <2>1. Len(callers) = 0 /\ cur.depth = 0
    BY DEF Init, NewFrame
  <2> QED BY <2>1 DEF DepthCounts
<1> QED BY <1>1, StepDepth, TypeCorrect, PTL DEF Spec

(***************************************************************************)
(* What a caller learns when its callee ends.                              *)
(***************************************************************************)
\* A step that leaves fewer suspended frames ends the running frame and
\* resumes its caller.
LEMMA ShorterEnds ==
  ASSUME TypeOK, [Next]_vars, Len(callers') < Len(callers)
  PROVE  EndFrame /\ callers # << >> /\ callers[Len(callers)] \in Frame
<1>0. callers \in Seq(Frame) /\ Len(callers) \in Nat
  BY DEF TypeOK
<1>1. CASE LocalStep
  BY <1>0, <1>1 DEF LocalStep
<1>2. CASE EnterStep
  <2>1. Len(callers') = Len(callers) + 1
    BY <1>2, EnterFrames
  <2> QED BY <1>0, <2>1
<1>3. CASE UNCHANGED vars
  BY <1>0, <1>3 DEF vars
<1>4. CASE EndFrame
  <2>1. callers # << >>
    BY <1>0, <1>4 DEF EndFrame
  <2>2. Len(callers) \in 1..Len(callers)
    BY <1>0, <2>1
  <2> QED BY <1>0, <1>4, <2>1, <2>2
<1> QED BY <1>1, <1>2, <1>3, <1>4, NextShape

\* A callee that did not succeed hands its caller the result code of its
\* status, the output it kept and its remaining gas.
LEMMA FailedResume ==
  ASSUME EndFrame, callers # << >>, callers[Len(callers)] \in Frame,
         Status # "SUCCESS"
  PROVE  /\ cur'.rc = ResultCode /\ cur'.ret = FinalOut
         /\ cur'.gas = callers[Len(callers)].gas + FinalGas
<1>1. ReturnToCall \/ ReturnToCreate
  BY DEF EndFrame
<1>2. CASE ReturnToCall
  BY <1>2 DEF ReturnToCall, Frame
<1>3. CASE ReturnToCreate
  BY <1>3 DEF ReturnToCreate, Frame
<1> QED BY <1>1, <1>2, <1>3

\* A callee that succeeded leaves result code 0 to a caller that goes on.
LEMMA SuccessfulResume ==
  ASSUME EndFrame, callers # << >>, callers[Len(callers)] \in Frame,
         Status = "SUCCESS", cur'.exc = "none"
  PROVE  cur'.rc = 0
<1>1. ReturnToCall \/ ReturnToCreate
  BY DEF EndFrame
<1>2. CASE ReturnToCall
  <2>1. ResultCode = 0
    BY DEF ResultCode
  <2> QED BY <1>2, <2>1 DEF ReturnToCall, Frame
<1>3. CASE ReturnToCreate
  BY <1>3 DEF ReturnToCreate, Frame
<1> QED BY <1>1, <1>2, <1>3

\* The result code eeiCall and eeiCreate return tells the contract whether its
\* callee's effects stand: 0 exactly when the world is the one the callee left,
\* anything else when the host has put the snapshot back.
THEOREM ResultCodeCorrect == Spec => ResultCodeTellsOutcome
<1>1. TypeOK /\ [Next]_vars =>
        [Len(callers') < Len(callers) /\ cur'.exc = "none" =>
           world' = IF cur'.rc = 0 THEN world ELSE cur.snap]_vars
  <2> SUFFICES ASSUME TypeOK, [Next]_vars, Len(callers') < Len(callers),
                      cur'.exc = "none"
               PROVE  world' = IF cur'.rc = 0 THEN world ELSE cur.snap
    OBVIOUS
  <2>1. EndFrame /\ callers # << >> /\ callers[Len(callers)] \in Frame
    BY ShorterEnds
  <2>2. world' = WorldAfter
    BY <2>1 DEF EndFrame
  <2>3. CASE Status = "SUCCESS"
    BY <2>1, <2>2, <2>3, SuccessfulResume DEF WorldAfter
  <2>4. CASE Status # "SUCCESS"
    <3>1. ResultCode # 0
      BY <2>4 DEF ResultCode
    <3> QED BY <2>1, <2>2, <2>4, <3>1, FailedResume DEF WorldAfter
  <2> QED BY <2>3, <2>4
<1> QED BY <1>1, TypeCorrect, PTL DEF Spec, ResultCodeTellsOutcome

\* A callee stopped by an exception other than EndExecution burns what it was
\* given: hera_execute's handlers hand back neither gas nor output.
THEOREM FailureBurns == Spec => FailureBurnsGas
<1>1. TypeOK /\ [Next]_vars =>
        [Len(callers') < Len(callers) /\ cur.exc # "EndExecution" =>
           cur'.gas = callers[Len(callers)].gas /\ cur'.ret = 0]_vars
  <2> SUFFICES ASSUME TypeOK, [Next]_vars, Len(callers') < Len(callers),
                      cur.exc # "EndExecution"
               PROVE  cur'.gas = callers[Len(callers)].gas /\ cur'.ret = 0
    OBVIOUS
  <2>1. EndFrame /\ callers # << >> /\ callers[Len(callers)] \in Frame
    BY ShorterEnds
  <2>2. Status = "FAILED"
    BY DEF Status
  <2>3. FinalGas = 0 /\ FinalOut = 0
    BY <2>2 DEF FinalGas, FinalOut
  <2>4. /\ cur'.ret = FinalOut
        /\ cur'.gas = callers[Len(callers)].gas + FinalGas
    BY <2>1, <2>2, FailedResume
  <2>5. callers[Len(callers)].gas \in Nat
    BY <2>1 DEF Frame
  <2> QED BY <2>3, <2>4, <2>5
<1> QED BY <1>1, TypeCorrect, PTL DEF Spec, FailureBurnsGas
=============================================================================
