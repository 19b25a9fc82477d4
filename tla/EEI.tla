-------------------------------- MODULE EEI --------------------------------
(***************************************************************************)
(* The Ethereum Environment Interface that translated contracts run        *)
(* against (evmtrans/hera/eei.cpp), together with the part of              *)
(* hera_execute (evmtrans/hera/hera.cpp) that starts and ends a message    *)
(* call.  One message call is one frame: `cur' is the frame whose wasm     *)
(* code is running, `callers' the frames suspended inside eeiCall or       *)
(* eeiCreate, innermost last.                                              *)
(*                                                                         *)
(* A contract may invoke any EEI method with any arguments, so there is    *)
(* one action per method and its arguments are chosen from small sets.     *)
(* A C++ exception is two steps: the method raises it (field exc), and     *)
(* hera_execute's handlers turn it into a result for the caller.           *)
(***************************************************************************)
EXTENDS Integers, Sequences

CONSTANTS
  Accounts,      \* addresses
  Keys,          \* storage paths
  MaxWord,       \* storage words and transferred values are 0..MaxWord
  GasSchedule,   \* struct GasSchedule of eei.h
  GasRetention,  \* maxCallGas keeps 1/GasRetention of the gas (64 in eei.h)
  MaxDepth,      \* call depth limit (1024 in eei.cpp)
  GasArgs,       \* gas arguments a contract passes, negative ones included
  Lengths,       \* data lengths a contract passes
  MeterModes,    \* values meterInterfaceGas takes (FALSE in runevm mode)
  InitialWorlds, \* account states a transaction may start in
  RootGas,       \* gas of the transaction's message
  MaxCredit      \* bound on the ghost field credit (see below)

GasFields == {"storageLoad", "storageStoreCreate", "storageStoreChange", "log",
  "logData", "logTopic", "create", "call", "copy", "blockhash", "balance",
  "base", "verylow", "extcode", "selfdestruct", "valuetransfer",
  "valueStipend", "callNewAccount"}

ASSUME GasScheduleAssumption ==
  /\ GasSchedule \in [GasFields -> Nat]
  \* static_assert in eeiStorageStore
  /\ GasSchedule["storageStoreCreate"] >= GasSchedule["storageStoreChange"]
  \* the value-transfer surcharge pays for the stipend (9000 and 2300)
  /\ GasSchedule["valuetransfer"] >= GasSchedule["valueStipend"]

ASSUME ConstantsAssumption ==
  /\ MaxWord \in Nat \ {0}
  /\ GasRetention \in Nat \ {0}
  /\ MaxDepth \in Nat
  /\ GasArgs \subseteq Int
  /\ Lengths \subseteq Nat
  /\ MeterModes \subseteq BOOLEAN
  /\ RootGas \in Nat
  /\ MaxCredit \in Nat

Word == 0..MaxWord

\* The account state a host keeps, as far as the EEI reads and writes it.
World ==
  [storage : [Accounts -> [Keys -> Word]],
   balance : [Accounts -> Nat],
   exists  : SUBSET Accounts,
   marks   : SUBSET {"log", "selfdestruct"}]  \* other effects so far

ASSUME WorldsAssumption == InitialWorlds \subseteq World

VARIABLES
  cur,      \* the running frame
  callers,  \* suspended frames
  world,    \* the host's account state
  result    \* evmc_result of the transaction's message, NoResult before its end

vars == <<cur, callers, world, result>>

CallKinds == {"Call", "CallCode", "CallDelegate", "CallStatic"}

\* The exceptions of exceptions.h; "none" is a frame that is executing.
Exceptions == {"EndExecution", "VMTrap", "ArgumentOutOfRange", "OutOfGas",
  "ContractValidationFailure", "InvalidMemoryAccess", "StaticModeViolation"}

(***************************************************************************)
(* The members of EthereumInterface and of its evmc_message, one record.   *)
(* gas is m_result.gasLeft, start the message's gas, ret the size of       *)
(* m_lastReturnData, out the size of m_result.returnValue, rc the result   *)
(* code the last eeiCall/eeiCreate handed to the contract, snap the world  *)
(* the host restores if the frame does not succeed.  credit is a ghost: gas *)
(* the frame handed to callees without paying for it.                      *)
(***************************************************************************)
Frame ==
  [kind : CallKinds \union {"Create"}, static : BOOLEAN, depth : 0..MaxDepth,
   dest : Accounts, value : Word, start : Nat, gas : Nat, meter : BOOLEAN,
   ret : Nat, out : Nat, revert : BOOLEAN, rc : 0..2,
   exc : Exceptions \union {"none"}, snap : World, credit : Nat]

Results == [status : {"SUCCESS", "REVERT", "FAILED"}, gasLeft : Nat, out : Nat]

NoResult == [status |-> "RUNNING", gasLeft |-> 0, out |-> 0]

(***************************************************************************)
(* Gas.                                                                    *)
(***************************************************************************)
Cost(field) == GasSchedule[field]

\* takeGas / takeInterfaceGas: with m_meterGas off the interface takes nothing.
CanPay(c) == cur.meter => c <= cur.gas

GasAfter(c) == IF cur.meter THEN cur.gas - c ELSE cur.gas

maxCallGas(g) == g - (g \div GasRetention)

\* safeChargeDataCopy
DataCopyCost(base, length) == Cost(base) + Cost("copy") * ((length + 31) \div 32)

(***************************************************************************)
(* Exceptions.  A method is a list of ensureCondition checks in source     *)
(* order; the first that fails is raised.  Gas already taken by a method   *)
(* that raises is not tracked: hera_execute discards the frame's gas.      *)
(***************************************************************************)
Check(ok, exc) == [ok |-> ok, exc |-> exc]

Running == result = NoResult /\ cur.exc = "none"

Throw(exc) ==
  /\ cur' = [cur EXCEPT !.exc = exc]
  /\ UNCHANGED <<callers, world, result>>

Raise(checks) ==
  \E i \in DOMAIN checks :
    /\ ~checks[i].ok
    /\ \A j \in DOMAIN checks : j < i => checks[j].ok
    /\ Throw(checks[i].exc)

AllHold(checks) == \A i \in DOMAIN checks : checks[i].ok

\* A method with no effect but its charge.
Charged(c) ==
  /\ cur' = [cur EXCEPT !.gas = GasAfter(c)]
  /\ UNCHANGED <<callers, world, result>>

(***************************************************************************)
(* Methods that read the environment.  mem says whether the memory ranges  *)
(* the contract passed lie inside its memory.                              *)
(***************************************************************************)
UseGasUnchecked(gas) == << Check(gas >= 0, "ArgumentOutOfRange") >>
UseGasChecks(gas) ==
  << Check(gas >= 0, "ArgumentOutOfRange"), Check(gas <= cur.gas, "OutOfGas") >>

eeiUseGas(gas) ==
  LET checks == UseGasChecks(gas)
  IN /\ Running
     /\ \/ Raise(checks)
        \/ /\ AllHold(checks)
           /\ cur' = [cur EXCEPT !.gas = cur.gas - gas]
           /\ UNCHANGED <<callers, world, result>>

\* The getters differ in their price and in whether they write to memory.
eeiGet(field, mem) ==
  LET checks == << Check(CanPay(Cost(field)), "OutOfGas"),
                   Check(mem, "InvalidMemoryAccess") >>
  IN /\ Running
     /\ Raise(checks) \/ (AllHold(checks) /\ Charged(Cost(field)))

eeiStorageLoad(mem) == eeiGet("storageLoad", mem)

\* callDataCopy, codeCopy, externalCodeCopy: src says whether the source range exists.
eeiCopy(base, length, src, mem) ==
  LET c == DataCopyCost(base, length)
      checks == << Check(CanPay(c), "OutOfGas"),
                   Check(src, "InvalidMemoryAccess"),
                   Check(mem, "InvalidMemoryAccess") >>
  IN /\ Running
     /\ Raise(checks) \/ (AllHold(checks) /\ Charged(c))

eeiReturnDataCopy(offset, size, mem) ==
  eeiCopy("verylow", size, offset + size <= cur.ret, mem)

(***************************************************************************)
(* Methods that change the world.                                          *)
(***************************************************************************)
eeiStorageStore(key, word, mem) ==
  LET create == world.storage[cur.dest][key] = 0 /\ word # 0
      c == Cost("storageStoreChange")
           + IF create THEN Cost("storageStoreCreate") - Cost("storageStoreChange")
             ELSE 0
      checks == << Check(CanPay(Cost("storageStoreChange")), "OutOfGas"),
                   Check(~cur.static, "StaticModeViolation"),
                   Check(mem, "InvalidMemoryAccess"),
                   Check(CanPay(c), "OutOfGas") >>
  IN /\ Running
     /\ \/ Raise(checks)
        \/ /\ AllHold(checks)
           /\ cur' = [cur EXCEPT !.gas = GasAfter(c)]
           /\ world' = [world EXCEPT !.storage[cur.dest][key] = word]
           /\ UNCHANGED <<callers, result>>

LogCost(length, topics) ==
  Cost("log") + Cost("logTopic") * topics + Cost("logData") * length

LogChecksNotStatic(c, topics, mem) ==
  << Check(CanPay(c), "OutOfGas"), Check(topics <= 4, "ContractValidationFailure"),
     Check(mem, "InvalidMemoryAccess") >>
LogChecks(c, topics, mem) ==
  << Check(CanPay(c), "OutOfGas"), Check(~cur.static, "StaticModeViolation"),
     Check(topics <= 4, "ContractValidationFailure"),
     Check(mem, "InvalidMemoryAccess") >>

eeiLog(length, topics, mem) ==
  LET c == LogCost(length, topics)
      checks == LogChecks(c, topics, mem)
  IN /\ Running
     /\ \/ Raise(checks)
        \/ /\ AllHold(checks)
           /\ cur' = [cur EXCEPT !.gas = GasAfter(c)]
           /\ world' = [world EXCEPT !.marks = @ \union {"log"}]
           /\ UNCHANGED <<callers, result>>

\* The host moves the whole balance to the beneficiary; EndExecution is thrown.
eeiSelfDestruct(heir, mem) ==
  LET c == Cost("selfdestruct")
           + IF heir \in world.exists THEN 0 ELSE Cost("callNewAccount")
      checks == << Check(CanPay(Cost("selfdestruct")), "OutOfGas"),
                   Check(~cur.static, "StaticModeViolation"),
                   Check(mem, "InvalidMemoryAccess"),
                   Check(CanPay(c), "OutOfGas") >>
  IN /\ Running
     /\ \/ Raise(checks)
        \/ /\ AllHold(checks)
           /\ cur' = [cur EXCEPT !.gas = GasAfter(c), !.exc = "EndExecution"]
           /\ world' = [world EXCEPT
                          !.balance = [a \in Accounts |->
                             IF a = cur.dest THEN 0
                             ELSE IF a = heir THEN world.balance[a] + world.balance[cur.dest]
                             ELSE world.balance[a]],
                          !.exists = @ \union {heir},
                          !.marks = @ \union {"selfdestruct"}]
           /\ UNCHANGED <<callers, result>>

(***************************************************************************)
(* Calls.                                                                  *)
(***************************************************************************)
\* The host's side of a message: snapshot, value transfer, a fresh frame.
Transfer(w, from, to, value) ==
  [w EXCEPT !.balance = [a \in Accounts |->
               IF from = to THEN w.balance[a]
               ELSE IF a = from THEN w.balance[a] - value
               ELSE IF a = to THEN w.balance[a] + value
               ELSE w.balance[a]],
            !.exists = @ \union {to}]

\* The EthereumInterface constructor on a fresh message.
NewFrame(kind, static, depth, dest, value, gas, meter, snap) ==
  [kind |-> kind, static |-> static, depth |-> depth, dest |-> dest,
   value |-> value, start |-> gas, gas |-> gas, meter |-> meter, ret |-> 0,
   out |-> 0, revert |-> FALSE, rc |-> 0, exc |-> "none", snap |-> snap,
   credit |-> 0]

\* m_msg.depth >= 1024
TooDeepOffByOne == cur.depth > MaxDepth
TooDeep == cur.depth >= MaxDepth

\* call_message.flags: static mode is inherited.
CalleeStatic(kind) == cur.static \/ kind = "CallStatic"

\* An early return of eeiCall/eeiCreate: result code 1, m_lastReturnData kept.
ReturnOne(c) ==
  /\ cur' = [cur EXCEPT !.gas = GasAfter(c), !.rc = 1]
  /\ UNCHANGED <<callers, world, result>>

\* call_message.value, and whether value is really transferred.
MessageValue(kind, word) ==
  CASE kind \in {"Call", "CallCode"} -> word
    [] kind = "CallDelegate" -> cur.value
    [] OTHER -> 0

Transfers(kind, word) == kind \in {"Call", "CallCode"} /\ word # 0

\* What eeiCall charges before forwarding gas.
TransferCostFree(kind, word) == Cost("call")
TransferCost(kind, word) ==
  Cost("call") + IF Transfers(kind, word) THEN Cost("valuetransfer") ELSE 0

AccountCost(kind, to, word) ==
  TransferCost(kind, word)
  + IF kind = "Call" /\ Transfers(kind, word) /\ to \notin world.exists
    THEN Cost("callNewAccount") ELSE 0

\* gas = min(gas, maxCallGas(m_result.gasLeft))
Forwarded(gas, c) ==
  LET most == maxCallGas(GasAfter(c)) IN IF gas <= most THEN gas ELSE most

\* The stipend is added whenever the message carries a value.
Stipend(kind, word) ==
  IF MessageValue(kind, word) # 0 THEN Cost("valueStipend") ELSE 0

\* Gas given to the callee that this frame has not paid for.
UnpaidGas(kind, word, given) ==
  IF ~cur.meter THEN given
  ELSE IF kind = "CallDelegate" THEN Stipend(kind, word) ELSE 0

\* Suspend this frame and run a callee; the callee may be metered or not.
Enter(kind, static, dest, value, w, charge, forward, given, unpaid) ==
  /\ cur.credit + unpaid <= MaxCredit
  /\ callers' = Append(callers,
       [cur EXCEPT !.gas = GasAfter(charge + forward), !.credit = @ + unpaid])
  /\ \E meter \in MeterModes :
       cur' = NewFrame(kind, static, cur.depth + 1, dest, value, given, meter, world)
  /\ world' = w
  /\ UNCHANGED result

\* mem is the range of the address and the value, data that of the input.
CallChecks(kind, gas, word, mem, data) ==
  << Check(gas >= 0, "ArgumentOutOfRange"),
     Check(mem, "InvalidMemoryAccess"),
     Check(~(kind = "Call" /\ word # 0 /\ cur.static), "StaticModeViolation"),
     Check(data, "InvalidMemoryAccess"),
     Check(CanPay(Cost("call")), "OutOfGas") >>

eeiCall(kind, gas, to, word, mem, data) ==
  LET checks == CallChecks(kind, gas, word, mem, data)
      surcharged == TransferCost(kind, word)
      c == AccountCost(kind, to, word)
      poor == Transfers(kind, word) /\ world.balance[cur.dest] < word
      fwd == Forwarded(gas, c)
      given == fwd + Stipend(kind, word)
  IN /\ Running
     /\ \/ Raise(checks)
        \/ AllHold(checks) /\ TooDeep /\ ReturnOne(Cost("call"))
        \/ AllHold(checks) /\ ~TooDeep /\ ~CanPay(surcharged) /\ Throw("OutOfGas")
        \/ AllHold(checks) /\ ~TooDeep /\ CanPay(surcharged) /\ poor /\ ReturnOne(surcharged)
        \/ /\ AllHold(checks) /\ ~TooDeep /\ CanPay(surcharged) /\ ~poor
           /\ ~CanPay(c) /\ Throw("OutOfGas")
        \/ /\ AllHold(checks) /\ ~TooDeep /\ CanPay(surcharged) /\ ~poor /\ CanPay(c)
           /\ Enter(kind, CalleeStatic(kind),
                    IF kind \in {"Call", "CallStatic"} THEN to ELSE cur.dest,
                    MessageValue(kind, word),
                    IF Transfers(kind, word) /\ kind = "Call"
                      THEN Transfer(world, cur.dest, to, word) ELSE world,
                    c, fwd, given, UnpaidGas(kind, word, given))

\* mem is the range of the value, data that of the init code.
eeiCreate(word, mem, data) ==
  LET early == << Check(CanPay(Cost("create")), "OutOfGas"),
                  Check(~cur.static, "StaticModeViolation"),
                  Check(mem, "InvalidMemoryAccess") >>
      blocked == TooDeep \/ world.balance[cur.dest] < word
      fwd == maxCallGas(GasAfter(Cost("create")))
  IN /\ Running
     /\ \/ Raise(early)
        \/ AllHold(early) /\ blocked /\ ReturnOne(Cost("create"))
        \/ AllHold(early) /\ ~blocked /\ ~data /\ Throw("InvalidMemoryAccess")
        \/ /\ AllHold(early) /\ ~blocked /\ data
           /\ \E a \in Accounts \ world.exists :
                Enter("Create", FALSE, a, word, Transfer(world, cur.dest, a, word),
                      Cost("create"), fwd, fwd, IF cur.meter THEN 0 ELSE fwd)

(***************************************************************************)
(* The end of a frame.                                                     *)
(***************************************************************************)
eeiRevertOrFinish(revert, size, mem) ==
  /\ Running
  /\ \/ ~mem /\ Throw("InvalidMemoryAccess")
     \/ /\ mem
        /\ cur' = [cur EXCEPT !.out = size, !.revert = revert, !.exc = "EndExecution"]
        /\ UNCHANGED <<callers, world, result>>

\* main returns (no output), or wasm traps.
Leave == Running /\ Throw("EndExecution")
Trap == Running /\ Throw("VMTrap")

\* hera_execute refuses the code a constructor returned (wasm version, metering,
\* verifyContract): what the code is like is not modelled, so it may.
RefuseDeployed ==
  /\ result = NoResult
  /\ cur.kind = "Create" /\ cur.exc = "EndExecution"
  /\ ~cur.revert /\ cur.out > 0
  /\ Throw("ContractValidationFailure")

Status ==
  IF cur.exc # "EndExecution" THEN "FAILED"
  ELSE IF cur.revert THEN "REVERT" ELSE "SUCCESS"

\* hera_execute: the zeroed evmc_result is filled in only when no exception leaks.
FinalGasKept == cur.gas
FinalGas == IF Status = "FAILED" THEN 0 ELSE cur.gas
FinalOut == IF Status = "FAILED" THEN 0 ELSE cur.out

\* The host undoes the frame unless it succeeded.
WorldAfter == IF Status = "SUCCESS" THEN world ELSE cur.snap

ResultCodeIgnoresRevert == IF Status = "FAILED" THEN 1 ELSE 0
ResultCode ==
  CASE Status = "SUCCESS" -> 0 [] Status = "REVERT" -> 2 [] OTHER -> 1

\* The rest of eeiCall, after m_host.call.
ReturnToCall ==
  LET f == callers[Len(callers)] IN
  /\ cur.kind # "Create"
  /\ cur' = [f EXCEPT !.gas = @ + FinalGas, !.ret = FinalOut, !.rc = ResultCode,
                      !.credit = @ + cur.credit]

\* The rest of eeiCreate: the new address is stored before the return data is cleared.
ReturnToCreate ==
  LET f == callers[Len(callers)]
      g == [f EXCEPT !.gas = @ + FinalGas, !.credit = @ + cur.credit]
  IN /\ cur.kind = "Create"
     /\ \/ /\ Status = "SUCCESS"
           /\ \E mem \in BOOLEAN :
                cur' = IF mem THEN [g EXCEPT !.ret = 0, !.rc = 0]
                       ELSE [g EXCEPT !.exc = "InvalidMemoryAccess"]
        \/ /\ Status # "SUCCESS"
           /\ cur' = [g EXCEPT !.ret = FinalOut, !.rc = ResultCode]

EndFrame ==
  /\ result = NoResult
  /\ cur.exc # "none"
  /\ world' = WorldAfter
  /\ \/ /\ callers = << >>
        /\ result' = [status |-> Status, gasLeft |-> FinalGas, out |-> FinalOut]
        /\ UNCHANGED <<cur, callers>>
     \/ /\ callers # << >>
        /\ ReturnToCall \/ ReturnToCreate
        /\ callers' = SubSeq(callers, 1, Len(callers) - 1)
        /\ UNCHANGED result

(***************************************************************************)
(* Specification.                                                          *)
(***************************************************************************)
\* A transaction's message to an existing account.
Init ==
  /\ world \in InitialWorlds
  /\ callers = << >>
  /\ result = NoResult
  /\ \E static \in BOOLEAN, meter \in MeterModes, dest \in world.exists, value \in Word :
       cur = NewFrame("Call", static, 0, dest, value, RootGas, meter, world)

Query ==
  \E mem \in BOOLEAN :
    \/ \E field \in {"base", "balance", "blockhash", "extcode"} : eeiGet(field, mem)
    \/ eeiStorageLoad(mem)

Copy ==
  \E length \in Lengths, mem, src \in BOOLEAN :
    \/ \E base \in {"verylow", "extcode"} : eeiCopy(base, length, src, mem)
    \/ \E offset \in Lengths : eeiReturnDataCopy(offset, length, mem)

Write ==
  \E mem \in BOOLEAN :
    \/ \E key \in Keys, word \in Word : eeiStorageStore(key, word, mem)
    \/ \E length \in Lengths, topics \in 0..5 : eeiLog(length, topics, mem)
    \/ \E heir \in Accounts : eeiSelfDestruct(heir, mem)

Call ==
  \E mem, data \in BOOLEAN, word \in Word :
    \/ \E kind \in CallKinds, gas \in GasArgs, to \in Accounts :
         eeiCall(kind, gas, to, word, mem, data)
    \/ eeiCreate(word, mem, data)

Finish ==
  \/ \E revert, mem \in BOOLEAN, size \in Lengths : eeiRevertOrFinish(revert, size, mem)
  \/ Leave
  \/ Trap

Next ==
  \/ \E gas \in GasArgs : eeiUseGas(gas)
  \/ Query
  \/ Copy
  \/ Write
  \/ Call
  \/ Finish
  \/ RefuseDeployed
  \/ EndFrame

Spec == Init /\ [][Next]_vars

(***************************************************************************)
(* Properties.                                                             *)
(***************************************************************************)
\* Every frame is well formed; in particular gasLeft never goes negative and
\* the host is never asked to transfer more than a balance holds.
TypeOK ==
  /\ cur \in Frame
  /\ callers \in Seq(Frame)
  /\ world \in World
  /\ result \in Results \union {NoResult}

\* The frame that runs inside callers[i].
Callee(i) == IF i = Len(callers) THEN cur ELSE callers[i + 1]

\* Gas is conserved across nested calls: what a suspended caller still holds
\* plus what its callee was given never exceeds the gas of the caller's own
\* message, up to the gas handed out unpaid (eeiCall, eeiCreate, and the
\* refunds when they return).
GasBudget ==
  /\ cur.gas <= cur.start + cur.credit
  /\ \A i \in 1..Len(callers) :
       callers[i].gas + Callee(i).start <= callers[i].start + callers[i].credit

\* Static mode is inherited by every nested call, and as long as a static
\* frame is active the world is the one it was entered with, whatever its
\* callees do, succeed or fail.
StaticPure ==
  /\ cur.static => world = cur.snap
  /\ \A i \in 1..Len(callers) :
       callers[i].static =>
         /\ world = callers[i].snap
         /\ cur.static
         /\ \A j \in i..Len(callers) : callers[j].static

\* The depth limit holds for every frame, also through delegate calls and
\* creations: depth counts the suspended frames and never passes the limit.
DepthCounts ==
  /\ cur.depth = Len(callers)
  /\ \A i \in 1..Len(callers) : callers[i].depth = i - 1 /\ callers[i].depth < MaxDepth

\* A nested call that hands its caller a nonzero result code has left no
\* trace in the world, and one that hands it zero has kept its effects.
ResultCodeTellsOutcome ==
  [][Len(callers') < Len(callers) /\ cur'.exc = "none" =>
       world' = IF cur'.rc = 0 THEN world ELSE cur.snap]_vars

\* A frame that ends in an exception other than EndExecution consumes all the
\* gas it was given: its caller gets none back.
FailureBurnsGas ==
  [][Len(callers') < Len(callers) /\ cur.exc # "EndExecution" =>
       cur'.gas = callers[Len(callers)].gas /\ cur'.ret = 0]_vars

\* "Add gas stipend for value transfers" (eeiCall): gas is added for calls
\* that transfer value and have paid for it, so no callee starts with gas its
\* caller did not give up.
StipendIsPaidFor ==
  \A i \in 1..Len(callers) :
    callers[i].meter => callers[i].gas + Callee(i).start <= callers[i].start
=============================================================================
