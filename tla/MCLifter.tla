------------------------------ MODULE MCLifter ------------------------------
(***************************************************************************)
(* Contracts with a conditional jump over a fall-through block, forward    *)
(* and backward targets, constant and computed ones.                       *)
(***************************************************************************)
EXTENDS Lifter

MCOpcodes == <<"STOP", "JUMPDEST", "PUSH1", "JUMPI", "JUMP", "GAS", "ADD", "POP", "DUP1",
  "SWAP1", "PUSH2", "INVALID", "DUP2", "SWAP2", "RETURN", "REVERT", "SUICIDE", "CODECOPY">>

MCMnemonic == [b \in 0..17 |-> MCOpcodes[b + 1]]

Bytes(ops) == {b \in DOMAIN MCMnemonic : MCMnemonic[b] \in ops}

\* GAS GAS x PUSH1 t JUMPI y z e JUMPDEST w f: the only valid targets are 9 and,
\* where a JUMPDEST is chosen, 2, 6, 7 and 8.
Branching(Xs, Ts, Ys, Zs, Es, Ws, Fs) ==
  {<<5, 5, x, 2, t, 3, y, z, e, 1, w, f>> :
     x \in Bytes(Xs), t \in Ts, y \in Bytes(Ys), z \in Bytes(Zs), e \in Bytes(Es),
     w \in Bytes(Ws), f \in Bytes(Fs)}

\* GAS PUSH2 0 t JUMP JUMPDEST w f
Straight(Ts, Ws, Fs) ==
  {<<5, 10, 0, t, 4, 1, w, f>> : t \in Ts, w \in Bytes(Ws), f \in Bytes(Fs)}

\* Loops that leave an item on the stack every time round.
Looping(Ys, Zs) ==
  {<<1, 5, 5, 2, 0, 3, y, z>> : y \in Bytes(Ys), z \in Bytes(Zs)} \union {<<1, 5, 10, 0, 0, 4>>}

\* CODECOPY with operands in registers, and from mstk.
Copying == {<<5, 5, 5, 17, 0>>, <<5, 5, 5, 1, 17, 0>>}

MCPrograms ==
  Branching({"GAS", "DUP1", "JUMPDEST"}, {2, 9}, {"ADD", "DUP2", "SWAP1", "JUMPDEST"},
            {"GAS", "JUMP", "JUMPI"}, {"JUMP"}, {"DUP2"}, {"JUMP"})
  \union Branching({"GAS", "JUMPDEST"}, {9}, {"DUP2", "JUMPDEST"}, {"GAS", "JUMPI"},
            {"STOP", "JUMP", "JUMPDEST", "INVALID"}, {"ADD", "SWAP2", "DUP2"}, {"JUMP", "RETURN"})
  \union Copying
  \union Looping({"GAS", "SWAP1"}, {"JUMP", "STOP"})
  \union Straight({0, 5, 6}, {"DUP1", "GAS", "POP"}, {"JUMP", "REVERT", "SUICIDE"})

\* The code ends without a STOP; JUMPDEST GAS POP starts with a target at 0.
MCOpenPrograms == Straight({5}, {"GAS"}, {"POP"}) \union {<<1, 5, 7>>}

\* Constants moved by SWAP1 under the target of a jump.
MCSwapPrograms == {<<2, 6, 2, 6, 9, 4, 1, 0>>, <<2, 8, 2, 0, 9, 4, 0, 0, 1, 0>>}
=============================================================================
