------------------------------ MODULE NanoLedger ------------------------------
(***************************************************************************)
(* The Nano network as the code under src/ uses it.  It is external code:  *)
(* a node answers account_info, process and block_info                     *)
(* (packages/rpc/src/index.ts).                                            *)
(*                                                                         *)
(* An account is a chain of state blocks.  A block hash commits to the     *)
(* block's content and, through "previous", to every block before it, so   *)
(* a block is represented by the sequence of operations that ends with it: *)
(* two blocks have the same hash exactly when these sequences are equal.   *)
(* A chain is then a sequence of operations too, and the block that a      *)
(* chain ends with is the chain itself (its frontier).                     *)
(***************************************************************************)
EXTENDS Integers, Sequences, SequencesExt

(* The operation of a state block: what it does to the balance and the     *)
(* account or the source block it names.                                   *)
SendOp(destination, amount) ==
    [kind |-> "send", link |-> destination, amount |-> amount]
ReceiveOp(source, amount) ==
    [kind |-> "receive", link |-> source, amount |-> amount]

(* The balance a chain leaves, over the balance the account opened with.   *)
Effect(op) == IF op.kind = "send" THEN - op.amount ELSE op.amount
Balance(opening, chain) ==
    FoldSeq(LAMBDA op, total : Effect(op) + total, opening, chain)

(* block_info knows a block once it is on the account's chain.             *)
OnChain(block, chain) == block # << >> /\ IsPrefix(block, chain)

(* What a node answers when a signed block is submitted: it checks the     *)
(* work, then whether it has the block, then whether the block extends the *)
(* frontier.                                                               *)
Verdict(block, work, chain) ==
    IF work = "low" THEN "work rejected"
    ELSE IF OnChain(block, chain) THEN "old block"
    ELSE IF block # << >> /\ Front(block) = chain THEN "accepted"
    ELSE "fork"
===============================================================================
