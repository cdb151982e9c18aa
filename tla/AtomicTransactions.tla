------------------------- MODULE AtomicTransactions -------------------------
(***************************************************************************)
(* What doSTM promises its callers: a command that changes the store does  *)
(* so at one instant between its call and its return, as if nothing else   *)
(* ran at that instant, or does not change it at all.                      *)
(***************************************************************************)
CONSTANTS
    Proc,             \* goroutines that execute commands
    Command,
    NoCommand,        \* the goroutine executes nothing
    Initial,          \* the stores a behaviour may begin with
    Effect(_, _),     \* the store that a command makes of a store
    Outside(_)        \* the stores that others can make of a store

VARIABLES
    data,    \* the store
    doing    \* per goroutine, the command that has not yet had its effect

vars == <<data, doing>>

Init ==
    /\ data \in Initial
    /\ doing = [p \in Proc |-> NoCommand]

Call(p) ==
    /\ doing[p] = NoCommand
    /\ doing'[p] \in Command
    /\ doing' = [doing EXCEPT ![p] = doing'[p]]
    /\ UNCHANGED data

(* The command has its effect, all of it at once.                          *)
Do(p) ==
    /\ doing[p] # NoCommand
    /\ data' = Effect(doing[p], data)
    /\ doing' = [doing EXCEPT ![p] = NoCommand]

(* The command ends with an error and without an effect.                   *)
GiveUp(p) ==
    /\ doing[p] # NoCommand
    /\ doing' = [doing EXCEPT ![p] = NoCommand]
    /\ UNCHANGED data

(* Leases expire, and operators are added and removed by hand.             *)
Interfere ==
    /\ data' \in Outside(data)
    /\ UNCHANGED doing

Next ==
    \/ \E p \in Proc : Call(p) \/ Do(p) \/ GiveUp(p)
    \/ Interfere

Spec == Init /\ [][Next]_vars
=============================================================================
