---------------------------- MODULE Transactions ----------------------------
(***************************************************************************)
(* The optimistic transactions that commands run on.                       *)
(*                                                                         *)
(* doSTM hands a command's closure to etcd's software transactional        *)
(* memory.  An attempt reads from one revision of the store and collects   *)
(* its writes.  The commit applies them if every key that was read still   *)
(* has the modification revision it was read with; if not, it reads those  *)
(* keys again and the closure runs once more.  The closure's Go variables  *)
(* are declared outside of it: what one attempt left in them is there when *)
(* the next one begins.                                                    *)
(*                                                                         *)
(* A closure is given by the keys it asks for in advance, the keys it asks *)
(* for once it has seen those, and what it does with what it read.         *)
(***************************************************************************)
EXTENDS Naturals, Functions

CONSTANTS
    Proc,              \* goroutines that execute commands
    Key,
    Command,
    None,              \* the value of an absent key
    NoCommand,
    NoFlags,           \* the closure's variables before its first attempt
    Initial,           \* the stores a behaviour may begin with
    Input(_, _),       \* the commands a goroutine may begin on a store
    Together(_, _, _, _), \* may p begin c while q executes d?
    Prefetch(_),       \* the keys doSTM reads before it runs the closure
    More(_, _),        \* the keys the closure reads after that
    Run(_, _),         \* err: does it fail?  puts: what it writes, None for a
                       \* deletion; keep: keys that etcd must find for that
    Flags(_, _, _),    \* the closure's variables after an attempt
    Events(_),         \* what others may write to a store
    MaxRev             \* bound: no command or event begins at this revision

ASSUME CommandAssumption == NoCommand \notin Command

ASSUME RevBound == MaxRev \in Nat

VARIABLES
    data,   \* the value of every key
    mod,    \* its modification revision, 0 for an absent key
    rev,    \* the revision of the store
    proc    \* per goroutine, its command and the attempt it is at

vars == <<data, mod, rev, proc>>

-----------------------------------------------------------------------------
(***************************************************************************)
(* A command on a store.                                                   *)
(***************************************************************************)

(* What an attempt reads: every key from the same revision.                *)
View(c, d) ==
    LET first == Restrict(d, Key \cap Prefetch(c))
    IN Restrict(d, Key \cap (Prefetch(c) \cup More(c, first)))

Apply(d, w) == [k \in Key |-> IF k \in DOMAIN w THEN w[k] ELSE d[k]]

(* What a command does to a store that it has for itself.                  *)
Effect(c, d) == Apply(d, Run(c, View(c, d)).puts)

Outside(d) == {Apply(d, w) : w \in Events(d)}

-----------------------------------------------------------------------------
Idle == [st |-> "idle", cmd |-> NoCommand, view |-> <<>>, seen |-> <<>>, flags |-> NoFlags]

Init ==
    /\ data \in Initial
    /\ mod = [k \in Key |-> IF data[k] = None THEN 0 ELSE 1]
    /\ rev = 1
    /\ proc = [p \in Proc |-> Idle]

(* A slip: a key that is written keeps the revision of the write before.   *)
WriteAtOldRev(w) ==
    /\ data' = Apply(data, w)
    /\ mod' = [k \in Key |-> IF k \notin DOMAIN w THEN mod[k]
                             ELSE IF w[k] = None THEN 0 ELSE rev]
    /\ rev' = IF DOMAIN w = {} THEN rev ELSE rev + 1

(* Writing w makes a new revision, unless there is nothing to write.       *)
Write(w) ==
    /\ data' = Apply(data, w)
    /\ mod' = [k \in Key |-> IF k \notin DOMAIN w THEN mod[k]
                             ELSE IF w[k] = None THEN 0 ELSE rev + 1]
    /\ rev' = IF DOMAIN w = {} THEN rev ELSE rev + 1

(* A goroutine whose command failed: handleConn ends its client.           *)
Failed(c) == [st |-> "failed", cmd |-> c, view |-> <<>>, seen |-> <<>>, flags |-> NoFlags]

(* Slips in what follows, for the runs that break a property: keys that    *)
(* were not asked for in advance are not compared, nothing is compared, a  *)
(* retry starts from what was read before.                                 *)
SeenFirst(c, v)  == Restrict(mod, DOMAIN v \cap Prefetch(c))
AlwaysCurrent(p) == TRUE
RetrySame(p)     == proc[p].st = "commit" /\ UNCHANGED vars

(* The revisions that the commit compares: those of all keys that were     *)
(* read.                                                                   *)
Seen(c, v) == Restrict(mod, DOMAIN v)

(* An attempt at c, which reads the store as it is, begins.                *)
Attempt(p, c, fl) ==
    \E v \in {View(c, data)} :
       proc' = [proc EXCEPT ![p] =
                   IF Run(c, v).err THEN Failed(c)
                   ELSE [st |-> "commit", cmd |-> c, view |-> v, seen |-> Seen(c, v),
                         flags |-> Flags(c, v, fl)]]

Begin(p, c) ==
    /\ rev < MaxRev
    /\ c \in Command
    /\ proc[p].st = "idle"
    /\ \A q \in Proc \ {p} : proc[q].cmd # NoCommand => Together(p, c, q, proc[q].cmd)
    /\ Attempt(p, c, NoFlags)
    /\ UNCHANGED <<data, mod, rev>>

(* Does every key that p read still have the revision it was read with?    *)
Current(p) == \A k \in DOMAIN proc[p].seen : mod[k] = proc[p].seen[k]

Outcome(p) == Run(proc[p].cmd, proc[p].view)

(* A put that is to keep its key's lease, or to use a lease, needs them.   *)
Accepted(p) == \A k \in Key \cap Outcome(p).keep : data[k] # None

Fail(p) == proc' = [proc EXCEPT ![p] = Failed(proc[p].cmd)]

(* The variables of the closure are what the answer is made of.            *)
Succeed(p) == proc' = [proc EXCEPT ![p] =
                  [st |-> "done", cmd |-> proc[p].cmd, view |-> proc[p].view, seen |-> <<>>,
                   flags |-> proc[p].flags]]

(* etcd finds the keys as they were read, and applies the writes or, if it *)
(* lacks a key or a lease that they need, rejects them.  An answer may be  *)
(* lost with the connection or come after the client's context is          *)
(* cancelled: the command is then an error to the handler, though its      *)
(* writes are there.                                                       *)
Commit(p) ==
    /\ proc[p].st = "commit"
    /\ Current(p)
    /\ IF Accepted(p)
       THEN /\ \E w \in {Outcome(p).puts} : Write(w)
            /\ Succeed(p) \/ Fail(p)
       ELSE /\ Fail(p)
            /\ UNCHANGED <<data, mod, rev>>

(* The context is cancelled before etcd sees the commit.                   *)
Abort(p) ==
    /\ proc[p].st = "commit"
    /\ Fail(p)
    /\ UNCHANGED <<data, mod, rev>>

(* The commit fails and brings the keys as they are now.                   *)
Conflict(p) ==
    /\ proc[p].st = "commit"
    /\ ~Current(p)
    /\ Attempt(p, proc[p].cmd, proc[p].flags)
    /\ UNCHANGED <<data, mod, rev>>

(* The command answers its client and returns.                             *)
Return(p) ==
    /\ proc[p].st = "done"
    /\ proc' = [proc EXCEPT ![p] = Idle]
    /\ UNCHANGED <<data, mod, rev>>

(* Another writer: a lease that expires, ircdctl.                          *)
Event(w) ==
    /\ rev < MaxRev
    /\ Write(w)
    /\ UNCHANGED proc

Step(p) == Commit(p) \/ Conflict(p) \/ Return(p)

Next ==
    \/ \E p \in Proc : \/ \E c \in Input(p, data) : Begin(p, c)
                       \/ Commit(p)
                       \/ Abort(p)
                       \/ Conflict(p)
                       \/ Return(p)
    \/ \E w \in Events(data) : Event(w)

Spec == Init /\ [][Next]_vars

(* doSTM loops until its transaction is through, and etcd answers it.      *)
FairSpec == Spec /\ \A p \in Proc : WF_vars(Step(p))

-----------------------------------------------------------------------------
(***************************************************************************)
(* Properties.                                                             *)
(***************************************************************************)

(* A goroutine is doing its command until the attempt that settles it.     *)
Doing == [p \in Proc |-> IF proc[p].st = "commit" THEN proc[p].cmd ELSE NoCommand]

Atomic == INSTANCE AtomicTransactions WITH doing <- Doing

(* Commands interleave, conflict and retry, leases expire under them and   *)
(* answers are lost; still each has its whole effect at one instant, on    *)
(* the store as it is then, or none (etcd_client.go:1147).                 *)
Serializable == Atomic!Spec

(* What the commit's comparisons rest on: a modification revision that has *)
(* not changed since a key was read means that its value has not, absent   *)
(* and deleted keys included (stm.go:360).                                 *)
SameRevSameValue ==
    /\ \A k \in Key : mod[k] <= rev /\ (mod[k] = 0 <=> data[k] = None)
    /\ \A p \in Proc : proc[p].st = "commit" =>
         \A k \in DOMAIN proc[p].view :
            proc[p].seen[k] = mod[k] => proc[p].view[k] = data[k]

(* A command that begins ends: with an answer, or with the client          *)
(* (stm.go:154).                                                           *)
EveryCommandEnds ==
    \A p \in Proc : proc[p].st = "commit" ~> proc[p].st \in {"done", "failed"}
=============================================================================
