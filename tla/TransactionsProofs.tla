------------------------- MODULE TransactionsProofs -------------------------
(***************************************************************************)
(* Every command of a Transactions behaviour is atomic, whatever the       *)
(* commands read and write and however many goroutines execute them.       *)
(***************************************************************************)
EXTENDS Transactions, TLAPS

(* The types the argument needs.                                           *)
Numbers ==
    /\ mod \in [Key -> Nat]
    /\ rev \in Nat
    /\ proc = [p \in Proc |-> proc[p]]

(* The revision of every key follows its value.                            *)
Stamped == \A k \in Key : mod[k] <= rev /\ (mod[k] = 0 <=> data[k] = None)

(* What p read for the attempt that it is about to commit.                 *)
ReadBy(p) ==
    /\ proc[p].cmd \in Command
    /\ proc[p].view = View(proc[p].cmd, proc[p].view)
    /\ DOMAIN proc[p].seen = DOMAIN proc[p].view
    /\ DOMAIN proc[p].view \subseteq Key
    /\ \A k \in DOMAIN proc[p].view :
         /\ proc[p].seen[k] \in Nat
         /\ proc[p].seen[k] <= rev
         /\ proc[p].seen[k] = 0 <=> proc[p].view[k] = None
         /\ proc[p].seen[k] = mod[k] => proc[p].view[k] = data[k]

(* The inductive invariant.                                                *)
Consistent ==
    /\ Numbers
    /\ Stamped
    /\ \A p \in Proc : proc[p].st = "commit" => ReadBy(p)

(* An attempt reads exactly what its closure would read on any store that  *)
(* agrees with it on those keys.                                           *)
LEMMA ViewOfAgreeing ==
    ASSUME NEW c, NEW d, NEW e,
           \A k \in DOMAIN View(c, d) : d[k] = e[k]
    PROVE  View(c, e) = View(c, d)
<1> DEFINE P == Key \cap Prefetch(c)
           F(x) == [k \in P |-> x[k]]
           R(x) == Key \cap (Prefetch(c) \cup More(c, F(x)))
<1>1. /\ View(c, d) = [k \in R(d) |-> d[k]]
      /\ View(c, e) = [k \in R(e) |-> e[k]]
  BY DEF View, Restrict
<1>2. \A k \in R(d) : d[k] = e[k]
  BY <1>1
<1>3. P \subseteq R(d)
  OBVIOUS
<1>4. F(d) = F(e)
  <2> HIDE DEF R
  <2> QED
    BY <1>2, <1>3
<1>5. R(d) = R(e)
  BY <1>4
<1> HIDE DEF R
<1> QED
  BY <1>1, <1>2, <1>5

(* An attempt that starts now has read what is there now.                  *)
LEMMA FreshView ==
    ASSUME NEW c
    PROVE  /\ DOMAIN View(c, data) \subseteq Key
           /\ \A k \in DOMAIN View(c, data) : View(c, data)[k] = data[k]
           /\ View(c, View(c, data)) = View(c, data)
<1>1. /\ DOMAIN View(c, data) \subseteq Key
      /\ \A k \in DOMAIN View(c, data) : View(c, data)[k] = data[k]
  BY DEF View, Restrict
<1>2. View(c, View(c, data)) = View(c, data)
  BY <1>1, ViewOfAgreeing
<1> QED
  BY <1>1, <1>2
(* So such an attempt is one that may commit.                              *)
LEMMA AttemptReads ==
    ASSUME Numbers, Stamped, NEW c \in Command, NEW fl,
           NEW p \in Proc, Attempt(p, c, fl), proc'[p].st = "commit",
           UNCHANGED <<data, mod, rev>>
    PROVE  ReadBy(p)'
<1> DEFINE v == View(c, data)
           a == proc'[p]
<1>1. /\ a.cmd = c
      /\ a.view = v
      /\ a.seen = [k \in DOMAIN v |-> mod[k]]
  BY DEF Attempt, Numbers, Failed, Seen, Restrict
<1>2. proc'[p] = a
  OBVIOUS
<1>3. /\ DOMAIN v \subseteq Key
      /\ \A k \in DOMAIN v : v[k] = data[k]
      /\ View(c, v) = v
  BY FreshView
<1>4. View(c, v)' = View(c, v)
  BY DEF View, Restrict
<1> HIDE DEF v, a
<1>5. /\ proc'[p].cmd \in Command
      /\ DOMAIN proc'[p].seen = DOMAIN proc'[p].view
      /\ DOMAIN proc'[p].view \subseteq Key
  BY <1>1, <1>2, <1>3
<1>6. ASSUME NEW k \in DOMAIN proc'[p].view
      PROVE  /\ proc'[p].seen[k] \in Nat
             /\ proc'[p].seen[k] <= rev'
             /\ proc'[p].seen[k] = 0 <=> proc'[p].view[k] = None
             /\ proc'[p].seen[k] = mod'[k] => proc'[p].view[k] = data'[k]
  BY <1>1, <1>2, <1>3 DEF Numbers, Stamped
<1>7. proc'[p].view = View(proc'[p].cmd, proc'[p].view)
  BY <1>1, <1>2, <1>3
<1> QED
  BY <1>5, <1>6, <1>7 DEF ReadBy, View

(* A write gives its keys a revision that no attempt has seen, or removes  *)
(* them, so what was read and is unchanged still counts, and nothing else. *)
LEMMA WriteKeeps ==
    ASSUME Numbers, Stamped, NEW w, Write(w)
    PROVE  /\ mod' \in [Key -> Nat]
           /\ rev' \in Nat
           /\ Stamped'
           /\ \A q \in Proc : ReadBy(q) /\ proc'[q] = proc[q] => ReadBy(q)'
<1>1. /\ mod' \in [Key -> Nat]
      /\ rev' \in Nat
      /\ rev <= rev'
      /\ \A k \in Key : k \in DOMAIN w => rev' = rev + 1
  BY DEF Write, Numbers
<1>2. ASSUME NEW k \in Key
      PROVE  /\ mod'[k] <= rev'
             /\ mod'[k] = 0 <=> data'[k] = None
             /\ \/ mod'[k] = mod[k] /\ data'[k] = data[k]
                \/ mod'[k] = 0 /\ data'[k] = None
                \/ mod'[k] = rev + 1
  <2>1. CASE k \in DOMAIN w
    BY <1>1, <2>1 DEF Write, Apply, Numbers
  <2>2. CASE k \notin DOMAIN w
    BY <1>1, <2>2 DEF Write, Apply, Numbers, Stamped
  <2> QED
    BY <2>1, <2>2
<1>3. ASSUME NEW q \in Proc, ReadBy(q), proc'[q] = proc[q]
      PROVE  ReadBy(q)'
  <2>1. ASSUME NEW k \in DOMAIN proc[q].view
        PROVE  /\ proc[q].seen[k] <= rev'
               /\ proc[q].seen[k] = mod'[k] => proc[q].view[k] = data'[k]
    BY <1>1, <1>2, <1>3 DEF ReadBy, Numbers
  <2> QED
    BY <1>3, <2>1 DEF ReadBy, View
<1> QED
  BY <1>1, <1>2, <1>3 DEF Stamped

(* A command that ends leaves the other goroutines alone.                  *)
LEMMA EndKeeps ==
    ASSUME Numbers, NEW p \in Proc, Succeed(p) \/ Fail(p)
    PROVE  /\ (proc = [q \in Proc |-> proc[q]])'
           /\ \A q \in Proc : q # p => proc'[q] = proc[q]
           /\ proc'[p].st # "commit"
  BY DEF Numbers, Succeed, Fail, Failed

LEMMA StepKeepsConsistent == Consistent /\ [Next]_vars => Consistent'
<1> SUFFICES ASSUME Consistent, [Next]_vars
             PROVE  Consistent'
  OBVIOUS
<1> USE DEF Consistent
<1>1. ASSUME NEW p \in Proc, NEW c \in Command, NEW fl, Attempt(p, c, fl),
             UNCHANGED <<data, mod, rev>>
      PROVE  Consistent'
  <2>1. proc'[p].st = "commit" => ReadBy(p)'
    BY <1>1, AttemptReads
  <2>2. Numbers' /\ Stamped'
    BY <1>1 DEF Numbers, Stamped, Attempt
  <2>3. ASSUME NEW q \in Proc, q # p, proc'[q].st = "commit"
        PROVE  ReadBy(q)'
    <3>1. proc'[q] = proc[q]
      BY <1>1, <2>3 DEF Numbers, Attempt
    <3>2. ReadBy(q) /\ UNCHANGED <<data, mod, rev>>
      BY <1>1, <2>3, <3>1
    <3> QED
      BY <3>1, <3>2 DEF ReadBy, View
  <2> QED
    BY <2>1, <2>2, <2>3
<1>2. ASSUME NEW p \in Proc, Fail(p), UNCHANGED <<data, mod, rev>>
      PROVE  Consistent'
  <2>1. Numbers' /\ Stamped'
    BY <1>2, EndKeeps DEF Numbers, Stamped
  <2>2. ASSUME NEW q \in Proc, proc'[q].st = "commit"
        PROVE  ReadBy(q)'
    <3>1. q # p /\ proc'[q] = proc[q]
      BY <1>2, <2>2, EndKeeps
    <3>2. ReadBy(q) /\ UNCHANGED <<data, mod, rev>>
      BY <1>2, <2>2, <3>1
    <3> QED
      BY <3>1, <3>2 DEF ReadBy, View
  <2> QED
    BY <2>1, <2>2
<1>3. ASSUME NEW p \in Proc, NEW c, Begin(p, c)
      PROVE  Consistent'
  BY <1>1, <1>3 DEF Begin
<1>4. ASSUME NEW p \in Proc, Conflict(p)
      PROVE  Consistent'
  <2>1. proc[p].cmd \in Command
    BY <1>4 DEF Conflict, ReadBy
  <2> QED
    BY <1>1, <1>4, <2>1 DEF Conflict
<1>5. ASSUME NEW p \in Proc, Commit(p)
      PROVE  Consistent'
  <2>1. CASE ~Accepted(p)
    BY <1>2, <1>5, <2>1 DEF Commit
  <2>2. CASE Accepted(p)
    <3>1. Succeed(p) \/ Fail(p)
      BY <1>5, <2>2 DEF Commit
    <3>2. PICK w : Write(w)
      BY <1>5, <2>2 DEF Commit
    <3>3. Numbers' /\ Stamped'
      BY <3>1, <3>2, EndKeeps, WriteKeeps DEF Numbers
    <3>4. ASSUME NEW q \in Proc, proc'[q].st = "commit"
          PROVE  ReadBy(q)'
      <4>1. proc'[q] = proc[q]
        BY <3>1, <3>4, EndKeeps
      <4> QED
        BY <3>2, <3>4, <4>1, WriteKeeps
    <3> QED
      BY <3>3, <3>4
  <2> QED
    BY <2>1, <2>2
<1>6. ASSUME NEW p \in Proc, Abort(p)
      PROVE  Consistent'
  BY <1>2, <1>6 DEF Abort
<1>7. ASSUME NEW p \in Proc, Return(p)
      PROVE  Consistent'
  <2>1. Numbers' /\ Stamped'
    BY <1>7 DEF Return, Idle, Numbers, Stamped
  <2>2. ASSUME NEW q \in Proc, proc'[q].st = "commit"
        PROVE  ReadBy(q)'
    BY <1>7, <2>2 DEF Return, Idle, Numbers, ReadBy, View
  <2> QED
    BY <2>1, <2>2
<1>8. ASSUME NEW w, Event(w)
      PROVE  Consistent'
  <2>1. Numbers' /\ Stamped'
    BY <1>8, WriteKeeps DEF Event, Numbers
  <2> QED
    BY <1>8, <2>1, WriteKeeps DEF Event
<1>9. CASE UNCHANGED vars
  BY <1>9 DEF vars, Numbers, Stamped, ReadBy, View
<1> QED
  BY <1>3, <1>4, <1>5, <1>6, <1>7, <1>8, <1>9 DEF Next

LEMMA InitConsistent == Init => Consistent
  BY DEF Init, Consistent, Numbers, Stamped, Idle

(* For every set of commands, every closure and any number of goroutines:  *)
(* the comparison of revisions at commit is as good as one of values       *)
(* (stm.go:342-365).                                                       *)
THEOREM RevisionsSuffice == Spec => []SameRevSameValue
<1>1. Consistent => SameRevSameValue
  BY DEF Consistent, Stamped, ReadBy, SameRevSameValue
<1> QED
  BY <1>1, InitConsistent, StepKeepsConsistent, PTL DEF Spec

(* The refinement.                                                         *)
THEOREM CommandsAreAtomic == Spec => Serializable
<1>1. Init => Atomic!Init
  BY DEF Init, Atomic!Init, Idle, Doing
<1>2. Consistent /\ [Next]_vars => [Atomic!Next]_(Atomic!vars)
  <2> SUFFICES ASSUME Consistent, [Next]_vars
               PROVE  [Atomic!Next]_(Atomic!vars)
    OBVIOUS
  <2>1. ASSUME NEW p \in Proc, NEW c \in Command, NEW fl, Attempt(p, c, fl)
        PROVE  Doing' = [Doing EXCEPT ![p] = IF Run(c, View(c, data)).err THEN NoCommand ELSE c]
    <3>1. \A q \in Proc : q # p => proc'[q] = proc[q]
      BY <2>1 DEF Attempt, Consistent, Numbers
    <3>2. CASE Run(c, View(c, data)).err
      <4>1. proc'[p].st = "failed"
        BY <2>1, <3>2 DEF Attempt, Failed, Consistent, Numbers
      <4> QED
        BY <3>1, <3>2, <4>1 DEF Doing
    <3>3. CASE ~Run(c, View(c, data)).err
      <4>1. proc'[p].st = "commit" /\ proc'[p].cmd = c
        BY <2>1, <3>3 DEF Attempt, Consistent, Numbers
      <4> QED
        BY <3>1, <3>3, <4>1 DEF Doing
    <3> QED
      BY <3>2, <3>3
  <2>2. ASSUME NEW p \in Proc, Succeed(p) \/ Fail(p)
        PROVE  Doing' = [Doing EXCEPT ![p] = NoCommand]
    BY <2>2, EndKeeps DEF Doing, Consistent
  <2>3. ASSUME NEW p \in Proc, proc[p].st = "commit"
        PROVE  Doing[p] = proc[p].cmd /\ proc[p].cmd \in Command /\ Doing[p] # NoCommand
    BY <2>3, CommandAssumption DEF Doing, Consistent, ReadBy
  <2>4. ASSUME NEW p \in Proc, NEW c, Begin(p, c)
        PROVE  Atomic!Call(p) \/ UNCHANGED Atomic!vars
    <3>1. /\ Doing[p] = NoCommand
          /\ \/ Doing' = [Doing EXCEPT ![p] = NoCommand]
             \/ Doing' = [Doing EXCEPT ![p] = c]
          /\ c \in Command
          /\ UNCHANGED data
      BY <2>1, <2>4 DEF Begin, Doing
    <3>2. Doing = [q \in Proc |-> Doing[q]]
      BY DEF Doing
    <3> QED
      BY <3>1, <3>2 DEF Atomic!Call, Atomic!vars
  <2>5. ASSUME NEW p \in Proc, Commit(p)
        PROVE  Atomic!Do(p) \/ Atomic!GiveUp(p)
    <3>1. View(proc[p].cmd, data) = proc[p].view
      <4>1. /\ ReadBy(p)
            /\ \A k \in DOMAIN proc[p].view : mod[k] = proc[p].seen[k]
        BY <2>5 DEF Consistent, Commit, Current, ReadBy
      <4>2. \A k \in DOMAIN View(proc[p].cmd, proc[p].view) : proc[p].view[k] = data[k]
        BY <4>1 DEF ReadBy
      <4>3. View(proc[p].cmd, data) = View(proc[p].cmd, proc[p].view)
        BY <4>2, ViewOfAgreeing
      <4> QED
        BY <4>1, <4>3 DEF ReadBy
    <3>2. Doing' = [Doing EXCEPT ![p] = NoCommand]
      BY <2>2, <2>5 DEF Commit
    <3>3. CASE Accepted(p)
      <4>1. data' = Effect(Doing[p], data)
        BY <2>3, <2>5, <3>1, <3>3 DEF Commit, Write, Outcome, Effect
      <4> QED
        BY <2>3, <2>5, <3>2, <4>1 DEF Commit, Atomic!Do
    <3>4. CASE ~Accepted(p)
      BY <2>3, <2>5, <3>2, <3>4 DEF Commit, Atomic!GiveUp
    <3> QED
      BY <3>3, <3>4
  <2>6. ASSUME NEW p \in Proc, Abort(p)
        PROVE  Atomic!GiveUp(p)
    BY <2>2, <2>3, <2>6 DEF Abort, Atomic!GiveUp
  <2>7. ASSUME NEW p \in Proc, Conflict(p)
        PROVE  Atomic!GiveUp(p) \/ UNCHANGED Atomic!vars
    <3>1. /\ Doing[p] = proc[p].cmd /\ Doing[p] # NoCommand
          /\ \/ Doing' = [Doing EXCEPT ![p] = NoCommand]
             \/ Doing' = [Doing EXCEPT ![p] = Doing[p]]
          /\ UNCHANGED data
      BY <2>1, <2>3, <2>7 DEF Conflict
    <3>2. Doing = [Doing EXCEPT ![p] = Doing[p]]
      BY DEF Doing
    <3> QED
      BY <3>1, <3>2 DEF Atomic!GiveUp, Atomic!vars
  <2>8. ASSUME NEW p \in Proc, Return(p)
        PROVE  UNCHANGED Atomic!vars
    BY <2>8 DEF Return, Idle, Doing, Atomic!vars, Consistent, Numbers
  <2>9. ASSUME NEW w \in Events(data), Event(w)
        PROVE  Atomic!Interfere
    BY <2>9 DEF Event, Write, Atomic!Interfere, Outside, Doing
  <2>10. CASE UNCHANGED vars
    BY <2>10 DEF vars, Atomic!vars, Doing
  <2> QED
    BY <2>4, <2>5, <2>6, <2>7, <2>8, <2>9, <2>10 DEF Next, Atomic!Next
<1> QED
  BY <1>1, <1>2, InitConsistent, StepKeepsConsistent, PTL DEF Spec, Serializable, Atomic!Spec
=============================================================================
