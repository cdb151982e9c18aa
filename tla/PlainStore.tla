----------------------------- MODULE PlainStore -----------------------------
(***************************************************************************)
(* What the rest of the program takes etcd's client to be: a store of keys *)
(* as the program writes them, whose changes watches deliver in order.     *)
(***************************************************************************)
EXTENDS Naturals, Sequences

CONSTANTS
    Key,
    Under(_, _),   \* does a key begin with a prefix?
    Value, Absent,
    Request,       \* keys or prefixes to read or delete: [key, pfx]
    Transaction,   \* [cmp, puts, read]: if the keys of cmp have the values it
                   \* says, write puts, and if not, read
    Watcher,
    Scope(_),      \* the request for the keys that a watcher follows
    NoAnswer

VARIABLES
    kv,       \* the value of every key, or Absent
    log,      \* what each change wrote
    answer,   \* the answer to the last request
    pos,      \* the revision that each watcher is to see next, or 0
    out       \* the events that it was given last

vars == <<kv, log, answer, pos, out>>

(* The keys that a request is about.                                       *)
Range(r) == IF r.pfx THEN {k \in Key : Under(k, r.key)} ELSE {r.key}

Found(S) == {<<k, kv[k]>> : k \in {x \in S : kv[x] # Absent}}

Events(w, S) == {<<k, w[k]>> : k \in S \cap DOMAIN w}

Init ==
    /\ kv = [k \in Key |-> Absent]
    /\ log = <<>>
    /\ answer = NoAnswer
    /\ pos = [n \in Watcher |-> 0]
    /\ out = [n \in Watcher |-> {}]

Change(w) ==
    /\ kv' = [k \in Key |-> IF k \in DOMAIN w THEN w[k] ELSE kv[k]]
    /\ log' = IF DOMAIN w = {} THEN log ELSE Append(log, w)

Get(r) ==
    /\ answer' = [ok |-> TRUE, kvs |-> Found(Range(r))]
    /\ UNCHANGED <<kv, log, pos, out>>

(* Put and Delete answer with what was there before.                       *)
Put(k, v) ==
    /\ Change([x \in {k} |-> v])
    /\ answer' = [ok |-> TRUE, kvs |-> Found({k})]
    /\ UNCHANGED <<pos, out>>

Delete(r) ==
    /\ Change([x \in {k \in Range(r) : kv[k] # Absent} |-> Absent])
    /\ answer' = [ok |-> TRUE, kvs |-> Found(Range(r))]
    /\ UNCHANGED <<pos, out>>

Txn(t) ==
    /\ IF \A k \in DOMAIN t.cmp : kv[k] = t.cmp[k]
       THEN Change(t.puts) /\ answer' = [ok |-> TRUE, kvs |-> {}]
       ELSE answer' = [ok |-> FALSE, kvs |-> Found(Range(t.read))] /\ UNCHANGED <<kv, log>>
    /\ UNCHANGED <<pos, out>>

(* A watch begins with a change that was made, or with the next.           *)
Watch(n, rev) ==
    /\ pos[n] = 0
    /\ pos' = [pos EXCEPT ![n] = rev]
    /\ UNCHANGED <<kv, log, answer, out>>

Deliver(n) ==
    /\ pos[n] \in DOMAIN log
    /\ out' = [out EXCEPT ![n] = Events(log[pos[n]], Range(Scope(n)))]
    /\ pos' = [pos EXCEPT ![n] = pos[n] + 1]
    /\ UNCHANGED <<kv, log, answer>>

Stop(n) ==
    /\ pos' = [pos EXCEPT ![n] = 0]
    /\ UNCHANGED <<kv, log, answer, out>>

Next ==
    \/ \E r \in Request : Get(r) \/ Delete(r)
    \/ \E k \in Key, v \in Value : Put(k, v)
    \/ \E t \in Transaction : Txn(t)
    \/ \E n \in Watcher :
        \/ \E rev \in 1..(Len(log) + 1) : Watch(n, rev)
        \/ Deliver(n)
        \/ Stop(n)

Spec == Init /\ [][Next]_vars
=============================================================================
