---------------------------- MODULE EncodedStore ----------------------------
(***************************************************************************)
(* The key-value store and the watches that the program uses when its keys *)
(* are encrypted: every key is encoded on the way to etcd, and every key   *)
(* in an answer or an event is decoded on the way back.                    *)
(***************************************************************************)
EXTENDS Naturals, Sequences

CONSTANTS
    Key,                  \* the keys the program uses
    Under(_, _),          \* does a key begin with a prefix?
    Encode(_), Decode(_), \* to and from what etcd stores
    Value, Absent,
    Request, Transaction, \* as in PlainStore
    Watcher, Scope(_),
    NoAnswer,
    MaxLog                \* bound: changes

(* Requests and transactions are about keys of the program.                *)
ASSUME RequestAssumption ==
    /\ \A r \in Request : ~r.pfx => r.key \in Key
    /\ \A n \in Watcher : Scope(n) \in Request
    /\ \A t \in Transaction : /\ DOMAIN t.cmp \subseteq Key
                              /\ DOMAIN t.puts \subseteq Key
                              /\ t.puts \in [DOMAIN t.puts -> Value \cup {Absent}]
                              /\ t.read \in Request

VARIABLES
    store,    \* etcd's value of every encoded key, or Absent
    elog,     \* what each change wrote, by encoded keys
    answer,   \* the last answer, as the program sees it
    next,     \* the revision that etcd sends to each watch next, or 0
    hand,     \* the events that the goroutine of a watch holds, in a sequence of
              \* none or one
    out       \* the events that the program was given last

vars == <<store, elog, answer, next, hand, out>>

Stored == {Encode(k) : k \in Key}

-----------------------------------------------------------------------------
(***************************************************************************)
(* Requests, encoded, and answers, decoded.                                *)
(***************************************************************************)

(* A slip: the end of the range is lost.                                   *)
encKeyOnly(r) == [key |-> Encode(r.key), pfx |-> FALSE]

(* The end of a prefix's range becomes that of the encoded prefix.         *)
encOp(r) == [key |-> Encode(r.key), pfx |-> r.pfx]

encCmps(cmp) == {<<Encode(k), cmp[k]>> : k \in DOMAIN cmp}

encPuts(w) == [e \in {Encode(k) : k \in DOMAIN w} |->
                 w[CHOOSE k \in DOMAIN w : Encode(k) = e]]

decKvs(S) == {<<Decode(x[1]), x[2]>> : x \in S}

(* What etcd does with the encoded request.                                *)
Matches(q) == {e \in Stored : IF q.pfx THEN Under(e, q.key) ELSE e = q.key}

Found(S) == {<<e, store[e]>> : e \in {x \in S : store[x] # Absent}}

Events(w, S) == {<<e, w[e]>> : e \in S \cap DOMAIN w}

Change(w) ==
    /\ store' = [e \in Stored |-> IF e \in DOMAIN w THEN w[e] ELSE store[e]]
    /\ elog' = IF DOMAIN w = {} THEN elog ELSE Append(elog, w)

-----------------------------------------------------------------------------
Init ==
    /\ store = [e \in Stored |-> Absent]
    /\ elog = <<>>
    /\ answer = NoAnswer
    /\ next = [n \in Watcher |-> 0]
    /\ hand = [n \in Watcher |-> <<>>]
    /\ out = [n \in Watcher |-> {}]

Room == Len(elog) < MaxLog

Get(r) ==
    /\ answer' = [ok |-> TRUE, kvs |-> decKvs(Found(Matches(encOp(r))))]
    /\ UNCHANGED <<store, elog, next, hand, out>>

(* Put and Delete answer with what was there, as when WithPrevKV is given. *)
Put(k, v) ==
    /\ Room
    /\ Change([e \in {Encode(k)} |-> v])
    /\ answer' = [ok |-> TRUE, kvs |-> decKvs(Found({Encode(k)}))]
    /\ UNCHANGED <<next, hand, out>>

Delete(r) ==
    /\ Room
    /\ Change([e \in {x \in Matches(encOp(r)) : store[x] # Absent} |-> Absent])
    /\ answer' = [ok |-> TRUE, kvs |-> decKvs(Found(Matches(encOp(r))))]
    /\ UNCHANGED <<next, hand, out>>

(* If, Then, Else and Commit.                                              *)
Txn(t) ==
    /\ Room
    /\ IF \A c \in encCmps(t.cmp) : store[c[1]] = c[2]
       THEN /\ Change(encPuts(t.puts))
            /\ answer' = [ok |-> TRUE, kvs |-> {}]
       ELSE /\ answer' = [ok |-> FALSE, kvs |-> decKvs(Found(Matches(encOp(t.read))))]
            /\ UNCHANGED <<store, elog>>
    /\ UNCHANGED <<next, hand, out>>

(* The options of a watch, its first revision and whether it is for a      *)
(* prefix, go to etcd as they are.                                         *)
Watch(n, rev) ==
    /\ next[n] = 0
    /\ next' = [next EXCEPT ![n] = rev]
    /\ UNCHANGED <<store, elog, answer, hand, out>>

(* The goroutine reads the next events of the watch,                       *)
Receive(n) ==
    /\ next[n] \in DOMAIN elog
    /\ hand[n] = <<>>
    /\ hand' = [hand EXCEPT ![n] = <<Events(elog[next[n]], Matches(encOp(Scope(n))))>>]
    /\ next' = [next EXCEPT ![n] = next[n] + 1]
    /\ UNCHANGED <<store, elog, answer, out>>

(* and decodes and passes them on.                                         *)
PassOn(n) ==
    /\ hand[n] # <<>>
    /\ out' = [out EXCEPT ![n] = decKvs(Head(hand[n]))]
    /\ hand' = [hand EXCEPT ![n] = <<>>]
    /\ UNCHANGED <<store, elog, answer, next>>

(* The watch is cancelled, or the watcher closed: the goroutine ends, with *)
(* events in hand or not.                                                  *)
Stop(n) ==
    /\ next[n] # 0
    /\ next' = [next EXCEPT ![n] = 0]
    /\ hand' = [hand EXCEPT ![n] = <<>>]
    /\ UNCHANGED <<store, elog, answer, out>>

Next ==
    \/ \E r \in Request : Get(r) \/ Delete(r)
    \/ \E k \in Key, v \in Value : Put(k, v)
    \/ \E t \in Transaction : Txn(t)
    \/ \E n \in Watcher :
        \/ \E rev \in 1..(Len(elog) + 1) : Watch(n, rev)
        \/ Receive(n)
        \/ PassOn(n)
        \/ Stop(n)

Spec == Init /\ [][Next]_vars

-----------------------------------------------------------------------------
(***************************************************************************)
(* Properties.                                                             *)
(***************************************************************************)

(* The store as it looks through the encoding.                             *)
decPuts(w) == [k \in {x \in Key : Encode(x) \in DOMAIN w} |-> w[Encode(k)]]

Plain == INSTANCE PlainStore WITH
            kv  <- [k \in Key |-> store[Encode(k)]],
            log <- [i \in DOMAIN elog |-> decPuts(elog[i])],
            pos <- [n \in Watcher |-> IF hand[n] = <<>> THEN next[n] ELSE next[n] - 1]

(* What keys must come back as, and what must match, for the encoding not  *)
(* to be noticed (key.go:82-114).                                          *)
FaithfulEncoding ==
    /\ \A k \in Key : Decode(Encode(k)) = k
    /\ \A r \in Request : r.pfx => \A k \in Key : Under(k, r.key) <=> Under(Encode(k), Encode(r.key))

(* The program cannot tell: every answer to a request or a transaction,    *)
(* and every event of a watch, is one of a store with its own keys         *)
(* (kv.go:42-174, watch.go:24-63).                                         *)
Transparent == Plain!Spec
=============================================================================
