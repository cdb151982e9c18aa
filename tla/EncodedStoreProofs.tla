------------------------- MODULE EncodedStoreProofs -------------------------
(***************************************************************************)
(* With an encoding that restores keys and keeps prefixes, the store with  *)
(* encoded keys implements the plain one, for every set of keys, requests, *)
(* transactions and watchers.                                              *)
(***************************************************************************)
EXTENDS EncodedStore, TLAPS

(* Keys that differ are stored apart.                                      *)
LEMMA KeysStayApart ==
    ASSUME FaithfulEncoding, NEW j \in Key, NEW k \in Key, Encode(j) = Encode(k)
    PROVE  j = k
<1>1. Decode(Encode(j)) = j /\ Decode(Encode(k)) = k
  BY DEF FaithfulEncoding
<1> QED BY <1>1

(* An encoded request is about the encodings of the keys that the request  *)
(* is about.                                                               *)
LEMMA SameKeys ==
    ASSUME FaithfulEncoding, NEW r \in Request
    PROVE  /\ Plain!Range(r) \subseteq Key
           /\ Matches(encOp(r)) = {Encode(k) : k \in Plain!Range(r)}
<1>1. CASE r.pfx
  <2>1. \A k \in Key : Under(k, r.key) <=> Under(Encode(k), Encode(r.key))
    BY <1>1 DEF FaithfulEncoding
  <2> QED BY <1>1, <2>1 DEF Plain!Range, Matches, encOp, Stored
<1>2. CASE ~r.pfx
  <2>1. r.key \in Key
    BY <1>2, RequestAssumption
  <2> QED BY <1>2, <2>1 DEF Plain!Range, Matches, encOp, Stored
<1> QED BY <1>1, <1>2

(* Decoding restores the keys of pairs.                                    *)
LEMMA DecodedPairs ==
    ASSUME FaithfulEncoding, NEW T \in SUBSET Key, NEW f
    PROVE  decKvs({<<Encode(k), f[k]>> : k \in T}) = {<<k, f[k]>> : k \in T}
<1> DEFINE F == {<<Encode(k), f[k]>> : k \in T}
<1>1. ASSUME NEW y \in decKvs(F)
      PROVE  \E k \in T : y = <<k, f[k]>>
  <2>1. PICK x \in F : y = <<Decode(x[1]), x[2]>>
    BY <1>1, Zenon DEF decKvs
  <2>2. PICK k \in T : x = <<Encode(k), f[k]>>
    BY <2>1
  <2>3. x[1] = Encode(k) /\ x[2] = f[k]
    BY <2>2
  <2> QED BY <2>1, <2>3, Zenon DEF FaithfulEncoding
<1>2. ASSUME NEW k \in T
      PROVE  <<k, f[k]>> \in decKvs(F)
  <2> DEFINE x == <<Encode(k), f[k]>>
  <2>1. x \in F
    OBVIOUS
  <2>2. Decode(x[1]) = k /\ x[2] = f[k]
    BY DEF FaithfulEncoding
  <2> HIDE DEF x, F
  <2>3. <<Decode(x[1]), x[2]>> \in decKvs(F)
    BY <2>1, Zenon DEF decKvs
  <2> QED BY <2>2, <2>3, Zenon
<1> HIDE DEF F
<1>3. decKvs(F) = {<<k, f[k]>> : k \in T}
  BY <1>1, <1>2
<1> QED BY <1>3 DEF F

(* What etcd finds, decoded, is what the plain store has.                  *)
LEMMA SameAnswer ==
    ASSUME FaithfulEncoding, NEW S \in SUBSET Key
    PROVE  decKvs(Found({Encode(k) : k \in S})) = Plain!Found(S)
<1> DEFINE f == [k \in Key |-> store[Encode(k)]]
           T == {k \in S : f[k] # Absent}
<1>1. Found({Encode(k) : k \in S}) = {<<Encode(k), f[k]>> : k \in T}
  BY DEF Found
<1>2. decKvs({<<Encode(k), f[k]>> : k \in T}) = {<<k, f[k]>> : k \in T}
  <2>1. T \in SUBSET Key
    OBVIOUS
  <2> HIDE DEF f, T
  <2> QED BY <2>1, DecodedPairs, Zenon
<1> QED BY <1>1, <1>2, Zenon DEF Plain!Found

(* The events of a change, decoded, are those of the decoded change.       *)
LEMMA SameEvents ==
    ASSUME FaithfulEncoding, NEW S \in SUBSET Key, NEW w
    PROVE  decKvs(Events(w, {Encode(k) : k \in S})) = Plain!Events(decPuts(w), S)
<1> DEFINE f == decPuts(w)
           T == S \cap DOMAIN f
<1>1. Events(w, {Encode(k) : k \in S}) = {<<Encode(k), f[k]>> : k \in T}
  BY DEF Events, decPuts
<1>2. decKvs({<<Encode(k), f[k]>> : k \in T}) = {<<k, f[k]>> : k \in T}
  <2>1. T \in SUBSET Key
    OBVIOUS
  <2> HIDE DEF f, T
  <2> QED BY <2>1, DecodedPairs, Zenon
<1> QED BY <1>1, <1>2, Zenon DEF Plain!Events

(* The changes that the log may hold.                                      *)
Changes == UNION {[D -> Value \cup {Absent}] : D \in SUBSET Stored}

LEMMA ChangesAre ==
    ASSUME NEW D \in SUBSET Stored, NEW w \in [D -> Value \cup {Absent}]
    PROVE  w \in Changes
BY DEF Changes

(* A change of the store is the decoded change of the plain store.         *)
LEMMA SameChange ==
    ASSUME NEW w, DOMAIN w \subseteq Stored, w \in Changes, elog \in Seq(Changes), Change(w)
    PROVE  Plain!Change(decPuts(w)) /\ elog' \in Seq(Changes)
<1> DEFINE kv  == [k \in Key |-> store[Encode(k)]]
           log == [i \in DOMAIN elog |-> decPuts(elog[i])]
<1>1. kv' = [k \in Key |-> IF k \in DOMAIN decPuts(w) THEN decPuts(w)[k] ELSE kv[k]]
  BY DEF Change, decPuts, Stored
<1>2. DOMAIN w = {} <=> DOMAIN decPuts(w) = {}
  BY DEF decPuts, Stored
<1>3. log' = IF DOMAIN decPuts(w) = {} THEN log ELSE Append(log, decPuts(w))
  <2>0. log' = [i \in DOMAIN elog' |-> decPuts(elog'[i])]
    BY DEF decPuts
  <2>1. CASE DOMAIN w = {}
    BY <1>2, <2>0, <2>1 DEF Change
  <2>2. CASE DOMAIN w # {}
    <3>1. elog' = Append(elog, w)
      BY <2>2 DEF Change
    <3>2. /\ DOMAIN elog' = 1..(Len(elog) + 1)
          /\ \A i \in 1..Len(elog) : elog'[i] = elog[i]
          /\ elog'[Len(elog) + 1] = w
          /\ DOMAIN elog = 1..Len(elog) /\ Len(elog) \in Nat
      BY <3>1
    <3>3. log \in Seq({decPuts(x) : x \in Changes}) /\ Len(log) = Len(elog)
      BY <3>2
    <3>4. log' = Append(log, decPuts(w))
      <4> HIDE DEF decPuts
      <4>1. /\ DOMAIN Append(log, decPuts(w)) = 1..(Len(elog) + 1)
            /\ \A i \in 1..Len(elog) : Append(log, decPuts(w))[i] = log[i]
            /\ Append(log, decPuts(w))[Len(elog) + 1] = decPuts(w)
            /\ Append(log, decPuts(w)) = [i \in 1..(Len(elog) + 1) |-> Append(log, decPuts(w))[i]]
        BY <3>2, <3>3
      <4>2. \A i \in 1..(Len(elog) + 1) : decPuts(elog'[i]) = Append(log, decPuts(w))[i]
        BY <3>2, <4>1
      <4> QED BY <2>0, <3>2, <4>1, <4>2
    <3> QED BY <1>2, <2>2, <3>4
  <2> QED BY <2>1, <2>2
<1>4. elog' \in Seq(Changes)
  BY DEF Change
<1> QED BY <1>1, <1>3, <1>4 DEF Plain!Change

(* What a transaction or a request writes, decoded.                        *)
LEMMA SamePuts ==
    ASSUME FaithfulEncoding, NEW D \in SUBSET Key, NEW w \in [D -> Value \cup {Absent}]
    PROVE  /\ DOMAIN encPuts(w) \subseteq Stored
           /\ encPuts(w) \in Changes
           /\ decPuts(encPuts(w)) = w
<1>1. ASSUME NEW k \in D
      PROVE  encPuts(w)[Encode(k)] = w[k]
  <2>1. Encode(k) \in {Encode(j) : j \in DOMAIN w}
    OBVIOUS
  <2>2. \A j \in D : Encode(j) = Encode(k) => j = k
    BY KeysStayApart
  <2>3. (CHOOSE j \in DOMAIN w : Encode(j) = Encode(k)) = k
    BY <2>2
  <2> QED BY <2>1, <2>3 DEF encPuts
<1>2. DOMAIN encPuts(w) = {Encode(k) : k \in D}
  BY DEF encPuts
<1>3. DOMAIN encPuts(w) \subseteq Stored
  BY <1>2 DEF Stored
<1>4. encPuts(w) \in Changes
  <2>1. encPuts(w) = [e \in DOMAIN encPuts(w) |-> encPuts(w)[e]]
    BY DEF encPuts
  <2>2. \A e \in DOMAIN encPuts(w) : encPuts(w)[e] \in Value \cup {Absent}
    BY <1>1, <1>2
  <2>3. encPuts(w) \in [DOMAIN encPuts(w) -> Value \cup {Absent}]
    BY <2>1, <2>2
  <2> QED BY <1>3, <2>3, ChangesAre
<1>5. decPuts(encPuts(w)) = w
  <2>1. {x \in Key : Encode(x) \in DOMAIN encPuts(w)} = D
    BY <1>2, KeysStayApart
  <2> QED BY <1>1, <2>1 DEF decPuts
<1> QED BY <1>3, <1>4, <1>5

(* Writing the same value to the encodings of keys.                        *)
LEMMA SameWrite ==
    ASSUME FaithfulEncoding, NEW D \in SUBSET Key, NEW v \in Value \cup {Absent},
           NEW E, E = {Encode(k) : k \in D}
    PROVE  /\ DOMAIN [e \in E |-> v] \subseteq Stored
           /\ [e \in E |-> v] \in Changes
           /\ decPuts([e \in E |-> v]) = [k \in D |-> v]
<1>1. E \in SUBSET Stored /\ [e \in E |-> v] \in [E -> Value \cup {Absent}]
  BY DEF Stored
<1>2. {x \in Key : Encode(x) \in E} = D
  BY KeysStayApart
<1> QED BY <1>1, <1>2, ChangesAre DEF decPuts

-----------------------------------------------------------------------------
(***************************************************************************)
(* The events that a goroutine holds are those of the change before the    *)
(* one that its watch gets next.                                           *)
(***************************************************************************)
HandInv ==
    /\ elog \in Seq(Changes)
    /\ next \in [Watcher -> Nat]
    /\ hand = [n \in Watcher |-> hand[n]]
    /\ out = [n \in Watcher |-> out[n]]
    /\ \A n \in Watcher :
          hand[n] # <<>> =>
             /\ next[n] - 1 \in DOMAIN elog
             /\ hand[n] = <<Events(elog[next[n] - 1], Matches(encOp(Scope(n))))>>

(* The log only grows.                                                     *)
LEMMA LogGrows ==
    ASSUME NEW w \in Changes, elog \in Seq(Changes), Change(w)
    PROVE  /\ elog' \in Seq(Changes)
           /\ \A i \in DOMAIN elog : i \in DOMAIN elog' /\ elog'[i] = elog[i]
<1>1. CASE DOMAIN w = {}
  BY <1>1 DEF Change
<1>2. CASE DOMAIN w # {}
  BY <1>2 DEF Change
<1> QED BY <1>1, <1>2

LEMMA HandInit ==
    Init => HandInv
BY DEF Init, HandInv

(* A change of the store does not touch what was read before.              *)
LEMMA HandKept ==
    ASSUME HandInv, NEW w \in Changes, Change(w) \/ UNCHANGED elog, UNCHANGED <<next, hand, out>>
    PROVE  HandInv'
<1>1. /\ elog' \in Seq(Changes)
      /\ \A i \in DOMAIN elog : i \in DOMAIN elog' /\ elog'[i] = elog[i]
  <2>1. CASE Change(w)
    BY <2>1, LogGrows DEF HandInv
  <2>2. CASE UNCHANGED elog
    BY <2>2 DEF HandInv
  <2> QED BY <2>1, <2>2
<1>2. \A n \in Watcher :
         hand'[n] # <<>> =>
            /\ next'[n] - 1 \in DOMAIN elog'
            /\ hand'[n] = <<Events(elog'[next'[n] - 1], Matches(encOp(Scope(n))))>>
  BY <1>1 DEF HandInv
<1> QED BY <1>1, <1>2 DEF HandInv

-----------------------------------------------------------------------------
(***************************************************************************)
(* Steps.                                                                  *)
(***************************************************************************)

(* The plain store's view of a step that leaves the watches alone.         *)
LEMMA SamePlaces ==
    ASSUME UNCHANGED <<next, hand, out>>
    PROVE  [n \in Watcher |-> IF hand[n] = <<>> THEN next[n] ELSE next[n] - 1]' =
           [n \in Watcher |-> IF hand[n] = <<>> THEN next[n] ELSE next[n] - 1]
OBVIOUS

LEMMA GetStep ==
    ASSUME FaithfulEncoding, NEW r \in Request, Get(r)
    PROVE  Plain!Get(r)
<1>1. decKvs(Found(Matches(encOp(r)))) = Plain!Found(Plain!Range(r))
  BY SameKeys, SameAnswer
<1>2. /\ [k \in Key |-> store[Encode(k)]]' = [k \in Key |-> store[Encode(k)]]
      /\ [i \in DOMAIN elog |-> decPuts(elog[i])]' = [i \in DOMAIN elog |-> decPuts(elog[i])]
  BY DEF Get, decPuts
<1> QED BY <1>1, <1>2, SamePlaces DEF Get, Plain!Get

LEMMA PutStep ==
    ASSUME FaithfulEncoding, HandInv, NEW k \in Key, NEW v \in Value, Put(k, v)
    PROVE  Plain!Put(k, v) /\ HandInv'
<1> DEFINE D == {k}
           E == {Encode(k)}
           w == [e \in E |-> v]
<1>1. /\ DOMAIN w \subseteq Stored
      /\ w \in Changes
      /\ decPuts(w) = [x \in D |-> v]
  <2>1. D \in SUBSET Key /\ E = {Encode(j) : j \in D} /\ v \in Value \cup {Absent}
    OBVIOUS
  <2> HIDE DEF D, E
  <2> QED BY <2>1, SameWrite
<1>2. Change(w) /\ UNCHANGED <<next, hand, out>>
  BY DEF Put
<1> HIDE DEF w
<1>3. Plain!Change([x \in {k} |-> v])
  BY <1>1, <1>2, SameChange DEF HandInv
<1>4. decKvs(Found({Encode(k)})) = Plain!Found({k})
  <2>1. {Encode(k)} = {Encode(j) : j \in {k}}
    OBVIOUS
  <2> QED BY <2>1, SameAnswer
<1>5. HandInv'
  BY <1>1, <1>2, HandKept
<1> QED BY <1>2, <1>3, <1>4, <1>5, SamePlaces DEF Put, Plain!Put

LEMMA DeleteStep ==
    ASSUME FaithfulEncoding, HandInv, NEW r \in Request, Delete(r)
    PROVE  Plain!Delete(r) /\ HandInv'
<1> DEFINE kv == [k \in Key |-> store[Encode(k)]]
           D  == {k \in Plain!Range(r) : kv[k] # Absent}
           E  == {x \in Matches(encOp(r)) : store[x] # Absent}
           w  == [e \in E |-> Absent]
<1>1. D \in SUBSET Key /\ E = {Encode(k) : k \in D}
  BY SameKeys
<1>2. /\ DOMAIN w \subseteq Stored
      /\ w \in Changes
      /\ decPuts(w) = [x \in D |-> Absent]
  <2> HIDE DEF D, E
  <2> QED BY <1>1, SameWrite
<1>3. PICK c : c = w
  OBVIOUS
<1>4. Change(c) /\ UNCHANGED <<next, hand, out>>
  BY <1>3 DEF Delete, Change
<1> HIDE DEF w
<1>5. Plain!Change([x \in D |-> Absent])
  <2>1. Plain!Change(decPuts(c))
    BY <1>2, <1>3, <1>4, SameChange DEF HandInv
  <2>2. decPuts(c) = [x \in D |-> Absent]
    BY <1>2, <1>3
  <2> HIDE DEF D
  <2> QED BY <2>1, <2>2 DEF Plain!Change
<1>6. decKvs(Found(Matches(encOp(r)))) = Plain!Found(Plain!Range(r))
  BY SameKeys, SameAnswer
<1>7. HandInv'
  BY <1>2, <1>3, <1>4, HandKept
<1> QED BY <1>4, <1>5, <1>6, <1>7, SamePlaces DEF Delete, Plain!Delete

LEMMA TxnStep ==
    ASSUME FaithfulEncoding, HandInv, NEW t \in Transaction, Txn(t)
    PROVE  Plain!Txn(t) /\ HandInv'
<1> DEFINE kv == [k \in Key |-> store[Encode(k)]]
<1>1. UNCHANGED <<next, hand, out>>
  BY DEF Txn
<1>2. (\A c \in encCmps(t.cmp) : store[c[1]] = c[2]) <=> (\A k \in DOMAIN t.cmp : kv[k] = t.cmp[k])
  <2>1. \A k \in DOMAIN t.cmp : k \in Key /\ kv[k] = store[Encode(k)]
    BY RequestAssumption
  <2>2. ASSUME \A c \in encCmps(t.cmp) : store[c[1]] = c[2], NEW k \in DOMAIN t.cmp
        PROVE  store[Encode(k)] = t.cmp[k]
    <3> DEFINE c == <<Encode(k), t.cmp[k]>>
    <3>1. c \in encCmps(t.cmp) /\ c[1] = Encode(k) /\ c[2] = t.cmp[k]
      BY DEF encCmps
    <3> HIDE DEF c
    <3> QED BY <2>2, <3>1
  <2>3. ASSUME \A k \in DOMAIN t.cmp : store[Encode(k)] = t.cmp[k], NEW c \in encCmps(t.cmp)
        PROVE  store[c[1]] = c[2]
    <3>1. PICK k \in DOMAIN t.cmp : c = <<Encode(k), t.cmp[k]>>
      BY DEF encCmps
    <3> QED BY <2>3, <3>1
  <2> QED BY <2>1, <2>2, <2>3
<1>3. CASE \A c \in encCmps(t.cmp) : store[c[1]] = c[2]
  <2>1. /\ DOMAIN encPuts(t.puts) \subseteq Stored
        /\ encPuts(t.puts) \in Changes
        /\ decPuts(encPuts(t.puts)) = t.puts
    BY RequestAssumption, SamePuts
  <2>2. Change(encPuts(t.puts)) /\ answer' = [ok |-> TRUE, kvs |-> {}]
    BY <1>3 DEF Txn
  <2>3. Plain!Change(t.puts)
    BY <2>1, <2>2, SameChange DEF HandInv
  <2>4. HandInv'
    BY <1>1, <2>1, <2>2, HandKept
  <2> QED BY <1>1, <1>2, <1>3, <2>2, <2>3, <2>4, SamePlaces DEF Plain!Txn
<1>4. CASE ~(\A c \in encCmps(t.cmp) : store[c[1]] = c[2])
  <2>1. /\ answer' = [ok |-> FALSE, kvs |-> decKvs(Found(Matches(encOp(t.read))))]
        /\ UNCHANGED <<store, elog>>
    BY <1>4 DEF Txn
  <2>2. decKvs(Found(Matches(encOp(t.read)))) = Plain!Found(Plain!Range(t.read))
    BY RequestAssumption, SameKeys, SameAnswer
  <2>3. /\ [k \in Key |-> store[Encode(k)]]' = [k \in Key |-> store[Encode(k)]]
        /\ [i \in DOMAIN elog |-> decPuts(elog[i])]' = [i \in DOMAIN elog |-> decPuts(elog[i])]
    BY <2>1 DEF decPuts
  <2>4. HandInv'
    BY <1>1, <2>1 DEF HandInv, Events, Matches, encOp, Stored
  <2> QED BY <1>1, <1>2, <1>4, <2>1, <2>2, <2>3, <2>4, SamePlaces DEF Plain!Txn
<1> QED BY <1>3, <1>4

(* A step of the watches alone.                                            *)
LEMMA SameStore ==
    ASSUME UNCHANGED <<store, elog>>
    PROVE  /\ [k \in Key |-> store[Encode(k)]]' = [k \in Key |-> store[Encode(k)]]
           /\ [i \in DOMAIN elog |-> decPuts(elog[i])]' = [i \in DOMAIN elog |-> decPuts(elog[i])]
BY DEF decPuts

LEMMA WatchStep ==
    ASSUME HandInv, NEW n \in Watcher, NEW rev \in 1..(Len(elog) + 1), Watch(n, rev)
    PROVE  Plain!Next /\ HandInv'
<1> DEFINE pos == [m \in Watcher |-> IF hand[m] = <<>> THEN next[m] ELSE next[m] - 1]
           log == [i \in DOMAIN elog |-> decPuts(elog[i])]
<1>1. hand[n] = <<>>
  BY DEF HandInv, Watch
<1>2. pos[n] = 0 /\ pos' = [pos EXCEPT ![n] = rev]
  BY <1>1 DEF HandInv, Watch
<1>3. Len(log) = Len(elog)
  BY DEF HandInv
<1>4. HandInv'
  BY <1>1 DEF HandInv, Watch
<1>5. Plain!Watch(n, rev)
  BY <1>2, SameStore DEF Watch, Plain!Watch
<1> QED BY <1>3, <1>4, <1>5 DEF Plain!Next

LEMMA ReceiveStep ==
    ASSUME HandInv, NEW n \in Watcher, Receive(n)
    PROVE  UNCHANGED Plain!vars /\ HandInv'
<1> DEFINE pos == [m \in Watcher |-> IF hand[m] = <<>> THEN next[m] ELSE next[m] - 1]
<1>1. /\ next[n] \in Nat /\ next'[n] = next[n] + 1 /\ next'[n] - 1 = next[n]
      /\ hand'[n] = <<Events(elog[next[n]], Matches(encOp(Scope(n))))>> /\ hand'[n] # <<>>
      /\ \A m \in Watcher \ {n} : next'[m] = next[m] /\ hand'[m] = hand[m]
  BY DEF HandInv, Receive
<1>2. pos' = pos
  BY <1>1 DEF Receive
<1>3. HandInv'
  <2>0. hand' = [m \in Watcher |-> hand'[m]]
    BY Zenon DEF HandInv, Receive
  <2>1. /\ elog' \in Seq(Changes)
        /\ next' \in [Watcher -> Nat]
        /\ out' = [m \in Watcher |-> out'[m]]
    BY <1>1 DEF HandInv, Receive
  <2>2. ASSUME NEW m \in Watcher, hand'[m] # <<>>
        PROVE  /\ next'[m] - 1 \in DOMAIN elog'
               /\ hand'[m] = <<Events(elog'[next'[m] - 1], Matches(encOp(Scope(m))))>>
    <3>1. CASE m = n
      BY <1>1, <3>1 DEF Receive
    <3>2. CASE m # n
      BY <1>1, <2>2, <3>2 DEF HandInv, Receive
    <3> QED BY <3>1, <3>2
  <2> QED BY <2>0, <2>1, <2>2 DEF HandInv
<1> QED BY <1>2, <1>3, SameStore DEF Receive, Plain!vars

LEMMA PassOnStep ==
    ASSUME FaithfulEncoding, HandInv, NEW n \in Watcher, PassOn(n)
    PROVE  Plain!Deliver(n) /\ HandInv'
<1> DEFINE pos == [m \in Watcher |-> IF hand[m] = <<>> THEN next[m] ELSE next[m] - 1]
           log == [i \in DOMAIN elog |-> decPuts(elog[i])]
           w   == elog[next[n] - 1]
<1>1. /\ next[n] - 1 \in DOMAIN elog
      /\ Head(hand[n]) = Events(w, Matches(encOp(Scope(n))))
  BY DEF HandInv, PassOn
<1>2. pos[n] = next[n] - 1 /\ pos[n] \in DOMAIN log /\ log[pos[n]] = decPuts(w)
  BY <1>1 DEF PassOn
<1>3. Scope(n) \in Request
  BY RequestAssumption
<1>4. decKvs(Head(hand[n])) = Plain!Events(decPuts(w), Plain!Range(Scope(n)))
  <2> HIDE DEF w
  <2> QED BY <1>1, <1>3, SameKeys, SameEvents
<1>5. pos' = [pos EXCEPT ![n] = pos[n] + 1]
  <2>1. hand'[n] = <<>> /\ \A m \in Watcher \ {n} : hand'[m] = hand[m]
    BY DEF HandInv, PassOn
  <2>2. next' = next /\ next[n] = pos[n] + 1
    BY <1>2 DEF HandInv, PassOn
  <2> QED BY <2>1, <2>2
<1>6. HandInv'
  BY DEF HandInv, PassOn
<1> QED BY <1>2, <1>4, <1>5, <1>6, SameStore DEF PassOn, Plain!Deliver

LEMMA StopStep ==
    ASSUME HandInv, NEW n \in Watcher, Stop(n)
    PROVE  Plain!Stop(n) /\ HandInv'
<1> DEFINE pos == [m \in Watcher |-> IF hand[m] = <<>> THEN next[m] ELSE next[m] - 1]
<1>1. pos' = [pos EXCEPT ![n] = 0]
  BY DEF HandInv, Stop
<1>2. HandInv'
  BY DEF HandInv, Stop
<1> QED BY <1>1, <1>2, SameStore DEF Stop, Plain!Stop

LEMMA StepIsPlain ==
    ASSUME FaithfulEncoding, HandInv, Next
    PROVE  (Plain!Next \/ UNCHANGED Plain!vars) /\ HandInv'
<1>1. ASSUME NEW r \in Request, Get(r)
      PROVE  Plain!Next /\ HandInv'
  <2>1. HandInv'
    BY <1>1 DEF Get, HandInv, Events, Matches, encOp, Stored
  <2> QED BY <1>1, <2>1, GetStep DEF Plain!Next
<1>2. ASSUME NEW r \in Request, Delete(r)
      PROVE  Plain!Next /\ HandInv'
  BY <1>2, DeleteStep DEF Plain!Next
<1>3. ASSUME NEW k \in Key, NEW v \in Value, Put(k, v)
      PROVE  Plain!Next /\ HandInv'
  BY <1>3, PutStep DEF Plain!Next
<1>4. ASSUME NEW t \in Transaction, Txn(t)
      PROVE  Plain!Next /\ HandInv'
  BY <1>4, TxnStep DEF Plain!Next
<1>5. ASSUME NEW n \in Watcher, NEW rev \in 1..(Len(elog) + 1), Watch(n, rev)
      PROVE  Plain!Next /\ HandInv'
  BY <1>5, WatchStep
<1>6. ASSUME NEW n \in Watcher, Receive(n)
      PROVE  UNCHANGED Plain!vars /\ HandInv'
  BY <1>6, ReceiveStep
<1>7. ASSUME NEW n \in Watcher, PassOn(n)
      PROVE  Plain!Next /\ HandInv'
  BY <1>7, PassOnStep DEF Plain!Next
<1>8. ASSUME NEW n \in Watcher, Stop(n)
      PROVE  Plain!Next /\ HandInv'
  BY <1>8, StopStep DEF Plain!Next
<1> QED BY <1>1, <1>2, <1>3, <1>4, <1>5, <1>6, <1>7, <1>8 DEF Next

(* Whatever the keys, requests and transactions are: if the encoding gives *)
(* every key back and keeps prefixes, the program sees the store and the   *)
(* watches of keys that are not encoded (kv.go:42-174, watch.go:24-63).    *)
THEOREM EncodingIsTransparent ==
    ASSUME FaithfulEncoding
    PROVE  Spec => Transparent
<1>1. Init => HandInv /\ Plain!Init
  <2>1. ASSUME Init
        PROVE  Plain!Init
    <3>1. [k \in Key |-> store[Encode(k)]] = [k \in Key |-> Absent]
      BY <2>1 DEF Init, Stored
    <3>2. [i \in DOMAIN elog |-> decPuts(elog[i])] = <<>>
      BY <2>1 DEF Init
    <3>3. [n \in Watcher |-> IF hand[n] = <<>> THEN next[n] ELSE next[n] - 1] =
          [n \in Watcher |-> 0]
      BY <2>1 DEF Init
    <3> QED BY <2>1, <3>1, <3>2, <3>3 DEF Init, Plain!Init
  <2> QED BY <2>1, HandInit
<1>2. HandInv /\ [Next]_vars => [Plain!Next]_(Plain!vars) /\ HandInv'
  <2>1. ASSUME HandInv, UNCHANGED vars
        PROVE  UNCHANGED Plain!vars /\ HandInv'
    <3>1. UNCHANGED Plain!vars
      BY <2>1, SameStore, SamePlaces DEF vars, Plain!vars
    <3> QED BY <2>1, <3>1 DEF vars, HandInv, Events, Matches, encOp, Stored
  <2> QED BY <2>1, StepIsPlain
<1> QED BY <1>1, <1>2, PTL DEF Spec, Transparent, Plain!Spec
=============================================================================
