------------------------------- MODULE MCKeys -------------------------------
(***************************************************************************)
(* A small instance of EncodedStore with the encoding of KeyEncode.        *)
(***************************************************************************)
EXTENDS EncodedStore, TLC

K == INSTANCE KeyEncode WITH BlockSize <- 2, HashSize <- 3

n == <<7>>
c == <<8, 7>>
d == <<8, 9>>
e == c \o <<K!Slash>> \o <<9>>       \* a channel with a slash in its name
l1 == <<K!Digit(1)>>
l2 == <<K!Digit(2)>>

MCKey == {K!keyUserCtl(n), K!keyUserMsg(n), K!keyChanCtl(c), K!keyChanNicks(c, l1),
          K!keyChanNicks(c, l2), K!keyChanNicks(d, l1), K!keyChanNicks(e, l1), K!keyOperCtl(n)}

One(k) == [key |-> k, pfx |-> FALSE]
All(k) == [key |-> k, pfx |-> TRUE]

(* Keys, and the prefixes that the program asks for.                       *)
MCRequest ==
    {One(K!keyUserCtl(n)), One(K!keyUserMsg(n)), One(K!keyChanNicks(c, l1)),
     All(K!keyUserCtl(<<>>)), All(K!keyChanCtl(<<>>)), All(K!keyChanNicksPfx(c)),
     All(K!keyOperCtl(<<>>))}

(* Registration, and a PART that leaves an empty nick list.                *)
MCTransaction ==
    {[cmp  |-> K!keyUserCtl(n) :> Absent,
      puts |-> (K!keyUserCtl(n) :> "v") @@ (K!keyUserMsg(n) :> "v"),
      read |-> One(K!keyUserCtl(n))],
     [cmp  |-> K!keyChanNicks(c, l1) :> "v",
      puts |-> (K!keyUserCtl(n) :> "v") @@ (K!keyChanNicks(c, l1) :> Absent),
      read |-> One(K!keyChanNicks(c, l1))]}

MCWatcher  == {"list", "msg"}
MCScope(w) == IF w = "list" THEN All(K!keyChanNicksPfx(c)) ELSE One(K!keyUserMsg(n))

MCUnder(k, p) == Len(p) <= Len(k) /\ SubSeq(k, 1, Len(p)) = p

Encoded   == [k \in MCKey \cup {r.key : r \in MCRequest} |-> K!keyEncode(k)]
Decoded   == [x \in {Encoded[k] : k \in MCKey} |-> K!keyDecode(x)]
MCEncode(k) == Encoded[k]
MCDecode(x) == Decoded[x]

-----------------------------------------------------------------------------
(* All names of up to three of some bytes: a slash, a digit, a letter, and *)
(* the padding of an encoded text.                                         *)
Names == {s \in K!SeqOf({K!Slash, 1, 2, K!Digit(3), 9}, 3) : s # <<>> /\ Head(s) # K!Slash}

(* Every key comes back, whatever its name: with slashes in the ciphertext *)
(* or in the name, with a text that fills its blocks, and with one that    *)
(* looks like padding (key.go:82-114, encode.go:36-93).                    *)
ASSUME EveryNameReturns ==
    \A s \in Names :
       \A k \in {K!keyUserCtl(s), K!keyUserMsg(s), K!keyChanCtl(s), K!keyChanMsg(s),
                 K!keyChanNicks(s, l1), K!keyOperCtl(s)} : K!keyDecode(K!keyEncode(k)) = k

(* The keys and prefixes of this instance are not affected by encoding:    *)
(* the premise under which EncodedStoreProofs shows Transparent.           *)
ASSUME EncodingIsFaithful == FaithfulEncoding
=============================================================================
