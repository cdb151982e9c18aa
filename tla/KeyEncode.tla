----------------------------- MODULE KeyEncode -----------------------------
(***************************************************************************)
(* Keys as bytes, and how they are encrypted: the name in a key is         *)
(* replaced by a hash and a ciphertext, which may hold any bytes, with the *)
(* slash that separates the parts of a key among them.                     *)
(*                                                                         *)
(* There are 20 bytes; every word of a key is one byte.                    *)
(***************************************************************************)
EXTENDS Integers, SequencesExt

CONSTANTS BlockSize, HashSize

Bytes == 20
Slash == 0
user == 1
chan == 2
oper == 3
ctl == 4
msg == 5
nicks == 6
Digit(d) == 10 + d

Panic == <<Bytes>>      \* no key: the program has panicked

-----------------------------------------------------------------------------
(***************************************************************************)
(* The keys of users, channels and operators.                              *)
(***************************************************************************)
Path(type, sub, data) == <<Slash, type, Slash, sub, Slash>> \o data

keyUserCtl(n)        == Path(user, ctl, n)
keyUserMsg(n)        == Path(user, msg, n)
keyChanCtl(ch)       == Path(chan, ctl, ch)
keyChanMsg(ch)       == Path(chan, msg, ch)
keyChanNicksPfx(ch)  == Path(chan, nicks, ch) \o <<Slash>>
keyChanNicks(ch, id) == Path(chan, nicks, ch) \o <<Slash>> \o id
keyOperCtl(n)        == Path(oper, ctl, n)

-----------------------------------------------------------------------------
(***************************************************************************)
(* Strings.                                                                *)
(***************************************************************************)
Split(s) ==
    FoldLeft(LAMBDA ss, b : IF b = Slash THEN Append(ss, <<>>)
                            ELSE [ss EXCEPT ![Len(ss)] = Append(@, b)],
             <<<<>>>>, s)

Join(ss) == FoldLeft(LAMBDA s, x : s \o <<Slash>> \o x, Head(ss), Tail(ss))

(* "%d", of at most two digits, and back.                                  *)
Decimal(n) == IF n < 10 THEN <<Digit(n)>> ELSE <<Digit(n \div 10), Digit(n % 10)>>
Number(s)  == FoldLeft(LAMBDA n, b : 10 * n + (b - Digit(0)), 0, s)

-----------------------------------------------------------------------------
(***************************************************************************)
(* The cipher.                                                             *)
(***************************************************************************)

(* Some hash of HashSize bytes.                                            *)
Hash(s) == [i \in 1..HashSize |->
              FoldLeft(LAMBDA h, b : (3 * h + b + i) % Bytes, 7 * i, s)]

(* Counter mode combines every byte with one that depends on the iv and on *)
(* its place, and doing so again restores it.                              *)
XORKeyStream(iv, s) ==
    [i \in 1..Len(s) |->
        (iv[((i - 1) % BlockSize) + 1] + 7 * ((i - 1) \div BlockSize) + i - s[i]) % Bytes]

IV(hash) == SubSeq(hash, HashSize - BlockSize + 1, HashSize)

Pad(s) ==
    LET p == BlockSize - (Len(s) % BlockSize)
    IN s \o [i \in 1..p |-> p]

hmacEncode(s) == Hash(s) \o XORKeyStream(IV(Hash(s)), Pad(s))

hmacDecode(s) ==
    LET hash   == SubSeq(s, 1, HashSize)
        ptxt   == XORKeyStream(IV(hash), SubSeq(s, HashSize + 1, Len(s)))
        padlen == Last(ptxt)
        text   == SubSeq(ptxt, 1, Len(ptxt) - padlen)
    IN IF Len(s) <= HashSize \/ padlen > BlockSize \/ Hash(text) # hash
       THEN Panic
       ELSE text

-----------------------------------------------------------------------------
(***************************************************************************)
(* Keys, encoded.                                                          *)
(***************************************************************************)

(* Does splitKey accept the parts of a key?                                *)
splitKey(ss) ==
    /\ Len(ss) > 3
    /\ \/ ss[2] = <<user>> /\ ss[3] \in {<<msg>>, <<ctl>>}
       \/ ss[2] = <<chan>> /\ ss[3] \in {<<msg>>, <<ctl>>, <<nicks>>}
       \/ ss[2] = <<oper>>

(* The name is encoded together with what precedes it, and its length kept.*)
keyEncode(s) ==
    LET ss  == Split(s)
        sse == hmacEncode(Join(SubSeq(ss, 1, 4)))
    IN CASE ~splitKey(ss) -> Panic
         [] ss[4] = <<>>  -> s
         [] OTHER -> Join([ss EXCEPT ![4] = Decimal(Len(sse)) \o <<Slash>> \o sse])

keyDecode(s) ==
    LET ss     == Split(s)
        pfxlen == Len(Join(SubSeq(ss, 1, 4)))
        encend == pfxlen + 1 + Number(ss[4])
        dec    == hmacDecode(SubSeq(s, pfxlen + 2, encend))
    IN IF ~splitKey(ss) \/ ss[4] = <<>> \/ dec = Panic THEN Panic
       ELSE Path(ss[2][1], ss[3][1], Split(dec)[4]) \o SubSeq(s, encend + 1, Len(s))
=============================================================================
