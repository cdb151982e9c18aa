-------------------------------- MODULE Modes --------------------------------
(***************************************************************************)
(* The modes of a user or a channel, and the commands that change them.    *)
(*                                                                         *)
(* A mode value is a Go byte slice.  updateSlice compares the value it     *)
(* computed with the one it was given to decide whether to store it, but   *)
(* both may be windows on one array, which deletions shift in place and    *)
(* additions overwrite.  The arrays are therefore part of the model.       *)
(***************************************************************************)
EXTENDS Integers, SequencesExt

CONSTANTS
    NoUpdate,     \* no MODE command is about to answer
    Pinned,       \* the modes a configuration may give new users (never away)
    Opers,        \* the operator records, by whether they are global
    Typed,        \* the letters that clients type
    MaxParams,    \* bound: parameters of a MODE command
    MaxLetters    \* bound: mode letters of a MODE command

ASSUME ModeBounds == MaxParams \in Nat /\ MaxLetters \in Nat /\ Opers \subseteq BOOLEAN

VARIABLES
    target,   \* whose key the behaviour follows: a user's or a channel's
    mode,     \* the letters stored in the key, in order
    away,     \* does the user record hold an away message?
    up,       \* are the client and its server still there?
    last      \* the MODE command that is about to answer

vars == <<target, mode, away, up, last>>

-----------------------------------------------------------------------------
(***************************************************************************)
(* Letters.                                                                *)
(***************************************************************************)

UserModes == {"a", "i", "o", "E", "O"}
ChanModes == {"m", "t", "s"}
Unknown   == "Q"                       \* stands for any letter that is no mode
NoLetter  == "0"                       \* a byte of an array that was never set

(* A slip: users may give themselves any mode.                             *)
AllAdd(t) == IF t = "user" THEN UserModes ELSE ChanModes

All(t) == IF t = "user" THEN UserModes ELSE ChanModes
Add(t) == IF t = "user" THEN {"i", "E"} ELSE ChanModes
Del(t) == IF t = "user" THEN UserModes ELSE ChanModes

(* A parameter of MODE: '+', '-' or neither, then letters.                 *)
Param(t) == [sign : {"+", "-", ""}, letters : SeqOf(Typed \cap (All(t) \cup {Unknown}), MaxLetters)]

Letters(ps) == FoldLeft(LAMBDA n, p : n + Len(p.letters), 0, ps)

Params(t)  == {ps \in SeqOf(Param(t), MaxParams) : Letters(ps) <= MaxLetters}
UserParams == Params("user")
ChanParams == Params("chan")

-----------------------------------------------------------------------------
(***************************************************************************)
(* Slices.  heap holds the arrays; their lengths are the capacities.  The  *)
(* slice in hand starts at the beginning of array at and has length len.   *)
(***************************************************************************)

(* Appending beyond the capacity of a short slice allocates 8 bytes.       *)
SizeClass == 8

(* Decoding makes an array of exactly the length of the value.             *)
decode(v) == [heap |-> <<v>>, at |-> 1, len |-> Len(v)]

Val(s)    == SubSeq(s.heap[s.at], 1, s.len)
has(s, m) == m \in ToSet(Val(s))

(* Go's append of one byte, without add's test for a mode that is there.   *)
append(s, m) ==
    IF s.len < Len(s.heap[s.at])
    THEN [s EXCEPT !.heap[s.at][s.len + 1] = m, !.len = @ + 1]
    ELSE [heap |-> Append(s.heap, Append(Val(s), m)
                                    \o [i \in 1..(SizeClass - s.len - 1) |-> NoLetter]),
          at   |-> Len(s.heap) + 1,
          len  |-> s.len + 1]

add(s, m) == IF has(s, m) THEN s ELSE append(s, m)

(* A slip: the letters behind the deleted one are not moved.               *)
truncate(s, m) == IF has(s, m) THEN [s EXCEPT !.len = @ - 1] ELSE s

del(s, m) ==
    LET idx == SelectInSeq(Val(s), LAMBDA x : x = m)
        arr == s.heap[s.at]
    IN
    IF idx = 0 THEN s
    ELSE [s EXCEPT !.heap[s.at] = SubSeq(arr, 1, idx - 1) \o SubSeq(arr, idx + 1, s.len)
                                    \o SubSeq(arr, s.len, Len(arr)),
                   !.len = @ - 1]

(* One parameter.  Letters that may not be set or cleared are skipped.     *)
update(s, p, t) ==
    LET letter(x, m) == CASE p.sign = "+" /\ m \in Add(t) -> add(x, m)
                          [] p.sign = "-" /\ m \in Del(t) -> del(x, m)
                          [] OTHER                        -> x
    IN FoldLeft(letter, s, p.letters)

(* A slip: only the lengths are compared.                                  *)
LengthChanged(s, n) == Len(Val(s)) # n

(* Does the value differ from what the first n bytes of the first array,   *)
(* the slice that was decoded, hold by now?                                *)
Changed(s, n) == SubSeq(s.heap[1], 1, n) # Val(s)

updateSlice(v, ps, t) ==
    LET s == FoldLeft(LAMBDA x, p : update(x, p, t), decode(v), ps)
    IN [mode |-> Val(s), updated |-> Changed(s, Len(v))]

-----------------------------------------------------------------------------
(***************************************************************************)
(* Commands.  Each is one transaction on the key.                          *)
(***************************************************************************)
Init ==
    /\ target \in {"user", "chan"}
    /\ mode \in (IF target = "user" THEN Pinned ELSE {<<>>})
    /\ away = FALSE
    /\ up = TRUE
    /\ last = NoUpdate

(* The handler executes one command after the other.                       *)
Idle(t) == target = t /\ up /\ last = NoUpdate

(* Apply parameters, store the value if it seems to have changed, and      *)
(* tell the client what was computed.                                      *)
Apply(ps) ==
    LET r      == updateSlice(mode, ps, target)
        stored == IF r.updated THEN r.mode ELSE mode
    IN
    /\ mode' = stored
    /\ last' = [params |-> ps, before |-> mode, reply |-> r.mode, stored |-> stored]
    /\ UNCHANGED <<target, away, up>>

userMode(ps) == Idle("user") /\ Apply(ps)

(* How the nick list of the client's session stands when the client asks:  *)
(* it is missing, lacks the client (or the channel does not exist), or has *)
(* it without or with operator status.                                     *)
Standing == {"nolist", "off", "member", "op"}

chanMode(st, ps) ==
    /\ Idle("chan")
    /\ \/ /\ st = "nolist"                          \* a decoding error
          /\ up' = FALSE
          /\ UNCHANGED <<target, mode, away, last>>
       \/ /\ st = "off" \/ (st = "member" /\ ps # <<>>)
          /\ UNCHANGED vars
       \/ /\ st = "op" \/ (st = "member" /\ ps = <<>>)
          /\ Apply(ps)

(* OPER with a right or a wrong password, of a global or a local operator. *)
Oper(right, global) ==
    /\ Idle("user")
    /\ mode' = IF ~right THEN mode
               ELSE Val(add(decode(mode), IF global THEN "O" ELSE "o"))
    /\ UNCHANGED <<target, away, up, last>>

(* AWAY with or without a message.                                         *)
Away(msg) ==
    /\ Idle("user")
    /\ mode' = Val(IF msg THEN add(decode(mode), "a") ELSE del(decode(mode), "a"))
    /\ away' = msg
    /\ UNCHANGED <<target, up, last>>

Die ==
    /\ Idle("user")
    /\ up' = ~(has(decode(mode), "o") \/ has(decode(mode), "O"))
    /\ UNCHANGED <<target, mode, away, last>>

(* A MODE command answers with what it computed, and returns.              *)
Answer ==
    /\ last # NoUpdate
    /\ last' = NoUpdate
    /\ UNCHANGED <<target, mode, away, up>>

Next ==
    \/ \E ps \in UserParams : userMode(ps)
    \/ \E st \in Standing, ps \in ChanParams : chanMode(st, ps)
    \/ \E right \in BOOLEAN, global \in Opers : Oper(right, global)
    \/ \E msg \in BOOLEAN : Away(msg)
    \/ Die
    \/ Answer

Spec == Init /\ [][Next]_vars

-----------------------------------------------------------------------------
(***************************************************************************)
(* Properties.                                                             *)
(***************************************************************************)

(* A stored mode has only letters of its kind, none twice (mode.go:62).    *)
ModesTyped ==
    /\ target \in {"user", "chan"} /\ away \in BOOLEAN /\ up \in BOOLEAN
    /\ mode \in Seq(All(target))
    /\ \A i, j \in DOMAIN mode : mode[i] = mode[j] => i = j

(* The reference: parameters applied to sets of letters.                   *)
Wanted(S, ps, t) ==
    FoldLeft(LAMBDA X, p : CASE p.sign = "+" -> X \cup (ToSet(p.letters) \cap Add(t))
                             [] p.sign = "-" -> X \ (ToSet(p.letters) \cap Del(t))
                             [] OTHER        -> X,
             S, ps)

(* Whatever arrays are shared and shifted, MODE answers with the modes     *)
(* that its parameters make of the stored ones (mode.go:79-120).           *)
ReplyIsApplied ==
    last # NoUpdate =>
        ToSet(last.reply) = Wanted(ToSet(last.before), last.params, target)

(* MODE stores what it answers (etcd_client.go:497, 534), if no addition   *)
(* follows a deletion.  After one, "-i +E", the old and the new value may  *)
(* share their bytes, compare equal, and the update is lost.               *)
AddsFirstAreStored ==
    last # NoUpdate
    /\ ~(\E i, j \in DOMAIN last.params :
            i < j /\ last.params[i].sign = "-" /\ last.params[j].sign = "+") =>
        ToSet(last.stored) = ToSet(last.reply)

(* A user that is marked as away has the message that senders are told     *)
(* (etcd_client.go:600-607), over any sequence of AWAY and MODE.           *)
AwayHasMessage == "a" \in ToSet(mode) => away

(* Operator status comes from OPER alone, never from MODE and what is left *)
(* in the bytes of an array (mode.go:28-31).                               *)
PrivilegesByOper ==
    [][ \A m \in {"o", "O"} :
          target = "user" /\ m \in ToSet(mode') \ ToSet(mode) => Oper(TRUE, m = "O") ]_vars
=============================================================================
