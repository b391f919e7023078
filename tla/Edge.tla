-------------------------------- MODULE Edge --------------------------------
(***************************************************************************)
(* What stands between the chain and the outside, and keeps no state: the  *)
(* screen before the transaction pool (txguard.rs of the node), the bytes  *)
(* of posts, of which a pallet keeps the hash (forum-core), and the choice *)
(* of the relays of a circuit (route.rs of sphinx-core).  Bytes are        *)
(* sequences over 0..255.                                                  *)
(***************************************************************************)
EXTENDS Integers, SequencesExt, FiniteSetsExt

CONSTANTS
  Rejected,                        \* InvalidTransaction::Call
  FormatVersion, Blank, Invalid,   \* the bytes of a post that are told apart
  MaxBodyLen,
  MaxHops, None

-----------------------------------------------------------------------------
(* What cannot be an extrinsic is refused before the runtime is asked.  The *)
(* pool behind the screen answers each transaction of a batch in turn.      *)
\* The kinds of an extrinsic, the two high bits of its first byte.
Bare == 0
General == 1
Signed == 2

LooksLikePreamble(inner) ==
    /\ inner # <<>>
    /\ LET version == inner[1] % 64
           kind    == inner[1] \div 64
       IN  \/ kind = Bare /\ version \in 4..5
           \/ kind = Signed /\ version = 4
           \/ kind = General /\ version = 5

\* A sequence of bytes behind its length.  Below 64 the length takes one byte,
\* whose low bits are zero; the model has no longer one.
Wrap(bytes) == <<4 * Len(bytes)>> \o bytes
IsWrapped(bytes) ==
    bytes # <<>> /\ bytes[1] % 4 = 0 /\ bytes[1] \div 4 <= Len(bytes) - 1
Unwrapped(bytes) == SubSeq(bytes, 2, 1 + bytes[1] \div 4)

LooksLikeExtrinsic(bytes) ==
    LooksLikePreamble(IF IsWrapped(bytes) THEN Unwrapped(bytes) ELSE bytes)

\* What is handed on of a batch, and the answers to the whole of it: the pool's
\* for what was handed on, in turn, a refusal in the place of the rest and of
\* what the pool left unanswered.  An error of the pool for a whole batch is
\* passed on as it is.
HandedOn(xts) == SelectSeq(xts, LAMBDA xt : LooksLikeExtrinsic(Wrap(xt)))
SubmitAt(xts, passed) ==
    LET ok(i) == LooksLikeExtrinsic(Wrap(xts[i]))
        turn(i) == Len(HandedOn(SubSeq(xts, 1, i)))
    IN  IF \A i \in DOMAIN xts : ok(i) THEN passed
        ELSE [i \in DOMAIN xts |->
                IF ok(i) /\ turn(i) \in DOMAIN passed THEN passed[turn(i)] ELSE Rejected]
SubmitOne(xt, answer) == IF LooksLikeExtrinsic(Wrap(xt)) THEN answer ELSE Rejected

-----------------------------------------------------------------------------
(* A text is a sequence of characters of one byte each; of the bytes it     *)
(* matters which is the version, which is blank and which is no text.  No   *)
(* two sequences of bytes have one hash.                                    *)
Ok(text) == [error |-> "none", text |-> text]
Failed(error) == [error |-> error, text |-> <<>>]
Digest(bytes) == [sha256 |-> bytes]

Serialize(text) == <<FormatVersion>> \o text
Parse(bytes) ==
    CASE bytes = <<>> \/ bytes[1] # FormatVersion -> Failed("Malformed")
      [] bytes = <<FormatVersion>> -> Failed("Empty")
      [] Len(bytes) - 1 > MaxBodyLen -> Failed("TooLong")
      [] OTHER -> IF \E i \in 2..Len(bytes) : bytes[i] = Invalid THEN Failed("Malformed")
                  ELSE Ok(Tail(bytes))

\* What the client of an author makes of its text before it posts the digest.
Refusal(text) ==
    IF \A i \in DOMAIN text : text[i] = Blank THEN "Empty"
    ELSE IF Len(text) > MaxBodyLen THEN "TooLong" ELSE "none"
Submission(text) == [digest |-> Digest(Serialize(text)), ipfs_bytes |-> Serialize(text)]

\* What the client of a reader makes of the bytes it was given for the digest.
VerifyFetched(digest, bytes) ==
    IF Digest(bytes) # digest THEN Failed("DigestMismatch") ELSE Parse(bytes)

-----------------------------------------------------------------------------
(* The relays of a circuit, drawn by reputation without replacement.  What  *)
(* the seed makes of each round is an input.                                *)
\* The weight of a pool of candidates, given as the sequence of their places.
Weight(candidates, pool) ==
    FoldLeft(LAMBDA sum, i : sum + candidates[i].reputation, 0, pool)

\* Where in the pool a point falls; the last of the pool takes the place of who left.
Hit(candidates, pool, point) ==
    Min({pos \in DOMAIN pool : point < Weight(candidates, SubSeq(pool, 1, pos))})
SwapRemove(pool, pos) == Front([pool EXCEPT ![pos] = Last(pool)])

TakeHop(candidates, path, draw) ==
    LET pos == Hit(candidates, path.pool, draw % Weight(candidates, path.pool))
    IN  [pool |-> SwapRemove(path.pool, pos),
         chosen |-> Append(path.chosen, candidates[path.pool[pos]].public)]

SelectPath(candidates, k, draws) ==
    LET pool == SelectSeq([i \in DOMAIN candidates |-> i],
                          LAMBDA i : candidates[i].reputation > 0)
    IN  IF k \notin 1..MaxHops \/ Len(pool) < k THEN None
        ELSE FoldLeft(LAMBDA path, round : TakeHop(candidates, path, draws[round]),
                      [pool |-> pool, chosen |-> <<>>], [i \in 1..k |-> i]).chosen
=============================================================================
