----------------------------- MODULE MCSociety -----------------------------
(* Three masks; the handles of two of them collide.  And the rules at the     *)
(* edge of the chain, on small inputs.                                       *)
EXTENDS Society, FiniteSetsExt
First == CHOOSE m \in Masks : TRUE
MCHandle == [m \in Masks |-> m = First]

-----------------------------------------------------------------------------
(* The bodies of the posts, which no pallet ever sees.                       *)
Edge == INSTANCE Edge
            WITH Rejected <- None, FormatVersion <- 1, Blank <- 32, Invalid <- 255,
                 MaxBodyLen <- 2, MaxHops <- 2

UpTo(n, bytes) == UNION {[1..k -> bytes] : k \in 0..n}
Texts == UpTo(3, {1, 32, 97})
Bytes == UpTo(4, {1, 2, 32, 97, 255})

(* A reader who holds the digest of a post gets the text its author wrote    *)
(* from whatever bytes it is served, or an error; and of what can be read    *)
(* only blank texts could not have been posted by this client.               *)
ASSUME PostsReadAsWritten ==
    /\ \A text \in Texts, bytes \in Bytes :
          Edge!Refusal(text) = "none" =>
            Edge!VerifyFetched(Edge!Submission(text).digest, bytes)
              = IF bytes = Edge!Submission(text).ipfs_bytes THEN Edge!Ok(text)
                ELSE Edge!Failed("DigestMismatch")
    /\ \A bytes \in Bytes :
          LET read == Edge!Parse(bytes)
          IN  read.error = "none" =>
                /\ Edge!Serialize(read.text) = bytes
                /\ Edge!Refusal(read.text) \in {"none", "Empty"}

-----------------------------------------------------------------------------
(* The screen before the pool, on transactions of at most two bytes.         *)
Heads == {0, 4, 5, 69, 132, 133, 222}
Xts == {<<>>} \union {<<b>> : b \in Heads} \union {<<b, c>> : b \in Heads, c \in {4, 222}}
Batches == UNION {[1..n -> {<<>>, <<4>>, <<132, 222>>, <<222, 4>>}] : n \in 0..3}

(* A transaction is judged by its own first byte, not by the length it       *)
(* travels behind; and a batch is answered as its transactions would be one  *)
(* by one, a refused one shifting nobody else's answer.                      *)
ASSUME BatchAnsweredInPlace ==
    LET Answer(xt) == <<"answer", xt>>
    IN  /\ \A xt \in Xts :
              Edge!LooksLikeExtrinsic(Edge!Wrap(xt)) <=> Edge!LooksLikePreamble(xt)
        /\ \A xts \in Batches :
              LET on == Edge!HandedOn(xts)
              IN  Edge!SubmitAt(xts, [i \in DOMAIN on |-> Answer(on[i])])
                    = [i \in DOMAIN xts |-> Edge!SubmitOne(xts[i], Answer(xts[i]))]

-----------------------------------------------------------------------------
(* The relays of a path are distinct, of some reputation and as many as were *)
(* asked for, or there is no path; and each round takes a relay in proportion *)
(* to its reputation among those that are left.                              *)
Total(f, S) == MapThenSumSet(LAMBDA x : f[x], S)
Draws == 0..59                     \* 60 is a multiple of every total below
ASSUME PathByReputation ==
    \A reps \in [1..3 -> 0..2] :
        LET candidates == [i \in 1..3 |-> [public |-> i, reputation |-> reps[i]]]
            reputed == {i \in 1..3 : reps[i] > 0}
            Path(k, first, second) == Edge!SelectPath(candidates, k, <<first, second>>)
            Fair(Drawn(_), left) ==
                \A c \in left : Cardinality({d \in Draws : Drawn(d) = c}) * Total(reps, left)
                                 = reps[c] * Cardinality(Draws)
        IN  /\ \A k \in 0..3 : Path(k, 0, 0) = None <=> k \notin 1..Min({2, Cardinality(reputed)})
            /\ reputed # {} => Fair(LAMBDA d : Path(1, d, 0)[1], reputed)
            /\ Cardinality(reputed) > 1 =>
                 \A d \in 0..(Total(reps, reputed) - 1) :
                    LET relay == Path(1, d, 0)[1]
                    IN  /\ Fair(LAMBDA e : Path(2, d, e)[2], reputed \ {relay})
                        /\ \A e \in Draws : Path(2, d, e)[1] = relay
=============================================================================
