------------------------------- MODULE TxObject -------------------------------
(***************************************************************************)
(* The Transaction object of core/types/transaction.go and the legacy     *)
(* payload of tx_legacy.go. A Transaction holds its payload (inner) and   *)
(* two read-through caches, the hash and the encoded size, filled by the  *)
(* first Hash() or Size() call; decoding stores a size but leaves the     *)
(* hash cache as it is. WithSignatureAndPublicKey returns a new object    *)
(* with a copied, signed payload. Only dynamic-fee payloads have an       *)
(* encoding: encoding a legacy one panics.                                *)
(*                                                                         *)
(* Objects are model values; a payload is [kind, body, sig], with the     *)
(* body standing for every field but the signature. The hash is the       *)
(* injective prefixedRlpHash, kept as the payload it hashes; the time     *)
(* first seen is not modelled (nothing here reads it).                    *)
(***************************************************************************)
EXTENDS Integers, Sequences, SequencesExt

CONSTANTS
    Objs,       \* Transaction objects
    Bodies,     \* payload contents other than the signature
    BodyLen,    \* encoded length of each body
    Sigs,       \* signatures a signer may produce
    MaxTxs,     \* bound on the length of a Transactions list
    Nil

Kinds == {"dynamic", "legacy"}

\* "unsigned" stands for both a nil signature and the zero-filled one
\* LegacyTx.copy makes of it.
Payload == [kind : Kinds, body : Bodies, sig : Sigs \cup {"unsigned"}]

\* The type byte of a kind: DynamicFeeTxType, and LegacyTxType (0).
TypeByte(kind) == IF kind = "dynamic" THEN 2 ELSE 0

\* Encoded length of a payload, without the type byte.
PayloadLen(p) == BodyLen[p.body] + (IF p.sig = "unsigned" THEN 1 ELSE 2)

\* The canonical encoding of a payload: type byte then payload, as a
\* record of its length, first byte and what the rest decodes to.
Enc(p) == [len |-> 1 + PayloadLen(p), type |-> TypeByte(p.kind), rest |-> p]

\* Byte strings a decoder may be handed: encodings of every payload (a
\* legacy one made elsewhere), an empty and a one-byte string, and a
\* dynamic-fee type byte followed by garbage.
Wire == {Enc(p) : p \in Payload}
        \cup {[len |-> 0, type |-> Nil, rest |-> Nil],
              [len |-> 1, type |-> 2, rest |-> Nil],
              [len |-> 3, type |-> 2, rest |-> Nil]}

VARIABLES
    objs,       \* per object: [inner, hash, size, wire], Nil when not allocated;
                \* wire: the payload was decoded from bytes
    redecoded,  \* history: objects decoded into after their hash was cached
    panicked,   \* an encoding of a legacy payload panicked
    diff        \* the TxDifference call of the step just taken: the payloads
                \* of a, b and of the result, and whether a hash it read was
                \* stale; Nil after any other step

vars == <<objs, redecoded, panicked, diff>>

-----------------------------------------------------------------------------
(* transaction.go, tx_legacy.go *)

\* decodeTyped: errShortTypedTx, ErrTxTypeNotSupported for any type byte
\* but DynamicFeeTxType, or the payload's own decode error.
DecodeTyped(b) ==
    CASE b.len <= 1            -> [ok |-> FALSE]
      [] b.type # 2            -> [ok |-> FALSE]
      [] b.rest = Nil          -> [ok |-> FALSE]
      [] OTHER                 -> [ok |-> TRUE, inner |-> b.rest]

\* The hash prefixedRlpHash computes, and the size Size() computes.
HashOf(p) == <<"keccak256", TypeByte(p.kind), p>>
SizeOf(p) == 1 + PayloadLen(p)

\* Hash: a cached hash is returned as is, a missing one computed and stored.
Hash(o) ==
    /\ ~panicked
    /\ objs[o] # Nil
    /\ objs[o].hash = Nil
    /\ objs' = [objs EXCEPT ![o].hash = HashOf(objs[o].inner)]
    /\ UNCHANGED <<redecoded, panicked>>
    /\ diff' = Nil

\* Size: likewise for the encoded size, rlp length of the payload plus one.
Size(o) ==
    /\ ~panicked
    /\ objs[o] # Nil
    /\ objs[o].size = Nil
    /\ objs' = [objs EXCEPT ![o].size = SizeOf(objs[o].inner)]
    /\ UNCHANGED <<redecoded, panicked>>
    /\ diff' = Nil

\* Mutant: setDecoded stores the size even when it is unknown (0).
SetDecodedAnySize(t, inner, size) ==
    [t EXCEPT !.inner = inner, !.size = size]

\* Mutant: setDecoded keeps a size already cached.
SetDecodedKeepSize(t, inner, size) ==
    [t EXCEPT !.inner = inner,
              !.size = IF t.size = Nil /\ size > 0 THEN size ELSE @]

\* setDecoded: the payload replaced, the size stored when known; the hash
\* cache is left alone.
SetDecoded(t, inner, size) ==
    [t EXCEPT !.inner = inner, !.size = IF size > 0 THEN size ELSE @]

\* A new, zero Transaction.
Fresh == [inner |-> Nil, hash |-> Nil, size |-> Nil, wire |-> FALSE]

\* NewTx: a new object over a copy of the payload; setDecoded with size 0
\* stores no size.
NewTx(o, p) ==
    /\ ~panicked
    /\ objs[o] = Nil
    /\ objs' = [objs EXCEPT ![o] = SetDecoded(Fresh, p, 0)]
    /\ UNCHANGED <<redecoded, panicked>>
    /\ diff' = Nil

\* UnmarshalBinary, or DecodeRLP of the string b, into object o (a new,
\* zero Transaction when o is not allocated): on success setDecoded with
\* the payload and len(b); on an error o is left unchanged.
Decode(o, b) ==
    LET d == DecodeTyped(b)
        t == IF objs[o] = Nil THEN Fresh ELSE objs[o]
    IN  /\ ~panicked
        /\ d.ok
        /\ objs' = [objs EXCEPT ![o] = [SetDecoded(t, d.inner, b.len) EXCEPT !.wire = TRUE]]
        /\ redecoded' = IF t.hash # Nil THEN redecoded \cup {o}
                        ELSE redecoded \ {o}
        /\ UNCHANGED panicked
        /\ diff' = Nil

\* LegacyTx.copy, and the signature setter: the copy gets the signature.
SignedCopy(p, s) == [p EXCEPT !.sig = s]

\* Mutant: the signature is set on the payload itself, not on a copy.
WithSignatureAndPublicKeyInPlace(o, c, s) ==
    /\ ~panicked
    /\ objs[o] # Nil
    /\ objs[c] = Nil
    /\ objs' = [objs EXCEPT ![o].inner = SignedCopy(@, s),
                            ![c] = [inner |-> SignedCopy(objs[o].inner, s),
                                    hash |-> Nil, size |-> Nil, wire |-> FALSE]]
    /\ UNCHANGED <<redecoded, panicked>>
    /\ diff' = Nil

\* WithSignatureAndPublicKey: a new object c over a signed copy of o's
\* payload, with empty caches; o is unchanged.
WithSignatureAndPublicKey(o, c, s) ==
    /\ ~panicked
    /\ objs[o] # Nil
    /\ objs[c] = Nil
    /\ objs' = [objs EXCEPT ![c] = [inner |-> SignedCopy(objs[o].inner, s),
                                    hash |-> Nil, size |-> Nil, wire |-> FALSE]]
    /\ UNCHANGED <<redecoded, panicked>>
    /\ diff' = Nil

\* MarshalBinary or EncodeRLP: encodeTyped calls the payload's encode,
\* which panics for a legacy payload (a dynamic-fee one is only read).
MarshalBinary(o) ==
    /\ ~panicked
    /\ objs[o] # Nil
    /\ objs[o].inner.kind = "legacy"
    /\ panicked' = TRUE
    /\ UNCHANGED <<objs, redecoded>>
    /\ diff' = Nil

\* The hash Hash() returns for o: the cached one, or the one it computes.
HashNow(o) == IF objs[o].hash = Nil THEN HashOf(objs[o].inner) ELSE objs[o].hash

\* The payloads of a list of objects.
Payloads(l) == [i \in 1..Len(l) |-> objs[l[i]].inner]

\* Mutant: the remove set is built from all of b but its last transaction.
TxDifferenceSkipLast(a, b) ==
    LET remove == {HashNow(x) : x \in ToSet(SubSeq(b, 1, Len(b) - 1))}
        keep   == SelectSeq(a, LAMBDA x : HashNow(x) \notin remove)
    IN  /\ ~panicked
        /\ \A x \in ToSet(a) \cup ToSet(b) : objs[x] # Nil
        /\ objs' = [x \in Objs |-> IF x \in ToSet(a) \cup ToSet(b)
                                   THEN [objs[x] EXCEPT !.hash = HashNow(x)]
                                   ELSE objs[x]]
        /\ diff' = [a |-> Payloads(a), b |-> Payloads(b), keep |-> Payloads(keep),
                    stale |-> (ToSet(a) \cup ToSet(b)) \cap redecoded # {}]
        /\ UNCHANGED <<redecoded, panicked>>

\* TxDifference: the hashes of b, each read through Hash() and so cached,
\* form the remove set; the transactions of a whose Hash() is not in it
\* are kept, in order.
TxDifference(a, b) ==
    LET remove == {HashNow(x) : x \in ToSet(b)}
        keep   == SelectSeq(a, LAMBDA x : HashNow(x) \notin remove)
    IN  /\ ~panicked
        /\ \A x \in ToSet(a) \cup ToSet(b) : objs[x] # Nil
        /\ objs' = [x \in Objs |-> IF x \in ToSet(a) \cup ToSet(b)
                                   THEN [objs[x] EXCEPT !.hash = HashNow(x)]
                                   ELSE objs[x]]
        /\ diff' = [a |-> Payloads(a), b |-> Payloads(b), keep |-> Payloads(keep),
                    stale |-> (ToSet(a) \cup ToSet(b)) \cap redecoded # {}]
        /\ UNCHANGED <<redecoded, panicked>>

Init ==
    /\ objs = [o \in Objs |-> Nil]
    /\ redecoded = {}
    /\ panicked = FALSE
    /\ diff = Nil

Next ==
    \/ \E o \in Objs, p \in Payload : NewTx(o, p)
    \/ \E o \in Objs : Hash(o) \/ Size(o) \/ MarshalBinary(o)
    \/ \E o \in Objs, b \in Wire : Decode(o, b)
    \/ \E o, c \in Objs, s \in Sigs : WithSignatureAndPublicKey(o, c, s)
    \/ \E a, b \in BoundedSeq(Objs, MaxTxs) : TxDifference(a, b)

Spec == Init /\ [][Next]_vars

-----------------------------------------------------------------------------
(* Properties *)

\* A cached size is a positive byte count: Size() and a decode store one,
\* NewTx, which knows none, stores nothing.
TypeOK ==
    /\ \A o \in Objs :
         objs[o] = Nil \/
         objs[o] \in [inner : Payload, hash : {HashOf(p) : p \in Payload} \cup {Nil},
                      size : (Nat \ {0}) \cup {Nil}, wire : BOOLEAN]
    /\ redecoded \subseteq Objs
    /\ panicked \in BOOLEAN
    /\ diff = Nil \/ diff.stale \in BOOLEAN

\* A cached hash is the hash of the payload the object holds, unless the
\* object was decoded into after its hash was cached (setDecoded leaves
\* the hash cache alone): signing must produce a new object and leave the
\* original's payload, and so its cached hash, untouched.
HashCacheFresh ==
    \A o \in Objs :
        objs[o] # Nil /\ objs[o].hash # Nil /\ o \notin redecoded =>
            objs[o].hash = HashOf(objs[o].inner)

\* A cached size is the encoded size of the payload the object holds,
\* whether Size() computed it or a decode stored the length it read, and
\* also after a decode into an object whose size was cached.
SizeCacheExact ==
    \A o \in Objs :
        objs[o] # Nil /\ objs[o].size # Nil => objs[o].size = SizeOf(objs[o].inner)

\* TxDifference keeps exactly the transactions of a whose payload is that
\* of no transaction of b, in a's order, comparing by the hashes Hash()
\* reads from and writes to the caches: a hash cached earlier by Hash, by
\* another TxDifference or shared with a signed copy must not make it
\* keep or drop the wrong one. Exempt: a hash left stale by a decode into
\* an object already hashed.
DifferenceByContent ==
    diff # Nil /\ ~diff.stale =>
        diff.keep = SelectSeq(diff.a, LAMBDA p : p \notin ToSet(diff.b))

=============================================================================
