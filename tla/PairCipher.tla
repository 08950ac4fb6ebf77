------------------------------ MODULE PairCipher ------------------------------
(***************************************************************************)
(* The ciphering of a connection after pairing, pair_cipher_new, encrypt   *)
(* and decrypt of src/src/pair_ap/pair_homekit.c. What is encrypted is cut *)
(* into blocks; a block goes over the connection as its length, the        *)
(* encrypted data and a tag, each made of bytes that TCP may deliver in    *)
(* any pieces. A byte is known by the block it is of and its place in it.  *)
(***************************************************************************)
EXTENDS Integers, Sequences

CONSTANTS
  EncryptedLenMax,   \* ENCRYPTED_LEN_MAX, 1024 in the code: data in a block
  AuthtagLength      \* AUTHTAG_LENGTH, 16 in the code

ASSUME PairCipherAssumption ==
  EncryptedLenMax \in Nat \ {0} /\ AuthtagLength \in Nat \ {0}

LengthSize == 2      \* the uint16_t before the data

\* The keys of cipher_new: 0 and 1 are the client's ends of the control and the event
\* connection, 2 and 3 the server's. Events are reversed: the server makes the requests.
EncryptionKey(channel) ==
  CASE channel = 0 -> "CONTROL_WRITE" [] channel = 1 -> "EVENTS_READ"
    [] channel = 2 -> "CONTROL_READ" [] channel = 3 -> "EVENTS_WRITE"
DecryptionKey(channel) ==
  CASE channel = 0 -> "CONTROL_READ" [] channel = 1 -> "EVENTS_WRITE"
    [] channel = 2 -> "CONTROL_WRITE" [] channel = 3 -> "EVENTS_READ"

\* The block with the counter as its nonce, as bytes.
Block(key, counter, data) ==
  [i \in 1..(LengthSize + Len(data) + AuthtagLength) |->
     [key |-> key, counter |-> counter, data |-> data, at |-> i]]

Blocks(data) == IF data = <<>> THEN 0 ELSE 1 + ((Len(data) - 1) \div EncryptedLenMax)

\* The data of the n-th block: the last block has what remains.
Portion(data, n) ==
  LET first == (n - 1) * EncryptedLenMax + 1
      last == IF n = Blocks(data) THEN Len(data) ELSE n * EncryptedLenMax
  IN SubSeq(data, first, last)

\* encrypt: the bytes made of the data with the counters from counter on.
Encrypted(key, counter, data) ==
  LET upto[n \in 0..Blocks(data)] ==
        IF n = 0 THEN <<>> ELSE upto[n - 1] \o Block(key, counter + n - 1, Portion(data, n))
  IN upto[Blocks(data)]

\* The length the code reads at the front of the bytes.
LengthAt(bytes) == Len(bytes[1].data)

\* The bytes hold a whole block, whose length the first of them tell.
WholeBlock(bytes) ==
  Len(bytes) >= LengthSize /\ LengthSize + LengthAt(bytes) + AuthtagLength <= Len(bytes)

\* decrypt_chacha accepts what was encrypted with the key and the nonce.
Authentic(bytes, key, counter) ==
  /\ bytes[1].key = key /\ bytes[1].counter = counter
  /\ SubSeq(bytes, 1, LengthSize + LengthAt(bytes) + AuthtagLength)
       = Block(key, counter, bytes[1].data)

\* One turn of the loop of decrypt, which ends at bytes that are not a whole block.
DecryptStep(r, key) ==
  IF ~r.ok \/ ~WholeBlock(r.rest) THEN r
  ELSE [r EXCEPT !.ok = Authentic(r.rest, key, r.counter), !.data = @ \o r.rest[1].data,
                 !.rest = SubSeq(@, LengthSize + LengthAt(@) + AuthtagLength + 1, Len(@)),
                 !.counter = @ + 1]

\* decrypt: all the whole blocks in the bytes. The length read is never that of a byte
\* inside a block, because only whole blocks are drained.
Decrypted(bytes, key, counter) ==
  LET start == [ok |-> Len(bytes) >= LengthSize, data |-> <<>>, rest |-> bytes, counter |-> counter]
      most == Len(bytes) \div (LengthSize + 1 + AuthtagLength)
      after[n \in 0..most] == IF n = 0 THEN start ELSE DecryptStep(after[n - 1], key)
  IN after[most]
=============================================================================
