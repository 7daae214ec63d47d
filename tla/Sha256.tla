-------------------------------- MODULE Sha256 --------------------------------
(***************************************************************************)
(* The incremental hash every download and every staged binary goes        *)
(* through (core/hash/sha256.cpp): bytes arrive in pieces of any size and  *)
(* are compressed block by block.                                          *)
(*                                                                         *)
(* The compression function is abstracted to the string of bytes it has    *)
(* been given.  A byte of the message is its position, counted from 1.     *)
(***************************************************************************)
EXTENDS Integers, SequencesExt

CONSTANTS
    Block,          \* bytes in a block: 64
    LengthField,    \* bytes of the length at the end of the last block: 8
    MaxBytes        \* the longest message

ASSUME BlockAssumption ==
    Block \in Nat /\ LengthField \in 1..(Block - 1) /\ MaxBytes \in Nat

VARIABLES
    sha,        \* m_buffer, m_bufferUsed, and what compress() has seen
    fed,        \* m_bitCount, in bytes
    finished    \* m_finished

shaVars == <<sha, fed, finished>>

\* The bytes of the padding: 0x80, 0x00, and those that spell the length n.
One == -1
Zero == 0
LengthBytes(n) == [i \in 1..LengthField |-> -1 - n - i]

\* reset()
Fresh == [buffer |-> [i \in 1..Block |-> Zero], used |-> 0, hashed |-> <<>>]

ShaInit == sha = Fresh /\ fed = 0 /\ finished = FALSE

\* memcpy of data to an offset of the buffer.
Copied(buffer, at, data) ==
    [i \in 1..Block |-> IF i - at \in DOMAIN data THEN data[i - at] ELSE buffer[i]]

\* update(): top up a block that was begun, then whole blocks straight from the
\* caller, then keep the tail.  The buffer is never cleared.
Absorb(s, data) ==
    LET need == Block - s.used
        take == IF s.used = 0 THEN 0 ELSE IF Len(data) < need THEN Len(data) ELSE need
        filled == Copied(s.buffer, s.used, SubSeq(data, 1, take))
        full == s.used + take = Block
        rest == SubSeq(data, take + 1, Len(data))
        whole == Len(rest) - (Len(rest) % Block)
        tail == SubSeq(rest, whole + 1, Len(rest))
    IN [buffer |-> Copied(filled, 0, tail),
        used |-> IF tail # <<>> THEN Len(tail) ELSE IF full THEN 0 ELSE s.used + take,
        hashed |-> s.hashed \o (IF full THEN filled ELSE <<>>) \o SubSeq(rest, 1, whole)]

Update(n) ==
    /\ ~finished /\ fed + n <= MaxBytes
    /\ sha' = Absorb(sha, [i \in 1..n |-> fed + i])
    /\ fed' = fed + n
    /\ UNCHANGED finished

\* Mutant: padding stops as soon as the length's place is reached or passed.
Bug_Pad(s) ==
    LET RECURSIVE Zeros(_)
        Zeros(t) == IF t.used >= Block - LengthField THEN t ELSE Zeros(Absorb(t, <<Zero>>))
    IN Zeros(Absorb(s, <<One>>))

\* 0x80, then zeros until the length has its place; both through update().
Pad(s) ==
    LET RECURSIVE Zeros(_)
        Zeros(t) == IF t.used = Block - LengthField THEN t ELSE Zeros(Absorb(t, <<Zero>>))
    IN Zeros(Absorb(s, <<One>>))

\* finish(): the second call returns the same digest.
Finish ==
    /\ ~finished
    /\ LET padded == Pad(sha)
           last == Copied(padded.buffer, Block - LengthField, LengthBytes(fed))
       IN sha' = [buffer |-> last, used |-> 0, hashed |-> padded.hashed \o last]
    /\ finished' = TRUE
    /\ UNCHANGED fed

Reset ==
    /\ sha' = Fresh
    /\ fed' = 0
    /\ finished' = FALSE

ShaNext == (\E n \in 1..MaxBytes : Update(n)) \/ Finish \/ Reset

-----------------------------------------------------------------------------

\* The message of n bytes padded as FIPS 180-4 section 5.1.1 says: the fewest
\* zeros that make whole blocks.
Padded(n) ==
    LET zeros == CHOOSE z \in 0..(Block - 1) : (n + 1 + z + LengthField) % Block = 0
    IN [i \in 1..n |-> i] \o <<One>> \o [i \in 1..zeros |-> Zero] \o LengthBytes(n)

\* However the message was cut into pieces, and whatever an earlier block left
\* in the buffer, compress() gets every byte once and in order, and in the end
\* exactly the padded message: what makes the digest of a download the digest
\* of the file (update, finish).
HashesTheMessage ==
    IF finished THEN sha.hashed = Padded(fed)
    ELSE /\ sha.used < Block
         /\ sha.hashed \o SubSeq(sha.buffer, 1, sha.used) = [i \in 1..fed |-> i]
=============================================================================
