----------------------------- MODULE MsgSplitter -----------------------------
(***************************************************************************)
(* MsgSplitter (src-wrapper/src/crypto.rs) as `up` of bridge_ws uses it: it *)
(* cuts the client's stream, which TCP delivers in arbitrary chunks, into   *)
(* the packets of the client's transport, one WebSocket frame each.         *)
(*                                                                         *)
(* The stream is encrypted.  plain_buf holds the decrypted bytes, in which  *)
(* the headers are read, cipher_buf the same bytes as they are passed on;   *)
(* here a passed-on byte is its position in the stream, so that a byte that *)
(* is lost, doubled or moved shows.  The bytes are whatever the client      *)
(* sends.  The literals of the headers are parameters.                      *)
(***************************************************************************)
EXTENDS Integers, Sequences

CONSTANTS Bytes,        \* the values the client uses
          Base,         \* 256
          Long,         \* 0x7F, the mark of the long header, also the mask
          Word,         \* 4, the unit of the lengths of the abridged transport
          MaxLen,       \* bound on the stream (model checking only)
          Sizes         \* lengths of the chunks (model checking only)

\* What the parameters are (assumed by the modules that use this one).
ByteAssumption ==
    /\ Base \in Nat /\ Bytes \subseteq 0..(Base - 1)
    /\ Long \in Nat \ {0} /\ Base = 2 * (Long + 1)
    /\ Word \in Nat \ {0}
    /\ MaxLen \in Nat /\ Sizes \subseteq Nat \ {0}

VARIABLES
    proto,      \* proto_type: "abridged", or "intermediate" for both others
    got,        \* the decrypted stream so far
    cipher,     \* cipher_buf
    plain,      \* plain_buf
    disabled,
    pc,         \* "reading", "cutting" (the loop of split) or "closed"
    sent        \* the parts handed over, and why they end where they end

vars == <<proto, got, cipher, plain, disabled, pc, sent>>

Why == {"packet", "rest"}

-----------------------------------------------------------------------------

TypeOK ==
    /\ proto \in {"abridged", "intermediate"}
    /\ got \in Seq(Bytes)
    /\ cipher \in Seq(Nat)
    /\ plain \in Seq(Bytes)
    /\ disabled \in BOOLEAN
    /\ pc \in {"reading", "cutting", "closed"}
    /\ sent \in Seq([bytes : Seq(Nat), why : Why])

Init ==
    /\ proto \in {"abridged", "intermediate"}
    /\ got = <<>> /\ cipher = <<>> /\ plain = <<>> /\ sent = <<>>
    /\ disabled = FALSE
    /\ pc = "reading"

-----------------------------------------------------------------------------
(* next_packet_len                                                          *)

\* Mutant of First: the quick-ack bit is taken for a part of the length.
FirstUnmasked(b) == b[1]

\* The length in the first byte of the abridged transport, without its flag.
First(b) == b[1] % (Long + 1)

HeaderLen(b) == IF proto = "abridged" /\ First(b) # Long THEN 1 ELSE 4

\* The little-endian lengths; the highest bit of the last is a flag.
PayloadLen(b) ==
    IF proto = "intermediate"
    THEN b[1] + Base * b[2] + Base * Base * b[3] + Base * Base * Base * (b[4] % (Long + 1))
    ELSE Word * (IF First(b) = Long THEN b[2] + Base * b[3] + Base * Base * b[4]
                                    ELSE First(b))

\* -1 to wait for more, 0 to give up, else the length of the first packet.
NextPacketLen(b) ==
    IF b = <<>> \/ Len(b) < HeaderLen(b) THEN -1
    ELSE IF PayloadLen(b) = 0 THEN 0
    ELSE IF Len(b) < HeaderLen(b) + PayloadLen(b) THEN -1
    ELSE HeaderLen(b) + PayloadLen(b)

-----------------------------------------------------------------------------
(* split and flush                                                          *)

Part(bytes, why) == [bytes |-> bytes, why |-> why]

Arrived(chunk) == [i \in 1..Len(chunk) |-> Len(got) + i]

\* split: a chunk is passed on as it is or joins the two buffers.
Split(chunk) ==
    /\ pc = "reading"
    /\ chunk # <<>>
    /\ got' = got \o chunk
    /\ \/ /\ disabled
          /\ sent' = Append(sent, Part(Arrived(chunk), "rest"))
          /\ UNCHANGED <<cipher, plain, pc>>
       \/ /\ ~disabled
          /\ cipher' = cipher \o Arrived(chunk)
          /\ plain' = plain \o chunk
          /\ pc' = "cutting"
          /\ UNCHANGED sent
    /\ UNCHANGED <<proto, disabled>>

\* The loop ends: the buffer is empty or holds no whole packet.
CutWaits ==
    /\ pc = "cutting"
    /\ cipher = <<>> \/ NextPacketLen(plain) < 0 \/ Len(cipher) < NextPacketLen(plain)
    /\ pc' = "reading"
    /\ UNCHANGED <<proto, got, cipher, plain, disabled, sent>>

\* A packet without a payload: from here on nothing is cut any more.
CutRest ==
    /\ pc = "cutting" /\ cipher # <<>>
    /\ NextPacketLen(plain) = 0
    /\ sent' = Append(sent, Part(cipher, "rest"))
    /\ cipher' = <<>> /\ plain' = <<>>
    /\ disabled' = TRUE
    /\ pc' = "reading"
    /\ UNCHANGED <<proto, got>>

Drained(buf, n) == SubSeq(buf, n + 1, Len(buf))

\* Mutant of CutPacket: only the ciphertext is drained.
CutPacketHalf ==
    LET n == NextPacketLen(plain) IN
    /\ pc = "cutting"
    /\ n > 0 /\ Len(cipher) >= n
    /\ sent' = Append(sent, Part(SubSeq(cipher, 1, n), "packet"))
    /\ cipher' = Drained(cipher, n)
    /\ UNCHANGED <<proto, got, plain, disabled, pc>>

CutPacket ==
    LET n == NextPacketLen(plain) IN
    /\ pc = "cutting"
    /\ n > 0 /\ Len(cipher) >= n
    /\ sent' = Append(sent, Part(SubSeq(cipher, 1, n), "packet"))
    /\ cipher' = Drained(cipher, n)
    /\ plain' = Drained(plain, n)
    /\ UNCHANGED <<proto, got, disabled, pc>>

\* The client has closed its side: flush hands over what is left.
Flush ==
    /\ pc = "reading"
    /\ pc' = "closed"
    /\ sent' = IF cipher = <<>> THEN sent ELSE Append(sent, Part(cipher, "rest"))
    /\ cipher' = <<>> /\ plain' = <<>>
    /\ UNCHANGED <<proto, got, disabled>>

\* The chunks: what TCP may deliver at once.
Chunks == UNION {[1..n -> Bytes] : n \in Sizes}

Next ==
    \/ /\ pc = "reading"
       /\ \E chunk \in Chunks : Len(got) + Len(chunk) <= MaxLen /\ Split(chunk)
    \/ CutWaits \/ CutRest \/ CutPacket \/ Flush

Spec == Init /\ [][Next]_vars

-----------------------------------------------------------------------------
(* Properties *)

\* The bytes of the stream at the positions of a part.
Plain(bytes) == [i \in 1..Len(bytes) |-> got[bytes[i]]]

\* Each part continues where the one before it ended, and the buffer continues
\* where the last one ended.
Follows(p, q) == q[1] = p[Len(p)] + 1
Consecutive(p) == \A i \in 1..(Len(p) - 1) : p[i + 1] = p[i] + 1

\* The server gets the client's bytes, each one once and in order, and what it
\* has not got yet is still in the buffer, decrypted at its own place.
NothingLost ==
    LET all == [i \in 1..Len(sent) |-> sent[i].bytes]
                  \o (IF cipher = <<>> THEN <<>> ELSE <<cipher>>)
    IN  /\ plain = Plain(cipher)
        /\ \A p \in {all[i] : i \in 1..Len(all)} : p # <<>> /\ Consecutive(p)
        /\ \A i \in 1..(Len(all) - 1) : Follows(all[i], all[i + 1])
        /\ IF all = <<>> THEN got = <<>>
           ELSE all[1][1] = 1 /\ all[Len(all)][Len(all[Len(all)])] = Len(got)

\* The packets of the transports as the sender writes them: the payload has n
\* bytes, or n words in the abridged transport, which marks longer ones.
Digits(b, n) == b[1] + Base * b[2] + Base * Base * b[3] = n
IsFlagged(byte, value) == byte \in {value, value + Long + 1}

IsPacket(b) ==
    \E n \in 1..Len(b) :
        \/ /\ proto = "abridged" /\ n < Long
           /\ Len(b) = 1 + Word * n /\ IsFlagged(b[1], n)
        \/ /\ proto = "abridged"
           /\ Len(b) = 4 + Word * n /\ IsFlagged(b[1], Long)
           /\ Digits(Tail(b), n)
        \/ /\ proto = "intermediate" /\ Len(b) = 4 + n
           /\ \E high \in 0..Long :
                 IsFlagged(b[4], high) /\ Digits(b, n - Base * Base * Base * high)

\* The cuts do not depend on the chunks: every part sent before the splitter
\* gave up is exactly one packet, and between two chunks no whole packet is
\* held back.
OnePacketEach ==
    /\ \A i \in 1..Len(sent) :
          sent[i].why = "packet" => IsPacket(Plain(sent[i].bytes))
    /\ pc = "reading" =>
          \A n \in 1..Len(plain) : ~IsPacket(SubSeq(plain, 1, n))

=============================================================================
