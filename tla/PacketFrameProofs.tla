-------------------------- MODULE PacketFrameProofs --------------------------
(***************************************************************************)
(* What the checksum of a frame is worth, for inner packets of any length  *)
(* and any number of damages.                                              *)
(***************************************************************************)
EXTENDS PacketFrame, RpcWireProofs

(* What an unfinalized Writer holds of a packet with a whole payload: all  *)
(* of the payload and the terminator but for its last bit.                 *)
LEMMA FlushedBits ==
    ASSUME NEW p \in Bytes
    PROVE  /\ Flushed(p) \in Seq(Bit) /\ Len(Flushed(p)) = Len(p) + 15
           /\ \A i \in 1..Len(p) : Flushed(p)[i] = p[i]
           /\ \A i \in 1..15 : Flushed(p)[Len(p) + i] = Terminator[i]
  <1> DEFINE b == p \o Terminator
  <1>0. p \in Seq(Bit)
    BY DEF Bytes
  <1>1. Len(p) \in Nat /\ Len(p) % 8 = 0
    BY LenProperties DEF Bytes
  <1>2. Terminator \in Seq(Bit)
    BY TerminatorBits
  <1>a. /\ p \o Terminator \in Seq(Bit)
        /\ Len(p \o Terminator) = Len(p) + Len(Terminator)
        /\ \A i \in 1..(Len(p) + Len(Terminator)) :
              (p \o Terminator)[i] = IF i <= Len(p) THEN p[i] ELSE Terminator[i - Len(p)]
    BY <1>0, <1>2, ConcatProperties
  <1>b. Len(Terminator) = 16
    BY TerminatorBits
  <1> HIDE DEF b
  <1>3. /\ b \in Seq(Bit) /\ Len(b) = Len(p) + 16
        /\ \A i \in 1..(Len(p) + 16) : b[i] = IF i <= Len(p) THEN p[i] ELSE Terminator[i - Len(p)]
    BY <1>a, <1>b DEF b
  <1>4. (HeaderPhase + Len(b)) % 8 = 1
    BY <1>1, <1>3 DEF HeaderPhase
  <1>5. Flushed(p) = SubSeq(b, 1, Len(b) - 1)
    BY <1>4 DEF Flushed, b
  <1>6. Len(b) - 1 = Len(p) + 15 /\ Len(b) - 1 \in 0..Len(b)
    BY <1>1, <1>3
  <1>7. /\ Flushed(p) \in Seq(Bit) /\ Len(Flushed(p)) = Len(p) + 15
        /\ \A i \in 1..(Len(p) + 15) : Flushed(p)[i] = b[i]
    BY <1>3, <1>5, <1>6, PrefixBits
  <1>8. \A i \in 1..Len(p) : Flushed(p)[i] = p[i]
    BY <1>1, <1>3, <1>7
  <1>9. ASSUME NEW i \in 1..15
         PROVE  Flushed(p)[Len(p) + i] = Terminator[i]
    <2>1. Len(p) + i \in 1..(Len(p) + 15) /\ Len(p) + i \in 1..(Len(p) + 16)
      BY <1>1
    <2>2. ~(Len(p) + i <= Len(p)) /\ (Len(p) + i) - Len(p) = i
      BY <1>1
    <2>3. Flushed(p)[Len(p) + i] = b[Len(p) + i]
      BY <1>7, <2>1
    <2>4. b[Len(p) + i] = Terminator[(Len(p) + i) - Len(p)]
      BY <1>3, <2>1, <2>2
    <2>5. QED
      BY <2>2, <2>3, <2>4
  <1>10. QED
    BY <1>7, <1>8, <1>9

(* Two frames with one checksum carry one payload.                         *)
LEMMA FlushedInjective ==
    ASSUME NEW p \in Bytes, NEW q \in Bytes, Flushed(p) = Flushed(q)
    PROVE  p = q
  <1>1. p \in Seq(Bit) /\ q \in Seq(Bit) /\ Len(p) \in Nat /\ Len(q) \in Nat
    BY LenProperties DEF Bytes
  <1>2. Len(Flushed(p)) = Len(p) + 15 /\ \A i \in 1..Len(p) : Flushed(p)[i] = p[i]
    BY FlushedBits
  <1>3. Len(Flushed(q)) = Len(q) + 15 /\ \A i \in 1..Len(q) : Flushed(q)[i] = q[i]
    BY FlushedBits
  <1>4. Len(p) + 15 = Len(q) + 15
    BY <1>2, <1>3
  <1>5. Len(p) = Len(q)
    BY <1>1, <1>4
  <1>6. \A i \in 1..Len(p) : p[i] = q[i]
    BY <1>2, <1>3, <1>5
  <1>7. QED
    BY <1>1, <1>5, <1>6, SeqEqual

(* The arithmetic of two tails of one length: the game's terminator starts *)
(* before this crate's, by at most eight bits.                             *)
LEMMA ShiftArithmetic ==
    ASSUME NEW lb \in Nat, NEW lj \in Nat, lj <= 7, NEW lp \in Nat,
           lb + 16 + lj = lp + 15
    PROVE  \E d \in 1..8 :
              /\ lp = lb + d
              /\ \A i \in 1..(16 - d) :
                    i \in 1..15 /\ i + d \in 1..16 /\ lp + i = lb + (i + d)
  OBVIOUS

(* No frame that is all of it whole bytes has the checksum the game gives: *)
(* that would need the terminator to overlap with itself.                  *)
LEMMA GameChecksumIsOther ==
    ASSUME NEW p \in Bytes, NEW b \in Seq(Bit), NEW j \in Seq(Bit), Len(j) <= 7
    PROVE  b \o Terminator \o j # Flushed(p)
  <1> DEFINE w == b \o Terminator \o j
  <1> SUFFICES ASSUME w = Flushed(p)
               PROVE  FALSE
    OBVIOUS
  <1>1. p \in Seq(Bit)
    BY DEF Bytes
  <1>2. Len(b) \in Nat /\ Len(j) \in Nat /\ Len(p) \in Nat
    BY <1>1, LenProperties
  <1>3. Terminator \in Seq(Bit)
    BY TerminatorBits
  <1>t. ASSUME NEW t \in Seq(Bit)
        PROVE  /\ Len((b \o t) \o j) = Len(b) + Len(t) + Len(j)
               /\ \A i \in 1..Len(t) : ((b \o t) \o j)[Len(b) + i] = t[i]
    BY TailBits
  <1>4. /\ Len((b \o Terminator) \o j) = Len(b) + Len(Terminator) + Len(j)
        /\ \A i \in 1..Len(Terminator) : ((b \o Terminator) \o j)[Len(b) + i] = Terminator[i]
    BY <1>3, <1>t
  <1>5. Len(Terminator) = 16
    BY TerminatorBits
  <1>6. /\ Len(w) = Len(b) + 16 + Len(j)
        /\ \A i \in 1..16 : w[Len(b) + i] = Terminator[i]
    BY <1>4, <1>5
  <1>7. /\ Len(w) = Len(p) + 15
        /\ \A i \in 1..15 : w[Len(p) + i] = Terminator[i]
    <2>1. /\ Len(Flushed(p)) = Len(p) + 15
          /\ \A i \in 1..15 : Flushed(p)[Len(p) + i] = Terminator[i]
      BY FlushedBits
    <2>2. QED
      BY <2>1
  <1> HIDE DEF w
  <1>8. PICK d \in 1..8 :
           \A i \in 1..(16 - d) :
               i \in 1..15 /\ i + d \in 1..16 /\ Len(p) + i = Len(b) + (i + d)
    <2> DEFINE lb == Len(b)
               lj == Len(j)
               lp == Len(p)
    <2>1. lb + 16 + lj = lp + 15
      BY <1>6, <1>7
    <2>2. lb \in Nat /\ lj \in Nat /\ lp \in Nat
      BY <1>2
    <2>3. lj <= 7
      OBVIOUS
    <2> HIDE DEF lb, lj, lp
    <2>4. \E d \in 1..8 : \A i \in 1..(16 - d) :
             i \in 1..15 /\ i + d \in 1..16 /\ lp + i = lb + (i + d)
      BY <2>1, <2>2, <2>3, ShiftArithmetic
    <2>5. QED
      BY <2>4 DEF lb, lp
  <1>9. PICK i \in 1..(16 - d) : Terminator[i + d] # Terminator[i]
    <2>1. CASE d = 8
      <3>1. Terminator[1] = 1 /\ Terminator[1 + 8] = 0
        BY DEF Terminator
      <3>2. QED
        BY <2>1, <3>1
    <2>2. CASE d # 8
      <3>1. d \in 1..7
        BY <2>2
      <3>2. QED
        BY <3>1, NoOverlap
    <2>3. QED
      BY <2>1, <2>2
  <1>10. w[Len(p) + i] = Terminator[i] /\ w[Len(b) + (i + d)] = Terminator[i + d]
    BY <1>6, <1>7, <1>8
  <1>11. QED
    BY <1>8, <1>9, <1>10

(* What is read of any tail is whole bytes.                                *)
LEMMA ReadIsWhole ==
    ASSUME NEW w \in Seq(Bit), Parses(w)
    PROVE  ReadPayload(w) \in Bytes
  <1>1. ~TooShort(w) /\ FoundPadding(w) \in Paddings(w)
    BY FoundIsLeast DEF Parses
  <1>2. FoundPadding(w) \in 0..7 /\ FoundPadding(w) <= Len(w) - 16
    BY <1>1, CandidateBits DEF Paddings
  <1>3. Len(w) \in Nat
    BY LenProperties
  <1>4. Len(w) - FoundPadding(w) - 16 \in 0..Len(w)
    BY <1>2, <1>3
  <1>5. SubSeq(w, 1, Len(w) - FoundPadding(w) - 16) \in Seq(Bit)
    BY <1>4, PrefixBits
  <1>6. QED
    BY <1>5, BytesAreWhole DEF ReadPayload, Bytes
----------------------------------------------------------------------------
(* Where the checksum on the wire can come from, and what an intact frame  *)
(* of this crate looks like.                                               *)
FromCrate ==
    /\ sent.bits \in Bytes
    /\ wire.checksum \in {Garbled, Crc(sent.head, Flushed(sent.bits))}
    /\ intact => /\ wire.head = sent.head /\ wire.tail = WriteTail(sent.bits)
                 /\ wire.checksum = Crc(sent.head, Flushed(sent.bits))

FromGame ==
    \/ wire.checksum \in {Garbled, AllOnes}
    \/ \E junk \in Seq(Bit) :
          Len(junk) <= 7 /\ wire.checksum = Crc(sent.head, sent.bits \o Terminator \o junk)

IInv ==
    /\ TypeOK
    /\ wire # None /\ sent.by = "crate" => FromCrate
    /\ wire # None /\ sent.by = "game" => FromGame

(* Nothing was built or received yet.                                      *)
THEOREM InitIInv == Init => IInv
  BY MaxDamagesAssumption DEF Init, IInv, TypeOK

(* Building a frame and editing one touch nothing on the wire.             *)
LEMMA FrameStep ==
    ASSUME IInv, frame' \in Frames, UNCHANGED <<wire, sent, intact, damages>>
    PROVE  IInv'
  <1>1. TypeOK'
    BY DEF IInv, TypeOK
  <1>2. QED
    BY <1>1 DEF IInv, FromCrate, FromGame

(* Every step keeps IInv: a checksum is computed by a sender or garbled.   *)
THEOREM NextIInv == IInv /\ [Next]_vars => IInv'
  <1> SUFFICES ASSUME IInv, [Next]_vars
               PROVE  IInv'
    OBVIOUS
  <1>a. Zero \in Checksums /\ AllOnes \in Checksums /\ Garbled \in Checksums
    BY DEF Checksums
  <1>1. ASSUME NEW t \in MessageTypes, NEW h \in Heads, NEW bytes \in OwnPayloads,
               New(t, h, bytes)
        PROVE  IInv'
    <2>1. bytes \in Bytes
      BY PayloadsAssumption
    <2>2. frame' \in Frames
      BY <1>a, <1>1, <2>1 DEF New, Frames
    <2>3. QED
      BY <1>1, <2>2, FrameStep DEF New
  <1>2. ASSUME NEW t \in MessageTypes, NEW h \in Heads, NEW bytes \in OwnPayloads,
               Edit(t, h, bytes)
        PROVE  IInv'
    <2>1. bytes \in Bytes /\ frame \in Frames
      BY <1>2, PayloadsAssumption DEF Edit, IInv, TypeOK
    <2>2. frame.checksum \in Checksums
      BY <2>1 DEF Frames
    <2>3. frame' \in Frames
      BY <1>2, <2>1, <2>2 DEF Edit, Frames
    <2>4. QED
      BY <1>2, <2>3, FrameStep DEF Edit
  <1>3. ASSUME ToBytes
        PROVE  IInv'
    <2>1. frame \in Frames
      BY <1>3 DEF ToBytes, IInv, TypeOK
    <2>2. frame.type \in MessageTypes /\ frame.head \in Heads /\ frame.payload \in Bytes
      BY <2>1 DEF Frames
    <2>3. frame.payload \in Seq(Bit)
      BY <2>2 DEF Bytes
    <2>4. WriteTail(frame.payload) \in Seq(Bit)
      BY <2>3, WrittenTail DEF Framed
    <2>5. Crc(frame.head, Flushed(frame.payload)) \in Checksums
      BY <2>2, FlushedBits DEF Crc, Checksums
    <2>6. wire' = [type |-> frame.type, checksum |-> Crc(frame.head, Flushed(frame.payload)),
                   head |-> frame.head, tail |-> WriteTail(frame.payload)]
      BY <1>3 DEF ToBytes, WrittenChecksum, ComputeChecksum
    <2>7. sent' = [by |-> "crate", head |-> frame.head, bits |-> frame.payload]
      BY <1>3 DEF ToBytes
    <2>8. wire' \in Wires
      BY <2>2, <2>4, <2>5, <2>6 DEF Wires
    <2>9. sent' \in Sendings
      BY <2>2, <2>3, <2>7 DEF Sendings
    <2>10. intact' = TRUE /\ UNCHANGED <<frame, damages>>
      BY <1>3 DEF ToBytes
    <2>11. wire' # None /\ sent' # None
      BY <2>8, <2>9, NoneAssumption
    <2>12. TypeOK'
      BY <2>8, <2>9, <2>10, <2>11 DEF IInv, TypeOK
    <2>13. FromCrate'
      BY <2>2, <2>6, <2>7, <2>10 DEF FromCrate
    <2>14. sent'.by # "game"
      BY <2>7
    <2>15. QED
      BY <2>12, <2>13, <2>14 DEF IInv
  <1>4. ASSUME NEW t \in MessageTypes, NEW h \in Heads, NEW bits \in GamePayloads,
               GameSends(t, h, bits)
        PROVE  IInv'
    <2>1. bits \in Seq(Bit)
      BY PayloadsAssumption
    <2>2. HeaderPhase + Len(bits) + 16 \in Nat
      BY <2>1, LenProperties DEF HeaderPhase
    <2> DEFINE k == Slack(HeaderPhase + Len(bits) + 16)
    <2>3. k \in 0..7
      BY <2>2, SlackRange
    <2> DEFINE tail(junk) == bits \o Terminator \o junk
               sum(junk) == IF t = "Unprotected" THEN AllOnes ELSE Crc(h, tail(junk))
    <2>4. PICK junk \in [1..k -> Bit] :
             wire' = [type |-> t, checksum |-> sum(junk), head |-> h, tail |-> tail(junk)]
      BY <1>4 DEF GameSends
    <2> HIDE DEF k, tail, sum
    <2>5. junk \in Seq(Bit) /\ Len(junk) <= 7
      <3>1. k \in Nat /\ junk \in [1..k -> Bit]
        BY <2>3, <2>4
      <3>2. junk \in Seq(Bit) /\ Len(junk) = k
        BY <3>1
      <3>3. QED
        BY <2>3, <3>2
    <2> USE DEF tail, sum
    <2>6. tail(junk) \in Seq(Bit)
      <3>1. Framed(bits \o Terminator \o junk, bits)
        BY <2>1, <2>5, TailIsFramed
      <3>2. QED
        BY <3>1 DEF Framed
    <2> HIDE DEF tail
    <2>7. sum(junk) \in Checksums
      BY <2>6 DEF Crc, Checksums
    <2>8. wire'.checksum = sum(junk)
      BY <2>4
    <2>9. wire' \in Wires
      BY <2>4, <2>6, <2>7 DEF Wires
    <2>10. sent' = [by |-> "game", head |-> h, bits |-> bits]
      BY <1>4 DEF GameSends
    <2>11. sent' \in Sendings
      BY <2>1, <2>10 DEF Sendings
    <2>12. intact' = TRUE /\ UNCHANGED <<frame, damages>>
      BY <1>4 DEF GameSends
    <2>13. wire' # None /\ sent' # None
      BY <2>9, <2>11, NoneAssumption
    <2>14. TypeOK'
      BY <2>9, <2>11, <2>12, <2>13 DEF IInv, TypeOK
    <2>15. FromGame'
      <3>1. CASE t = "Unprotected"
        BY <3>1, <2>8 DEF FromGame
      <3>2. CASE t # "Unprotected"
        <4>1. wire'.checksum = Crc(sent'.head, sent'.bits \o Terminator \o junk)
          BY <3>2, <2>8, <2>10 DEF tail
        <4>2. QED
          BY <4>1, <2>5 DEF FromGame
      <3>3. QED
        BY <3>1, <3>2
    <2>16. sent'.by # "crate"
      BY <2>10
    <2>17. QED
      BY <2>14, <2>15, <2>16 DEF IInv
  <1>5. ASSUME Damage
        PROVE  IInv'
    <2>1. wire \in Wires /\ wire # None /\ sent # None
      BY <1>5 DEF Damage, IInv, TypeOK
    <2>2. wire' \in Damaged(wire) /\ intact' = FALSE /\ UNCHANGED <<frame, sent>>
      BY <1>5 DEF Damage
    <2>3. damages' \in 0..MaxDamages
      BY <1>5, MaxDamagesAssumption DEF Damage, IInv, TypeOK
    <2>4. wire' \in Wires /\ wire'.checksum \in {Garbled, wire.checksum}
      <3>1. CASE \E i \in 1..Len(wire.tail) : wire' = [wire EXCEPT !.tail[i] = 1 - @]
        <4>1. PICK i \in 1..Len(wire.tail) : wire' = [wire EXCEPT !.tail[i] = 1 - @]
          BY <3>1
        <4>2. wire.tail \in Seq(Bit) /\ 1 - wire.tail[i] \in Bit
          <5>1. wire.tail \in Seq(Bit)
            BY <2>1 DEF Wires
          <5>2. wire.tail[i] \in Bit
            BY <5>1, ElementOfSeq
          <5>3. QED
            BY <5>1, <5>2 DEF Bit
        <4>3. [wire.tail EXCEPT ![i] = 1 - wire.tail[i]] \in Seq(Bit)
          BY <4>2, ExceptSeq
        <4>4. wire' = [wire EXCEPT !.tail = [wire.tail EXCEPT ![i] = 1 - wire.tail[i]]]
          BY <4>1, <2>1 DEF Wires
        <4>5. QED
          BY <2>1, <4>3, <4>4 DEF Wires
      <3>2. CASE \E h \in Heads \ {wire.head} : wire' = [wire EXCEPT !.head = h]
        BY <2>1, <3>2 DEF Wires
      <3>3. CASE wire' = [wire EXCEPT !.checksum = Garbled]
        BY <1>a, <2>1, <3>3 DEF Wires
      <3>4. CASE \E t \in MessageTypes \ {wire.type} : wire' = [wire EXCEPT !.type = t]
        BY <2>1, <3>4 DEF Wires
      <3>5. QED
        BY <2>2, <3>1, <3>2, <3>3, <3>4 DEF Damaged
    <2>5. wire' # None
      BY <2>4, NoneAssumption
    <2>6. TypeOK'
      BY <2>1, <2>2, <2>3, <2>4, <2>5 DEF IInv, TypeOK
    <2>7. ASSUME sent.by = "crate"
          PROVE  FromCrate'
      <3>1. sent.bits \in Bytes /\ wire.checksum \in {Garbled, Crc(sent.head, Flushed(sent.bits))}
        BY <2>1, <2>7 DEF IInv, FromCrate
      <3>2. QED
        BY <3>1, <2>2, <2>4 DEF FromCrate
    <2>8. ASSUME sent.by = "game"
          PROVE  FromGame'
      <3>1. FromGame
        BY <2>1, <2>8 DEF IInv
      <3>2. QED
        BY <3>1, <2>2, <2>4 DEF FromGame
    <2>9. QED
      BY <2>2, <2>6, <2>7, <2>8 DEF IInv
  <1>6. ASSUME FromReader
        PROVE  IInv'
    <2>1. wire \in Wires /\ frame \in Frames \cup {None}
      BY <1>6 DEF FromReader, IInv, TypeOK
    <2>2. ASSUME Parses(wire.tail)
          PROVE  ReadFrame(wire) \in Frames
      <3>1. ReadPayload(wire.tail) \in Bytes
        BY <2>1, <2>2, ReadIsWhole DEF Wires
      <3>2. wire.type \in MessageTypes /\ wire.checksum \in Checksums /\ wire.head \in Heads
        BY <2>1 DEF Wires
      <3>3. QED
        BY <3>1, <3>2 DEF ReadFrame, Frames
    <2>3. frame' \in Frames \cup {None} /\ wire' = None /\ sent' = None /\ intact' = TRUE
            /\ damages' = damages
      BY <1>6, <2>1, <2>2 DEF FromReader
    <2>4. TypeOK'
      BY <2>3 DEF IInv, TypeOK
    <2>5. QED
      BY <2>3, <2>4 DEF IInv
  <1>7. ASSUME UNCHANGED vars
        PROVE  IInv'
    BY <1>7 DEF vars, IInv, TypeOK, FromCrate, FromGame
  <1>8. QED
    BY <1>1, <1>2, <1>3, <1>4, <1>5, <1>6, <1>7 DEF Next

(* Every frame, held or under way, keeps its shape (packet.rs 45-71).      *)
THEOREM SpecTypeOK == Spec => []TypeOK
  <1>1. IInv => TypeOK
    BY DEF IInv
  <1>2. QED
    BY <1>1, InitIInv, NextIInv, PTL DEF Spec

(* A frame of this crate validates at a peer that runs it, and arrives as  *)
(* it was sent, whatever its payload and its history.                      *)
THEOREM OwnValidates == Spec => []OwnFrameValidates
  <1>1. IInv => OwnFrameValidates
    <2> SUFFICES ASSUME IInv, wire # None, intact, sent.by = "crate"
                 PROVE  /\ Parses(wire.tail)
                        /\ ValidateChecksum(ReadFrame(wire))
                        /\ ReadFrame(wire).head = sent.head
                        /\ ReadFrame(wire).payload = sent.bits
      BY DEF OwnFrameValidates
    <2>1. /\ sent.bits \in Bytes /\ wire.head = sent.head /\ wire.tail = WriteTail(sent.bits)
          /\ wire.checksum = Crc(sent.head, Flushed(sent.bits))
      BY DEF IInv, FromCrate
    <2>2. sent.bits \in Seq(Bit) /\ Len(sent.bits) % 8 = 0
      BY <2>1 DEF Bytes
    <2>3. Framed(WriteTail(sent.bits), sent.bits) /\ Len(sent.bits) + 16 <= Len(WriteTail(sent.bits))
      BY <2>2, WrittenTail
    <2>4. Parses(wire.tail) /\ ReadPayload(wire.tail) = BitsToBytes(sent.bits)
      BY <2>1, <2>3, ReadOfFramed
    <2>5. BitsToBytes(sent.bits) = sent.bits
      BY <2>2, WholeBytesStay
    <2>6. ReadFrame(wire) = [type |-> wire.type, checksum |-> Crc(sent.head, Flushed(sent.bits)),
                             head |-> sent.head, payload |-> sent.bits]
      BY <2>1, <2>4, <2>5 DEF ReadFrame
    <2>7. QED
      BY <2>4, <2>6 DEF ValidateChecksum, ComputeChecksum
  <1>2. QED
    BY <1>1, InitIInv, NextIInv, PTL DEF Spec

(* No damage that validates changes what a tamper-resistant frame says, for *)
(* any number of flipped bits.                                              *)
THEOREM ValidatedSent == Spec => []ValidatedIsSent
  <1>1. IInv => ValidatedIsSent
    <2> SUFFICES ASSUME IInv, wire # None, Parses(wire.tail), wire.type = "TamperResistant",
                        ValidateChecksum(ReadFrame(wire))
                 PROVE  /\ ReadFrame(wire).head = sent.head
                        /\ ReadFrame(wire).payload = BitsToBytes(sent.bits)
      BY DEF ValidatedIsSent
    <2> DEFINE p == ReadPayload(wire.tail)
    <2>1. wire \in Wires /\ sent \in Sendings
      BY DEF IInv, TypeOK
    <2>2. p \in Bytes
      BY <2>1, ReadIsWhole DEF Wires
    <2>3. ReadFrame(wire) = [type |-> wire.type, checksum |-> wire.checksum,
                             head |-> wire.head, payload |-> p]
      BY DEF ReadFrame
    <2> HIDE DEF p
    <2>4. wire.checksum = Crc(wire.head, Flushed(p))
      BY <2>3 DEF ValidateChecksum, ComputeChecksum
    <2>5. wire.checksum \in [head : Heads, bits : Seq(Bit)]
      BY <2>1, <2>2, <2>4, FlushedBits DEF Crc, Wires
    <2>6. wire.checksum \notin {Garbled, AllOnes}
      BY <2>5, SentinelsAssumption
    <2>7. CASE sent.by = "crate"
      <3>1. sent.bits \in Bytes /\ wire.checksum = Crc(sent.head, Flushed(sent.bits))
        BY <2>6, <2>7 DEF IInv, FromCrate
      <3>2. wire.head = sent.head /\ Flushed(p) = Flushed(sent.bits)
        BY <2>4, <3>1 DEF Crc
      <3>3. p = sent.bits
        BY <2>2, <3>1, <3>2, FlushedInjective
      <3>4. BitsToBytes(sent.bits) = sent.bits
        BY <3>1, WholeBytesStay DEF Bytes
      <3>5. QED
        BY <2>3, <3>2, <3>3, <3>4
    <2>8. CASE sent.by = "game"
      <3>1. PICK junk \in Seq(Bit) :
               Len(junk) <= 7 /\ wire.checksum = Crc(sent.head, sent.bits \o Terminator \o junk)
        BY <2>6, <2>8 DEF IInv, FromGame
      <3>2. sent.bits \o Terminator \o junk = Flushed(p)
        BY <2>4, <3>1 DEF Crc
      <3>3. sent.bits \in Seq(Bit)
        BY <2>1 DEF Sendings
      <3>4. QED
        BY <2>2, <3>1, <3>2, <3>3, GameChecksumIsOther
    <2>9. QED
      BY <2>1, <2>7, <2>8 DEF Sendings
  <1>2. QED
    BY <1>1, InitIInv, NextIInv, PTL DEF Spec

(* The finding of the run frame_genuine for every payload and junk: no      *)
(* tamper-resistant frame of the game validates, because its checksum is    *)
(* over bits that this crate does not cover (packet.rs 109-122).            *)
THEOREM GenuineNeverValidates ==
    Spec => [](wire # None /\ sent.by = "game" /\ wire.type = "TamperResistant"
                  /\ Parses(wire.tail) => ~ValidateChecksum(ReadFrame(wire)))
  <1>1. IInv => (wire # None /\ sent.by = "game" /\ wire.type = "TamperResistant"
                    /\ Parses(wire.tail) => ~ValidateChecksum(ReadFrame(wire)))
    <2> SUFFICES ASSUME IInv, wire # None, sent.by = "game", wire.type = "TamperResistant",
                        Parses(wire.tail), ValidateChecksum(ReadFrame(wire))
                 PROVE  FALSE
      OBVIOUS
    <2> DEFINE p == ReadPayload(wire.tail)
    <2>1. wire \in Wires /\ sent \in Sendings
      BY DEF IInv, TypeOK
    <2>2. p \in Bytes
      BY <2>1, ReadIsWhole DEF Wires
    <2>3. ReadFrame(wire) = [type |-> wire.type, checksum |-> wire.checksum,
                             head |-> wire.head, payload |-> p]
      BY DEF ReadFrame
    <2> HIDE DEF p
    <2>4. wire.checksum = Crc(wire.head, Flushed(p))
      BY <2>3 DEF ValidateChecksum, ComputeChecksum
    <2>5. wire.checksum \in [head : Heads, bits : Seq(Bit)]
      BY <2>1, <2>2, <2>4, FlushedBits DEF Crc, Wires
    <2>6. wire.checksum \notin {Garbled, AllOnes}
      BY <2>5, SentinelsAssumption
    <2>7. PICK junk \in Seq(Bit) :
             Len(junk) <= 7 /\ wire.checksum = Crc(sent.head, sent.bits \o Terminator \o junk)
      BY <2>6 DEF IInv, FromGame
    <2>8. sent.bits \o Terminator \o junk = Flushed(p)
      BY <2>4, <2>7 DEF Crc
    <2>9. sent.bits \in Seq(Bit)
      BY <2>1 DEF Sendings
    <2>10. QED
      BY <2>2, <2>7, <2>8, <2>9, GameChecksumIsOther
  <1>2. QED
    BY <1>1, InitIInv, NextIInv, PTL DEF Spec
=============================================================================
