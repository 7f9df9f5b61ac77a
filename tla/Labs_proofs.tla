------------------------------ MODULE Labs_proofs ------------------------------
(***************************************************************************)
(* Two of the labs, for every value of their constants.  perform_des of    *)
(* CNS/des.cpp undoes itself with the keys taken backwards, whatever the   *)
(* text, the key and the S-boxes: only the two permutations have to be     *)
(* inverse (IPInverse).  And PeersAgree holds for every set of lines and   *)
(* requests and for every alphabet: the streams of the chat and the        *)
(* calculator are prefixes of what was written, the memory holds what the  *)
(* producer has written so far, and the pipes hold the line at one place.  *)
(***************************************************************************)
EXTENDS DES, Peers, SequenceTheorems, TLAPS

-----------------------------------------------------------------------------
(* DES.                                                                    *)

\* What decryption finds after n rounds, the halves swapped, is what
\* encryption left after 16 - n rounds.
Chain(n) == \A i \in 0 .. 15 : i < n =>
                trail[i + 1] = <<trail[i][2],
                                 Combine(trail[i][1], F(trail[i][2], RoundKeys[i + 1]))>>

TypeInv ==
    /\ text \in Block
    /\ round_num \in 0 .. 16
    /\ mode \in {"encrypt", "decrypt", "done"}
    /\ lpt \in Half /\ rpt \in Half
    /\ trail \in [0 .. 16 -> Half \X Half]

Retraced ==
    /\ trail[0] = <<FirstHalf(ip_on_binary_rep(text)), SecondHalf(ip_on_binary_rep(text))>>
    /\ mode = "encrypt" => Chain(round_num) /\ trail[round_num] = <<lpt, rpt>>
    /\ mode = "decrypt" => Chain(16) /\ trail[16 - round_num] = <<rpt, lpt>>
    /\ mode = "done" => output = text

-----------------------------------------------------------------------------
(* The lemmas are about single bits and halves.                            *)

\* Adding a string of bits twice changes nothing, as long as they are bits.
LEMMA CombineTwice ==
    ASSUME NEW a \in Half, NEW f
    PROVE  Combine(a, f) \in Half
  BY DEF Half, Bit, Combine, Xor

\* F yields bits.
LEMMA FBits ==
    ASSUME NEW h, NEW k
    PROVE  \A i \in 1 .. 32 : F(h, k)[i] \in Bit
  <1> DEFINE x == [i \in 1 .. 48 |-> Xor(h[e_box_table[i]], k[i])]
             Value(b) == LET g == 6 * (b - 1) IN
                    s_boxes[b][2 * x[g + 1] + x[g + 6] + 1]
                              [8 * x[g + 2] + 4 * x[g + 3] + 2 * x[g + 4] + x[g + 5] + 1]
             values == [b \in 1 .. 8 |-> Value(b)]
  <1>1. F(h, k) = [i \in 1 .. 32 |-> LET j == p_box_table[i] - 1 IN
                                     BitOf(values[j \div 4 + 1], (j % 4) + 1, 4)]
    BY DEF F
  <1> HIDE DEF values
  <1>2. \A n, j, w : BitOf(n, j, w) \in Bit
    BY DEF BitOf, Bit
  <1>3. ASSUME NEW i \in 1 .. 32
        PROVE  F(h, k)[i] = BitOf(values[(p_box_table[i] - 1) \div 4 + 1],
                                  ((p_box_table[i] - 1) % 4) + 1, 4)
    BY <1>1
  <1>4. ASSUME NEW i \in 1 .. 32 PROVE F(h, k)[i] \in Bit
    <2>1. BitOf(values[(p_box_table[i] - 1) \div 4 + 1],
                ((p_box_table[i] - 1) % 4) + 1, 4) \in Bit
      BY <1>2, Zenon
    <2> QED BY <2>1, <1>3, Zenon
  <1> QED BY <1>4, Zenon

\* So a half to which F was added twice is the half again.
LEMMA Undone ==
    ASSUME NEW a \in Half, NEW h, NEW k
    PROVE  Combine(Combine(a, F(h, k)), F(h, k)) = a
  <1> DEFINE f == F(h, k)
  <1>1. \A i \in 1 .. 32 : f[i] \in Bit
    BY FBits
  <1> HIDE DEF f
  <1>2. \A i \in 1 .. 32 : Xor(Xor(a[i], f[i]), f[i]) = a[i]
    BY <1>1 DEF Half, Bit, Xor
  <1>3. Combine(Combine(a, f), f) = [i \in 1 .. 32 |-> Xor(Xor(a[i], f[i]), f[i])]
    BY DEF Combine
  <1>4. Combine(Combine(a, f), f) = [i \in 1 .. 32 |-> a[i]]
    BY <1>2, <1>3
  <1>5. a = [i \in 1 .. 32 |-> a[i]]
    BY DEF Half
  <1> QED BY <1>4, <1>5 DEF f

\* The halves of a block are halves, and joined they make a block.
LEMMA Halves ==
    ASSUME NEW s \in Block
    PROVE  FirstHalf(s) \in Half /\ SecondHalf(s) \in Half
  BY DEF FirstHalf, SecondHalf, Block, Half

\* The initial permutation undoes the final one, the halves swapped.
LEMMA IPofFinal ==
    ASSUME NEW l \in Half, NEW r \in Half
    PROVE  /\ FirstHalf(ip_on_binary_rep(FinalCipher(l, r))) = r
           /\ SecondHalf(ip_on_binary_rep(FinalCipher(l, r))) = l
  <1> DEFINE J == Join(r, l)
             P == ip_on_binary_rep(FinalCipher(l, r))
  <1>1. \A i \in 1 .. 64 : P[i] = J[ip_inverse_table[ip_table[i]]]
    BY IPInverse DEF ip_on_binary_rep, FinalCipher
  <1>2. \A i \in 1 .. 64 : P[i] = J[i]
    BY <1>1, IPInverse
  <1> HIDE DEF P
  <1>3. \A i \in 1 .. 32 : P[i] = r[i] /\ P[i + 32] = l[i]
    BY <1>2 DEF Join
  <1>4. FirstHalf(P) = [i \in 1 .. 32 |-> r[i]] /\ SecondHalf(P) = [i \in 1 .. 32 |-> l[i]]
    BY <1>3 DEF FirstHalf, SecondHalf
  <1>5. r = [i \in 1 .. 32 |-> r[i]] /\ l = [i \in 1 .. 32 |-> l[i]]
    BY DEF Half
  <1> QED BY <1>4, <1>5 DEF P

\* The final permutation undoes the initial one.
LEMMA FinalOfIP ==
    ASSUME NEW s \in Block
    PROVE  FinalCipher(SecondHalf(ip_on_binary_rep(s)), FirstHalf(ip_on_binary_rep(s))) = s
  <1> DEFINE p == ip_on_binary_rep(s)
             J == Join(FirstHalf(p), SecondHalf(p))
  <1>1. \A i \in 1 .. 64 : J[i] = p[i]
    BY DEF Join, FirstHalf, SecondHalf
  <1>2. \A i \in 1 .. 64 : p[ip_inverse_table[i]] = s[i]
    BY IPInverse DEF ip_on_binary_rep
  <1>3. FinalCipher(SecondHalf(p), FirstHalf(p)) = [i \in 1 .. 64 |-> J[ip_inverse_table[i]]]
    BY DEF FinalCipher
  <1> HIDE DEF J, p
  <1>4. \A i \in 1 .. 64 : J[ip_inverse_table[i]] = s[i]
    BY <1>1, <1>2, IPInverse
  <1>5. s = [i \in 1 .. 64 |-> s[i]]
    BY DEF Block
  <1> QED BY <1>3, <1>4, <1>5 DEF p

-----------------------------------------------------------------------------
\* The texts are blocks.
LEMMA TextType == ASSUME NEW t PROVE str2bin(t) \in Block
  <1>1. \A n, j, w : BitOf(n, j, w) \in Bit
    BY DEF BitOf, Bit
  <1>2. \A i \in 1 .. 64 : str2bin(t)[i] \in Bit
    <2> TAKE i \in 1 .. 64
    <2>1. str2bin(t)[i] = LET c == (i - 1) \div 8 + 1 IN
                          IF c <= Len(t) THEN BitOf(t[c], ((i - 1) % 8) + 1, 8) ELSE 0
      BY DEF str2bin
    <2> QED BY <1>1, <2>1, Zenon DEF Bit
  <1> QED BY <1>2 DEF Block, str2bin

-----------------------------------------------------------------------------
\* Type correctness of the block cipher's state: the halves and the trail
\* are strings of 32 bits (perform_des).
THEOREM Typed == DESSpec => []TypeInv
  <1>1. DESInit => TypeInv
    <2> SUFFICES ASSUME DESInit PROVE TypeInv
      OBVIOUS
    <2>1. text \in Block
      BY TextType DEF DESInit
    <2>2. ip_on_binary_rep(text) \in Block
      BY <2>1, IPInverse DEF Block, ip_on_binary_rep
    <2>3. lpt \in Half /\ rpt \in Half
      BY <2>2, Halves DEF DESInit
    <2> QED BY <2>1, <2>3 DEF DESInit, TypeInv
  <1>2. TypeInv /\ [DESNext]_<<lab, todo, desVars>> => TypeInv'
    <2> SUFFICES ASSUME TypeInv, [DESNext]_<<lab, todo, desVars>> PROVE TypeInv'
      OBVIOUS
    <2>1. CASE Round
      <3>1. rpt' \in Half
        BY <2>1, CombineTwice DEF TypeInv, Round
      <3> QED BY <2>1, <3>1 DEF TypeInv, Round
    <2>2. CASE Encrypted
      <3> DEFINE c == FinalCipher(lpt, rpt)
                 p == ip_on_binary_rep(c)
      <3>1. FirstHalf(p) = rpt /\ SecondHalf(p) = lpt
        BY IPofFinal DEF TypeInv
      <3>2. lpt' = rpt /\ rpt' = lpt
        BY <2>2, <3>1 DEF Encrypted
      <3> QED BY <2>2, <3>2 DEF TypeInv, Encrypted
    <2>3. CASE Decrypted
      BY <2>3 DEF TypeInv, Decrypted
    <2>4. CASE UNCHANGED <<lab, todo, desVars>>
      BY <2>4 DEF TypeInv, desVars
    <2> QED BY <2>1, <2>2, <2>3, <2>4 DEF DESNext
  <1> QED BY <1>1, <1>2, PTL DEF DESSpec

\* The rounds of the decryption retrace those of the encryption, so that it
\* returns the text (perform_des, encryption, decryption), for every text,
\* every list of round keys and every content of the S-boxes.
THEOREM Decrypts == DESSpec => []DecryptsWhatItEncrypts
  <1>1. DESInit /\ TypeInv => Retraced
    BY DEF DESInit, TypeInv, Retraced, Chain
  <1>2. TypeInv /\ TypeInv' /\ Retraced /\ [DESNext]_<<lab, todo, desVars>> => Retraced'
    <2> SUFFICES ASSUME TypeInv, TypeInv', Retraced, [DESNext]_<<lab, todo, desVars>> PROVE Retraced'
      OBVIOUS
    <2>1. CASE Round /\ mode = "encrypt"
      <3>1. RoundKey(mode, round_num) = RoundKeys[round_num + 1]
        BY <2>1 DEF RoundKey
      <3> DEFINE f == F(rpt, RoundKeys[round_num + 1])
      <3> HIDE DEF f
      <3>a. lpt' = rpt /\ rpt' = Combine(lpt, f)
        BY <2>1, <3>1 DEF Round, f
      <3>b. trail' = [trail EXCEPT ![round_num + 1] = <<lpt', rpt'>>]
        BY <2>1 DEF Round
      <3>c. /\ round_num \in 0 .. 15 /\ round_num' = round_num + 1
            /\ mode' = "encrypt" /\ text' = text
        BY <2>1 DEF Round, TypeInv
      <3>2. /\ round_num \in 0 .. 15 /\ round_num' = round_num + 1
            /\ lpt' = rpt /\ rpt' = Combine(lpt, f)
            /\ trail' = [trail EXCEPT ![round_num + 1] = <<rpt, Combine(lpt, f)>>]
            /\ mode' = "encrypt" /\ text' = text
        BY <3>a, <3>b, <3>c
      <3>3. trail[round_num] = <<lpt, rpt>>
        BY <2>1 DEF Retraced
      <3>4. /\ trail'[round_num + 1] = <<rpt, Combine(lpt, f)>>
            /\ \A i \in 0 .. round_num : trail'[i] = trail[i]
        BY <3>2 DEF TypeInv
      <3>5. trail'[round_num + 1] = <<trail'[round_num][2],
                Combine(trail'[round_num][1], F(trail'[round_num][2], RoundKeys[round_num + 1]))>>
        BY <3>2, <3>3, <3>4 DEF f
      <3>6. Chain(round_num)
        BY <2>1 DEF Retraced
      <3>7. ASSUME NEW i \in 0 .. 15, i < round_num + 1
            PROVE  trail'[i + 1] = <<trail'[i][2],
                       Combine(trail'[i][1], F(trail'[i][2], RoundKeys[i + 1]))>>
        <4>1. CASE i = round_num
          BY <4>1, <3>5
        <4>2. CASE i < round_num
          <5>1. trail'[i] = trail[i] /\ trail'[i + 1] = trail[i + 1]
            BY <4>2, <3>2, <3>4
          <5> QED BY <5>1, <4>2, <3>6 DEF Chain
        <4> QED BY <4>1, <4>2, <3>2, <3>7
      <3>8. trail'[0] = trail[0]
        BY <3>2, <3>4
      <3>9. Chain(round_num)'
        BY <3>2, <3>7 DEF Chain
      <3>10. trail'[round_num'] = <<lpt', rpt'>>
        BY <3>2, <3>4
      <3> QED BY <3>2, <3>8, <3>9, <3>10 DEF Retraced
    <2>2. CASE Round /\ mode = "decrypt"
      <3> DEFINE n == 15 - round_num
                 f == F(rpt, RoundKeys[n + 1])
      <3>1. round_num \in 0 .. 15 /\ n \in 0 .. 15 /\ n + 1 = 16 - round_num
        BY <2>2 DEF Round, TypeInv
      <3>2. RoundKey(mode, round_num) = RoundKeys[n + 1]
        BY <2>2, <3>1 DEF RoundKey
      <3>3. /\ round_num' = round_num + 1 /\ lpt' = rpt /\ rpt' = Combine(lpt, f)
            /\ trail' = trail /\ mode' = "decrypt" /\ text' = text
        BY <2>2, <3>2 DEF Round
      <3>4. trail[n + 1] = <<rpt, lpt>>
        BY <2>2, <3>1 DEF Retraced
      <3>5. trail[n + 1] = <<trail[n][2], Combine(trail[n][1], F(trail[n][2], RoundKeys[n + 1]))>>
        BY <2>2, <3>1 DEF Retraced, Chain
      <3>6. rpt = trail[n][2] /\ lpt = Combine(trail[n][1], f)
        BY <3>4, <3>5
      <3>7. trail[n] \in Half \X Half
        BY <3>1 DEF TypeInv
      <3>8. trail[n][1] \in Half
        BY <3>7
      <3>9. rpt' = trail[n][1]
        BY <3>3, <3>6, <3>8, Undone
      <3>10. trail[n] = <<rpt', lpt'>>
        BY <3>3, <3>6, <3>7, <3>9
      <3>11. 16 - round_num' = n
        BY <3>1, <3>3
      <3> QED BY <2>2, <3>3, <3>10, <3>11 DEF Retraced, Chain
    <2>3. CASE Encrypted
      <3> DEFINE c == FinalCipher(lpt, rpt)
                 p == ip_on_binary_rep(c)
      <3>1. FirstHalf(p) = rpt /\ SecondHalf(p) = lpt
        BY IPofFinal DEF TypeInv
      <3>2. /\ lpt' = rpt /\ rpt' = lpt /\ round_num = 16 /\ round_num' = 0
            /\ mode = "encrypt" /\ mode' = "decrypt" /\ trail' = trail /\ text' = text
        BY <2>3, <3>1 DEF Encrypted
      <3> QED BY <3>2 DEF Retraced, Chain
    <2>4. CASE Decrypted
      <3>1. /\ mode' = "done" /\ trail' = trail /\ text' = text
            /\ output' = FinalCipher(lpt, rpt) /\ trail[0] = <<rpt, lpt>>
        BY <2>4 DEF Decrypted, Retraced
      <3>2. /\ rpt = FirstHalf(ip_on_binary_rep(text))
            /\ lpt = SecondHalf(ip_on_binary_rep(text))
        BY <3>1 DEF Retraced
      <3>3. output' = text
        BY <3>1, <3>2, FinalOfIP DEF TypeInv
      <3> QED BY <3>1, <3>3 DEF Retraced
    <2>5. CASE UNCHANGED <<lab, todo, desVars>>
      BY <2>5 DEF Retraced, Chain, desVars
    <2> QED BY <2>1, <2>2, <2>3, <2>4, <2>5 DEF DESNext, Round
  <1>3. Retraced => DecryptsWhatItEncrypts
    BY DEF Retraced, DecryptsWhatItEncrypts
  <1> QED BY <1>1, <1>2, <1>3, Typed, PTL DEF DESSpec

-----------------------------------------------------------------------------
(* Programs that talk to each other.                                       *)

\* What may be in a stream: parts of lines, requests, and answers.
Answered(request, answer) == \E r \in calcRes(request) : r # <<>> /\ answer = ToString(r[1])
Thing == STRING \cup {"Format"} \cup Requests \cup {ToString(r[1]) : r \in UNION {calcRes(q) : q \in Requests}}

\* A connection loses nothing, whatever a read returns of it.
LEMMA SplitOff ==
  ASSUME NEW S, NEW w \in Seq(S), NEW n \in DOMAIN w
  PROVE  /\ SubSeq(w, 1, n) \in Seq(S) /\ Len(SubSeq(w, 1, n)) = n
         /\ SubSeq(w, n + 1, Len(w)) \in Seq(S)
         /\ SubSeq(w, 1, n) \o SubSeq(w, n + 1, Len(w)) = w
<1>1. Len(w) \in Nat /\ n \in 1 .. Len(w) /\ DOMAIN w = 1 .. Len(w) /\ \A i \in 1 .. Len(w) : w[i] \in S
  OBVIOUS
<1>2. SubSeq(w, 1, n) \in Seq(S) /\ Len(SubSeq(w, 1, n)) = n
  <2>1. \A i \in 1 .. n : w[i] \in S
    BY <1>1
  <2> QED
    BY <1>1, <2>1, SubSeqProperties
<1>3. SubSeq(w, n + 1, Len(w)) \in Seq(S)
  <2>1. \A i \in n + 1 .. Len(w) : w[i] \in S
    BY <1>1
  <2> QED
    BY <1>1, <2>1, SubSeqProperties
<1>4. SubSeq(w, 1, n) \o SubSeq(w, n + 1, Len(w)) = SubSeq(w, 1, Len(w))
  <2>1. 1 \in 1 .. Len(w) + 1 /\ n \in 1 - 1 .. Len(w) /\ Len(w) \in n .. Len(w)
    BY <1>1
  <2> QED
    BY <2>1, ConcatAdjacentSubSeq
<1> QED
  BY <1>2, <1>3, <1>4, SubSeqFull

LEMMA Concats ==
  \A s, t, u \in Seq(Thing) : s \o t \in Seq(Thing) /\ (s \o t) \o u = s \o (t \o u)
<1> SUFFICES ASSUME NEW s \in Seq(Thing), NEW t \in Seq(Thing), NEW u \in Seq(Thing)
             PROVE  s \o t \in Seq(Thing) /\ (s \o t) \o u = s \o (t \o u)
  OBVIOUS
<1>1. s \o t \in Seq(Thing)
  BY ConcatProperties
<1>2. (s \o t) \o u = s \o (t \o u)
  BY ConcatAssociative
<1> QED
  BY <1>1, <1>2

\* One thing more.
LEMMA OneMore ==
  ASSUME NEW s \in Seq(Thing), NEW t \in Seq(Thing), Len(t) = 1
  PROVE  /\ Len(s \o t) = Len(s) + 1 /\ (s \o t)[Len(s) + 1] = t[1]
         /\ \A k \in 1 .. Len(s) : (s \o t)[k] = s[k]
<1>1. PICK n \in Nat : n = Len(s)
  OBVIOUS
<1> DEFINE b == s \o t
<1>2. Len(b) = n + 1 /\ \A k \in 1 .. n + 1 : b[k] = IF k <= n THEN s[k] ELSE t[k - n]
  <2>1. /\ Len(b) = Len(s) + Len(t)
        /\ \A k \in 1 .. Len(s) + Len(t) : b[k] = IF k <= Len(s) THEN s[k] ELSE t[k - Len(s)]
    BY ConcatProperties, Zenon
  <2> QED
    BY <1>1, <2>1, Zenon
<1> HIDE DEF b
<1>3. /\ n + 1 \in 1 .. n + 1 /\ ~(n + 1 <= n) /\ n + 1 - n = 1
      /\ \A k \in 1 .. n : k \in 1 .. n + 1 /\ k <= n
  OBVIOUS
<1>4. b[n + 1] = t[1] /\ \A k \in 1 .. n : b[k] = s[k]
  BY <1>2, <1>3
<1> QED
  BY <1>1, <1>2, <1>4 DEF b

LEMMA OtherType == \A i \in 1 .. 2 : Other(i) \in 1 .. 2 /\ Other(i) # i /\ Other(Other(i)) = i
BY DEF Other

\* What one has read and what is on the way is what the other has written.
Streams ==
    /\ wire \in [1 .. 2 -> Seq(Thing)] /\ said \in [1 .. 2 -> Seq(Thing)]
    /\ heard \in [1 .. 2 -> Seq(Thing)]
    /\ \A i \in 1 .. 2 : heard[i] \o wire[i] = said[Other(i)]

LEMMA ReceivedKept ==
  ASSUME Streams, NEW i \in 1 .. 2, NEW n \in DOMAIN wire[i], Received(i, n), said' = said
  PROVE  /\ Streams'
         /\ heard' = [heard EXCEPT ![i] = @ \o SubSeq(wire[i], 1, n)]
         /\ wire' = [wire EXCEPT ![i] = SubSeq(@, n + 1, Len(@))]
         /\ SubSeq(wire[i], 1, n) \in Seq(Thing) /\ Len(SubSeq(wire[i], 1, n)) = n
<1> DEFINE a == SubSeq(wire[i], 1, n)
           b == SubSeq(wire[i], n + 1, Len(wire[i]))
<1>1. wire[i] \in Seq(Thing) /\ heard[i] \in Seq(Thing)
  BY DEF Streams
<1>2. a \in Seq(Thing) /\ b \in Seq(Thing) /\ a \o b = wire[i] /\ Len(a) = n
  BY <1>1, SplitOff
<1>3. heard' = [heard EXCEPT ![i] = @ \o a] /\ wire' = [wire EXCEPT ![i] = b]
  BY DEF Received, Streams
<1>4. /\ heard' = [heard EXCEPT ![i] = @ \o SubSeq(wire[i], 1, n)]
      /\ wire' = [wire EXCEPT ![i] = SubSeq(@, n + 1, Len(@))]
  BY DEF Received
<1> HIDE DEF a, b
<1>5. (heard[i] \o a) \o b = heard[i] \o (a \o b) /\ heard[i] \o a \in Seq(Thing)
  BY <1>1, <1>2, Concats
<1>6. \A j \in 1 .. 2 : heard'[j] \o wire'[j] = said'[Other(j)]
  BY <1>2, <1>3, <1>5 DEF Streams
<1>7. /\ wire' \in [1 .. 2 -> Seq(Thing)] /\ said' \in [1 .. 2 -> Seq(Thing)]
      /\ heard' \in [1 .. 2 -> Seq(Thing)]
  BY <1>2, <1>3, <1>5 DEF Streams
<1>8. Streams'
  BY <1>6, <1>7 DEF Streams
<1> QED
  BY <1>2, <1>4, <1>8 DEF a

LEMMA SentKept ==
  ASSUME Streams, NEW i \in 1 .. 2, NEW line \in Seq(Thing), Sent(i, line), heard' = heard
  PROVE  /\ Streams'
         /\ wire' = [wire EXCEPT ![Other(i)] = @ \o line]
         /\ said' = [said EXCEPT ![i] = @ \o line]
         /\ line # <<>> => wire'[Other(i)] # <<>>
<1> DEFINE o == Other(i)
<1>1. wire' = [wire EXCEPT ![o] = @ \o line] /\ said' = [said EXCEPT ![i] = @ \o line]
  BY DEF Sent
<1>2. o \in 1 .. 2 /\ o # i /\ Other(o) = i /\ \A j \in 1 .. 2 : j # o => j = i /\ Other(j) = o
  BY OtherType DEF Other
<1>3. heard[o] \in Seq(Thing) /\ wire[o] \in Seq(Thing) /\ said[i] \in Seq(Thing)
  BY <1>2 DEF Streams
<1>4. heard[o] \o (wire[o] \o line) = (heard[o] \o wire[o]) \o line
  <2>1. \A x, y, z \in Seq(Thing) : x \o (y \o z) = (x \o y) \o z
    BY Concats
  <2> HIDE DEF o
  <2> QED
    BY <1>3, <2>1
<1>5. wire[o] \o line \in Seq(Thing) /\ said[i] \o line \in Seq(Thing)
  <2> HIDE DEF o
  <2>1. wire[o] \o line \in Seq(Thing)
    BY <1>3, ConcatProperties
  <2>2. said[i] \o line \in Seq(Thing)
    BY <1>3, ConcatProperties
  <2> QED
    BY <2>1, <2>2
<1>6. line # <<>> => wire[o] \o line # <<>>
  BY <1>3, ConcatEqualIffEmpty
<1>7. /\ wire' \in [1 .. 2 -> Seq(Thing)] /\ said' \in [1 .. 2 -> Seq(Thing)]
      /\ heard' \in [1 .. 2 -> Seq(Thing)]
  BY <1>1, <1>2, <1>5 DEF Streams
<1>8. heard[o] \o wire[o] = said[i] /\ heard[i] \o wire[i] = said[o]
  BY <1>2 DEF Streams
<1>9. /\ wire'[o] = wire[o] \o line /\ said'[i] = said[i] \o line
      /\ wire'[i] = wire[i] /\ said'[o] = said[o]
  BY <1>1, <1>2 DEF Streams
<1> HIDE DEF o
<1>10. heard'[o] \o wire'[o] = said'[i] /\ heard'[i] \o wire'[i] = said'[o]
  BY <1>4, <1>8, <1>9
<1>11. \A j \in 1 .. 2 : heard'[j] \o wire'[j] = said'[Other(j)]
  BY <1>2, <1>10
<1>12. Streams'
  BY <1>7, <1>11 DEF Streams
<1> QED
  BY <1>1, <1>6, <1>9, <1>12 DEF o

-----------------------------------------------------------------------------
(* The chat.                                                               *)

\* Who waits for a line, calmly, is answered.
ServerInv ==
    /\ step \in [1 .. 2 -> {"read", "type", "ended"}]
    /\ Streams
    /\ calm /\ step[1] = "read" /\ step[2] = "read" => wire[1] # <<>> \/ wire[2] # <<>>

LEMMA ServerNext ==
  lab = "server" /\ ServerInv /\ PeersNext => ServerInv'
<1> SUFFICES ASSUME lab = "server", ServerInv, PeersNext
             PROVE  ServerInv'
  OBVIOUS
<1>1. step \in [1 .. 2 -> {"read", "type", "ended"}] /\ Streams
  BY DEF ServerInv
<1>2. ASSUME NEW i \in 1 .. 2, Hear(i)
      PROVE  ServerInv'
  <2>1. PICK n \in DOMAIN wire[i] :
            /\ Received(i, n)
            /\ \E to \in {"type", "ended"} : step' = [step EXCEPT ![i] = to]
    BY <1>2 DEF Hear, Go
  <2>2. UNCHANGED <<said, calm>>
    BY <1>2 DEF Hear
  <2>3. Streams'
    BY <1>1, <2>1, <2>2, ReceivedKept
  <2>4. step' \in [1 .. 2 -> {"read", "type", "ended"}] /\ step'[i] # "read"
    BY <1>1, <2>1
  <2>5. ~(step'[1] = "read" /\ step'[2] = "read")
    BY <2>4
  <2> QED
    BY <2>3, <2>4, <2>5 DEF ServerInv
<1>3. ASSUME NEW i \in 1 .. 2, HearNothing(i)
      PROVE  ServerInv'
  <2>1. /\ UNCHANGED <<wire, said, heard, calm>> /\ step[i] = "read"
        /\ \E to \in {"type", "ended"} : step' = [step EXCEPT ![i] = to]
    BY <1>3 DEF HearNothing, Go
  <2>2. step' \in [1 .. 2 -> {"read", "type", "ended"}] /\ step'[i] # "read"
    BY <1>1, <2>1
  <2>3. ~(step'[1] = "read" /\ step'[2] = "read")
    BY <2>2
  <2> QED
    BY <1>1, <2>1, <2>2, <2>3 DEF ServerInv, Streams
<1>4. ASSUME NEW i \in 1 .. 2, Type(i)
      PROVE  ServerInv'
  <2>1. PICK line \in Lines \cup {<<>>} :
            /\ Sent(i, line) /\ calm' = (calm /\ line # <<>>)
            /\ \E to \in {"read", "ended"} : step' = [step EXCEPT ![i] = to]
    BY <1>4 DEF Type, Go
  <2>2. line \in Seq(Thing) /\ heard' = heard
    <3>1. line \in Seq(STRING)
      BY LinesAssumption, EmptySeq
    <3>2. STRING \subseteq Thing
      BY DEF Thing
    <3> QED
      BY <1>4, <3>1, <3>2, SeqMonotonic DEF Type
  <2>3. Streams' /\ (line # <<>> => wire'[Other(i)] # <<>>)
    BY <1>1, <2>1, <2>2, SentKept
  <2>4. calm' => wire'[1] # <<>> \/ wire'[2] # <<>>
    <3>1. Other(i) = 1 \/ Other(i) = 2
      BY OtherType
    <3> QED
      BY <2>1, <2>3, <3>1
  <2>5. step' \in [1 .. 2 -> {"read", "type", "ended"}]
    BY <1>1, <2>1
  <2> QED
    BY <2>3, <2>4, <2>5 DEF ServerInv
<1>5. ASSUME NEW i \in 1 .. 2, TypeLost(i)
      PROVE  ServerInv'
  <2>1. /\ UNCHANGED <<wire, said, heard, calm>> /\ step[Other(i)] = "ended"
        /\ \E to \in {"read", "ended"} : step' = [step EXCEPT ![i] = to]
    BY <1>5 DEF TypeLost, Go
  <2>2. step' \in [1 .. 2 -> {"read", "type", "ended"}] /\ step'[Other(i)] = "ended"
    BY <1>1, <2>1, OtherType
  <2>3. ~(step'[1] = "read" /\ step'[2] = "read")
    BY <2>2, OtherType
  <2> QED
    BY <1>1, <2>1, <2>2, <2>3 DEF ServerInv, Streams
<1> QED
  BY <1>2, <1>3, <1>4, <1>5 DEF PeersNext, Serve, Answer, Produce, Poll, ProduceAgain, Attach,
     ReadMemory, MarkRead, ParentWrites, ChildReads, ChildWrites, ParentReads

-----------------------------------------------------------------------------
(* The calculator.                                                         *)

\* The server has answered every request that it read, in turn, or has the
\* answer to the last one in its buffer; the first answer is the format.
CalcInv ==
    /\ step \in [1 .. 2 -> {"read", "write", "type", "ended"}]
    /\ step[1] # "type" /\ (step[2] = "ended" => step[1] = "ended")
    /\ Streams /\ wire[1] \in Seq(Requests) /\ memory \in Thing
    /\ \A k \in 2 .. Len(said[1]) : Answered(said[2][k - 1], said[1][k])
    /\ Len(said[1]) <= Len(heard[1]) + (IF step[1] = "write" THEN 0 ELSE 1)
    /\ step[1] = "read" => Len(said[1]) = Len(heard[1]) + 1
    /\ step[1] = "write" => /\ Len(said[1]) = Len(heard[1])
                            /\ heard[1] # <<>> => Answered(heard[1][Len(heard[1])], memory)

LEMMA Prefix ==
  ASSUME Streams, NEW i \in 1 .. 2
  PROVE  /\ Len(heard[i]) \in Nat /\ Len(said[Other(i)]) \in Nat
         /\ Len(heard[i]) <= Len(said[Other(i)])
         /\ \A k \in 1 .. Len(heard[i]) : said[Other(i)][k] = heard[i][k]
<1>1. heard[i] \in Seq(Thing) /\ wire[i] \in Seq(Thing) /\ said[Other(i)] = heard[i] \o wire[i]
  BY DEF Streams
<1>2. PICK m, n \in Nat : m = Len(heard[i]) /\ n = Len(wire[i])
  BY <1>1
<1>3. /\ Len(heard[i] \o wire[i]) = m + n
      /\ \A k \in 1 .. m + n : (heard[i] \o wire[i])[k] = IF k <= m THEN heard[i][k] ELSE wire[i][k - m]
  BY <1>1, <1>2, ConcatProperties
<1> DEFINE h == heard[i]
           w == said[Other(i)]
<1>4. Len(h) = m /\ Len(w) = m + n /\ m <= m + n
  <2>1. w = heard[i] \o wire[i]
    BY <1>1
  <2> HIDE DEF w
  <2>2. Len(w) = m + n
    BY <1>3, <2>1
  <2>3. m <= m + n
    OBVIOUS
  <2>4. Len(h) = m
    BY <1>2
  <2> HIDE DEF h
  <2> QED
    BY <2>2, <2>3, <2>4
<1>5. \A k \in 1 .. m : w[k] = h[k]
  <2>1. \A k \in 1 .. m : k \in 1 .. m + n /\ k <= m
    OBVIOUS
  <2> QED
    BY <1>1, <1>3, <2>1
<1> HIDE DEF h, w
<1>6. Len(h) \in Nat /\ Len(w) \in Nat /\ Len(h) <= Len(w) /\ \A k \in 1 .. Len(h) : w[k] = h[k]
  BY <1>4, <1>5
<1> QED
  BY <1>6 DEF h, w

LEMMA CalcNext ==
  lab = "calcServer" /\ CalcInv /\ PeersNext => CalcInv'
<1> SUFFICES ASSUME lab = "calcServer", CalcInv, PeersNext
             PROVE  CalcInv'
  OBVIOUS
<1>1. /\ step \in [1 .. 2 -> {"read", "write", "type", "ended"}]
      /\ step[1] # "type" /\ (step[2] = "ended" => step[1] = "ended")
      /\ Streams /\ wire[1] \in Seq(Requests) /\ memory \in Thing
      /\ said[1] \in Seq(Thing) /\ said[2] \in Seq(Thing) /\ heard[1] \in Seq(Thing)
  BY DEF CalcInv, Streams
<1>2. /\ \A k \in 2 .. Len(said[1]) : Answered(said[2][k - 1], said[1][k])
      /\ Len(said[1]) <= Len(heard[1]) + (IF step[1] = "write" THEN 0 ELSE 1)
      /\ step[1] = "read" => Len(said[1]) = Len(heard[1]) + 1
      /\ step[1] = "write" => /\ Len(said[1]) = Len(heard[1])
                              /\ heard[1] # <<>> => Answered(heard[1][Len(heard[1])], memory)
  BY DEF CalcInv
<1>3. /\ Len(heard[1]) \in Nat /\ Len(said[2]) \in Nat /\ Len(said[1]) \in Nat
      /\ Len(heard[1]) <= Len(said[2])
      /\ \A k \in 1 .. Len(heard[1]) : said[2][k] = heard[1][k]
  <2>1. Other(1) = 2
    BY DEF Other
  <2> QED
    BY <1>1, <2>1, Prefix
<1> DEFINE W == [1 .. 2 -> Seq(Thing)]
<1>0. wire \in W /\ said \in W /\ heard \in W
  BY <1>1 DEF Streams
\* What does not concern the server.
<1>4. ASSUME step'[1] = step[1], step' \in [1 .. 2 -> {"read", "write", "type", "ended"}],
             step'[2] = "ended" => step[1] = "ended",
             Streams', wire'[1] = wire[1], said' = said, heard'[1] = heard[1], memory' = memory
      PROVE  CalcInv'
  BY <1>1, <1>2, <1>4 DEF CalcInv
<1>5. ASSUME NEW i \in 1 .. 2, Hear(i)
      PROVE  CalcInv'
  <2>1. PICK n \in DOMAIN wire[i] :
            i = 2 /\ Received(i, n) /\ step' = [step EXCEPT ![2] = "type"]
    BY <1>5 DEF Hear, Go
  <2>2. UNCHANGED <<said, memory>>
    BY <1>5 DEF Hear
  <2>3. /\ Streams' /\ heard' = [heard EXCEPT ![i] = @ \o SubSeq(wire[i], 1, n)]
        /\ wire' = [wire EXCEPT ![i] = SubSeq(@, n + 1, Len(@))]
    BY <1>1, <2>1, <2>2, ReceivedKept
  <2>4. heard'[1] = heard[1] /\ wire'[1] = wire[1]
    BY <1>1, <2>1, <2>3 DEF Streams
  <2>5. step' \in [1 .. 2 -> {"read", "write", "type", "ended"}] /\ step'[1] = step[1] /\ step'[2] = "type"
    BY <1>1, <2>1
  <2> QED
    BY <1>4, <2>2, <2>3, <2>4, <2>5
<1>6. ASSUME NEW i \in 1 .. 2, HearNothing(i)
      PROVE  CalcInv'
  <2>1. /\ UNCHANGED <<wire, said, heard, memory>> /\ step[i] = "read" /\ step[Other(i)] = "ended"
        /\ \E to \in {"type", "ended"} : step' = [step EXCEPT ![i] = to]
    BY <1>6 DEF HearNothing, Go
  <2>2. i = 2 /\ step[1] = "ended"
    BY <1>1, <2>1 DEF Other
  <2>3. step' \in [1 .. 2 -> {"read", "write", "type", "ended"}] /\ step'[1] = step[1]
    BY <1>1, <2>1, <2>2
  <2>4. Streams'
    BY <1>1, <2>1 DEF Streams
  <2> QED
    BY <1>4, <2>1, <2>2, <2>3, <2>4
<1>7. ASSUME NEW i \in 1 .. 2, TypeLost(i)
      PROVE  CalcInv'
  <2>1. /\ UNCHANGED <<wire, said, heard, memory>> /\ step[i] = "type" /\ step[Other(i)] = "ended"
        /\ \E to \in {"read", "ended"} : step' = [step EXCEPT ![i] = to]
    BY <1>7 DEF TypeLost, Go
  <2>2. i = 2 /\ step[1] = "ended"
    BY <1>1, <2>1 DEF Other
  <2>3. step' \in [1 .. 2 -> {"read", "write", "type", "ended"}] /\ step'[1] = step[1]
    BY <1>1, <2>1, <2>2
  <2>4. Streams'
    BY <1>1, <2>1 DEF Streams
  <2> QED
    BY <1>4, <2>1, <2>2, <2>3, <2>4
<1>8. ASSUME NEW i \in 1 .. 2, Type(i)
      PROVE  CalcInv'
  <2>1. i = 2
    BY <1>1, <1>8 DEF Type
  <2>2. PICK q \in Requests : Sent(i, <<q>>) /\ step' = [step EXCEPT ![2] = "read"]
    BY <1>8, <2>1 DEF Type, Go
  <2>3. UNCHANGED <<heard, memory>>
    BY <1>8 DEF Type
  <2>4. Other(2) = 1 /\ <<q>> \in Seq(Thing) /\ <<q>> \in Seq(Requests)
    BY DEF Other, Thing
  <2>5. /\ Streams' /\ wire' = [wire EXCEPT ![Other(i)] = @ \o <<q>>]
        /\ said' = [said EXCEPT ![i] = @ \o <<q>>]
    BY <1>1, <2>2, <2>3, <2>4, SentKept
  <2>6. wire'[1] = wire[1] \o <<q>> /\ said'[1] = said[1] /\ said'[2] = said[2] \o <<q>>
    <3>1. 1 \in 1 .. 2 /\ 2 \in 1 .. 2 /\ 1 # 2
      OBVIOUS
    <3>2. wire' = [wire EXCEPT ![1] = wire[1] \o <<q>>] /\ said' = [said EXCEPT ![2] = said[2] \o <<q>>]
      BY <2>1, <2>4, <2>5, Zenon
    <3> QED
      BY <1>0, <3>1, <3>2
  <2>7. wire'[1] \in Seq(Requests)
    BY <1>1, <2>4, <2>6, ConcatProperties
  <2>8. \A k \in 1 .. Len(said[2]) : said'[2][k] = said[2][k]
    BY <1>1, <2>4, <2>6, ConcatProperties
  <2>9. \A k \in 2 .. Len(said[1]) : k - 1 \in 1 .. Len(said[2])
    <3>1. PICK a, b, c \in Nat : a = Len(said[1]) /\ b = Len(heard[1]) /\ c = Len(said[2])
      BY <1>3
    <3>2. a <= b + 1 /\ b <= c
      <4>1. b <= c
        BY <1>3, <3>1
      <4>2. CASE step[1] = "write"
        <5>1. Len(said[1]) <= Len(heard[1]) + 0
          BY <1>2, <4>2
        <5>2. a <= b + 0
          BY <3>1, <5>1, Zenon
        <5> QED
          BY <3>1, <4>1, <5>2
      <4>3. CASE step[1] # "write"
        <5>1. Len(said[1]) <= Len(heard[1]) + 1
          BY <1>2, <4>3
        <5>2. a <= b + 1
          BY <3>1, <5>1, Zenon
        <5> QED
          BY <4>1, <5>2
      <4> QED
        BY <4>1, <4>2, <4>3
    <3>3. \A k \in 2 .. a : k - 1 \in 1 .. c
      BY <3>2
    <3> QED
      BY <3>1, <3>3
  <2>10. \A k \in 2 .. Len(said'[1]) : Answered(said'[2][k - 1], said'[1][k])
    BY <1>2, <2>6, <2>8, <2>9
  <2>11. step' \in [1 .. 2 -> {"read", "write", "type", "ended"}] /\ step'[1] = step[1] /\ step'[2] = "read"
    BY <1>1, <2>2
  <2> QED
    BY <1>1, <1>2, <2>3, <2>5, <2>6, <2>7, <2>10, <2>11 DEF CalcInv, Answered
<1>9. CASE Serve
  <2> DEFINE q == wire[1][1]
  <2>1. /\ step[1] = "read" /\ wire[1] # <<>> /\ Received(1, 1) /\ UNCHANGED said
        /\ \E r \in calcRes(q) :
               IF r = <<>> THEN Go(1, "ended") /\ memory' = memory
               ELSE Go(1, "write") /\ memory' = ToString(r[1])
    BY <1>9 DEF Serve
  <2>2. 1 \in DOMAIN wire[1] /\ q \in Requests
    BY <1>1, <2>1
  <2> HIDE DEF q
  <2> DEFINE a == SubSeq(wire[1], 1, 1)
  <2>3. /\ Streams' /\ heard' = [heard EXCEPT ![1] = @ \o a]
        /\ wire' = [wire EXCEPT ![1] = SubSeq(@, 1 + 1, Len(@))]
        /\ a \in Seq(Thing) /\ Len(a) = 1
    <3>1. PICK i \in 1 .. 2 : i = 1
      OBVIOUS
    <3>2. PICK n \in DOMAIN wire[i] : n = 1
      BY <2>2, <3>1
    <3>3. Received(i, n)
      BY <2>1, <3>1, <3>2
    <3>4. /\ Streams' /\ heard' = [heard EXCEPT ![i] = @ \o SubSeq(wire[i], 1, n)]
          /\ wire' = [wire EXCEPT ![i] = SubSeq(@, n + 1, Len(@))]
          /\ SubSeq(wire[i], 1, n) \in Seq(Thing) /\ Len(SubSeq(wire[i], 1, n)) = n
      BY <1>1, <2>1, <3>3, ReceivedKept
    <3> QED
      BY <3>1, <3>2, <3>4
  <2>4. a[1] = q
    BY <1>1, <2>2 DEF q
  <2>5. wire'[1] \in Seq(Requests)
    BY <1>1, <2>2, <2>3, SplitOff DEF Streams
  <2> HIDE DEF a
  <2>6. heard'[1] = heard[1] \o a
    BY <1>1, <2>3 DEF Streams
  <2>7. PICK n \in Nat : n = Len(heard[1])
    BY <1>3
  <2>8. Len(heard'[1]) = n + 1 /\ heard'[1][n + 1] = q
    <3>1. /\ Len(heard[1] \o a) = Len(heard[1]) + 1
          /\ (heard[1] \o a)[Len(heard[1]) + 1] = a[1]
      BY <1>1, <2>3, OneMore
    <3> QED
      BY <2>4, <2>6, <2>7, <3>1, Zenon
  <2>9. \/ step' = [step EXCEPT ![1] = "ended"] /\ memory' = memory
        \/ step' = [step EXCEPT ![1] = "write"] /\ Answered(q, memory') /\ memory' \in Thing
    BY <2>1, <2>2 DEF Go, Answered, Thing
  <2>10. /\ step' \in [1 .. 2 -> {"read", "write", "type", "ended"}] /\ memory' \in Thing
         /\ step'[2] # "ended"
         /\ \/ step'[1] = "ended"
            \/ step'[1] = "write" /\ Answered(q, memory')
    BY <1>1, <2>1, <2>9
  <2>11. Len(said'[1]) = n + 1 /\ \A k \in 2 .. Len(said'[1]) : Answered(said'[2][k - 1], said'[1][k])
    BY <1>2, <2>1, <2>7
  <2>12. /\ Len(said'[1]) <= Len(heard'[1]) + (IF step'[1] = "write" THEN 0 ELSE 1)
         /\ step'[1] = "read" => Len(said'[1]) = Len(heard'[1]) + 1
         /\ step'[1] = "write" => /\ Len(said'[1]) = Len(heard'[1])
                                  /\ Answered(heard'[1][Len(heard'[1])], memory')
    BY <2>8, <2>10, <2>11
  <2> QED
    BY <2>3, <2>5, <2>10, <2>11, <2>12 DEF CalcInv, Answered
<1>10. CASE Answer
  <2>1. /\ step[1] = "write" /\ Sent(1, <<memory>>) /\ step' = [step EXCEPT ![1] = "read"]
        /\ UNCHANGED <<heard, memory>>
    BY <1>10 DEF Answer, Go
  <2>2. Other(1) = 2 /\ <<memory>> \in Seq(Thing)
    BY <1>1 DEF Other
  <2>3. /\ Streams' /\ wire' = [wire EXCEPT ![2] = @ \o <<memory>>]
        /\ said' = [said EXCEPT ![1] = @ \o <<memory>>]
    <3>1. PICK i \in 1 .. 2 : i = 1
      OBVIOUS
    <3>2. PICK line \in Seq(Thing) : line = <<memory>>
      BY <2>2
    <3>3. Sent(i, line)
      BY <2>1, <3>1, <3>2
    <3>4. /\ Streams' /\ wire' = [wire EXCEPT ![Other(i)] = @ \o line]
          /\ said' = [said EXCEPT ![i] = @ \o line]
      BY <1>1, <2>1, <3>3, SentKept
    <3> QED
      BY <2>2, <3>1, <3>2, <3>4
  <2>4. wire'[1] = wire[1] /\ said'[2] = said[2] /\ said'[1] = said[1] \o <<memory>>
    <3>1. 1 \in 1 .. 2 /\ 2 \in 1 .. 2 /\ 1 # 2
      OBVIOUS
    <3> QED
      BY <1>0, <2>3, <3>1
  <2>5. PICK n \in Nat : n = Len(heard[1]) /\ n = Len(said[1])
    BY <1>2, <1>3, <2>1
  <2>6. /\ Len(said'[1]) = n + 1 /\ said'[1][n + 1] = memory
        /\ \A k \in 1 .. n : said'[1][k] = said[1][k]
    <3> DEFINE a == <<memory>>
    <3>1. a \in Seq(Thing) /\ Len(a) = 1 /\ a[1] = memory
      BY <2>2
    <3> HIDE DEF a
    <3>2. /\ Len(said[1] \o a) = Len(said[1]) + 1
          /\ (said[1] \o a)[Len(said[1]) + 1] = a[1]
          /\ \A k \in 1 .. Len(said[1]) : (said[1] \o a)[k] = said[1][k]
      BY <1>1, <3>1, OneMore
    <3>3. said'[1] = said[1] \o a
      BY <2>4 DEF a
    <3> QED
      BY <2>5, <3>1, <3>2, <3>3, Zenon
  <2>7. ASSUME NEW k \in 2 .. n + 1
        PROVE  Answered(said[2][k - 1], said'[1][k])
    <3>1. CASE k \in 2 .. n
      BY <1>2, <2>5, <2>6, <3>1
    <3>2. CASE k = n + 1
      <4>1. n \in 1 .. n /\ k - 1 = n
        BY <3>2
      <4>2. heard[1] # <<>>
        <5>1. Len(heard[1]) # 0 /\ Len(<<>>) = 0
          BY <2>5, <4>1
        <5> QED
          BY <5>1
      <4>3. Answered(heard[1][n], memory)
        BY <1>2, <2>1, <2>5, <4>2
      <4>4. said[2][n] = heard[1][n]
        BY <1>3, <2>5, <4>1
      <4> QED
        BY <2>6, <3>2, <4>1, <4>3, <4>4
    <3> QED
      BY <3>1, <3>2
  <2>8. step' \in [1 .. 2 -> {"read", "write", "type", "ended"}] /\ step'[1] = "read" /\ step'[2] # "ended"
    BY <1>1, <2>1
  <2>9. \A k \in 2 .. Len(said'[1]) : Answered(said'[2][k - 1], said'[1][k])
    BY <2>4, <2>6, <2>7
  <2>10. Len(said'[1]) = Len(heard'[1]) + 1 /\ Len(said'[1]) <= Len(heard'[1]) + 1
    BY <2>1, <2>5, <2>6
  <2> QED
    BY <1>1, <2>1, <2>3, <2>4, <2>8, <2>9, <2>10 DEF CalcInv, Answered
<1> QED
  BY <1>5, <1>6, <1>7, <1>8, <1>9, <1>10 DEF PeersNext, Produce, Poll, ProduceAgain, Attach,
     ReadMemory, MarkRead, ParentWrites, ChildReads, ChildWrites, ParentReads
-----------------------------------------------------------------------------
(* Shared memory.                                                          *)

L == Len(Alphabet)
Chars == STRING \cup {"0", "*"}
Steps == {"write", "poll", "wait", "read", "mark", "ended"}
Full(n) == IF n <= L THEN Alphabet[n] ELSE "0"

\* What the producer has written is there except for the first letter, which
\* a consumer may have crossed out; and while a consumer reads that came when
\* the producer waited, nobody changes anything.
ShmInv ==
    /\ step \in [1 .. 2 -> Steps]
    /\ step[1] \in {"write", "poll", "ended"} /\ step[2] \in {"read", "mark", "ended"}
    /\ said \in [1 .. 2 -> Seq(Chars)] /\ heard \in [1 .. 2 -> Seq(Chars)]
    /\ memory \in [1 .. L + 1 -> Chars] /\ memory[L + 1] = "0"
    /\ Len(said[1]) <= L /\ Len(heard[2]) <= L
    /\ \A n \in 2 .. L + 1 : step[1] # "write" \/ n <= Len(said[1]) => memory[n] = Full(n)
    /\ step[1] # "write" \/ said[1] # <<>> => memory[1] \in {Alphabet[1], "*"}
    /\ calm /\ step[2] # "ended" =>
           /\ step[1] = "poll" /\ memory[1] # "*"
           /\ \A k \in 1 .. Len(heard[2]) : heard[2][k] = Alphabet[k]
           /\ step[2] = "mark" => Len(heard[2]) = L

LEMMA AlphabetType ==
  /\ L \in Nat \ {0} /\ Alphabet \in Seq(Chars)
  /\ \A n \in 1 .. L : Alphabet[n] \in Chars /\ Alphabet[n] # "0"
<1>1. Alphabet \in Seq(STRING \ {"0"}) /\ Alphabet # <<>>
  BY AlphabetAssumption
<1>2. L \in Nat \ {0}
  BY <1>1, EmptySeq DEF L
<1>3. \A n \in 1 .. L : Alphabet[n] \in STRING \ {"0"}
  BY <1>1 DEF L
<1>4. STRING \ {"0"} \subseteq Chars
  BY DEF Chars
<1> QED
  BY <1>1, <1>2, <1>3, <1>4, SeqMonotonic

LEMMA ShmNext ==
  lab = "shmProducer" /\ ShmInv /\ PeersNext => ShmInv'
<1> SUFFICES ASSUME lab = "shmProducer", ShmInv, PeersNext
             PROVE  ShmInv'
  OBVIOUS
<1>1. /\ step \in [1 .. 2 -> Steps]
      /\ step[1] \in {"write", "poll", "ended"} /\ step[2] \in {"read", "mark", "ended"}
      /\ said \in [1 .. 2 -> Seq(Chars)] /\ heard \in [1 .. 2 -> Seq(Chars)]
      /\ memory \in [1 .. L + 1 -> Chars] /\ memory[L + 1] = "0"
      /\ Len(said[1]) <= L /\ Len(heard[2]) <= L
  BY DEF ShmInv
<1>2. \A n \in 2 .. L + 1 : step[1] # "write" \/ n <= Len(said[1]) => memory[n] = Full(n)
  BY DEF ShmInv
<1>3. step[1] # "write" \/ said[1] # <<>> => memory[1] \in {Alphabet[1], "*"}
  BY DEF ShmInv
<1>4. calm /\ step[2] # "ended" =>
          /\ step[1] = "poll" /\ memory[1] # "*"
          /\ \A k \in 1 .. Len(heard[2]) : heard[2][k] = Alphabet[k]
          /\ step[2] = "mark" => Len(heard[2]) = L
  BY DEF ShmInv
<1>5. L \in Nat \ {0} /\ said[1] \in Seq(Chars) /\ heard[2] \in Seq(Chars)
      /\ Len(said[1]) \in Nat /\ Len(heard[2]) \in Nat
  BY <1>1, AlphabetType
<1>0. step \in [1 .. 2 -> Steps] /\ 1 \in 1 .. 2 /\ 2 \in 1 .. 2 /\ 1 # 2
  BY <1>1
<1>00. said \in [1 .. 2 -> Seq(Chars)] /\ heard \in [1 .. 2 -> Seq(Chars)]
  BY <1>1
<1>000. memory \in [1 .. L + 1 -> Chars]
  BY <1>1
<1>6. CASE Produce
  <2>1. PICK n \in Nat : n = Len(said[1]) /\ n <= L
    BY <1>1, <1>5
  <2>2. /\ step[1] = "write" /\ memory' = [memory EXCEPT ![n + 1] = Full(n + 1)]
        /\ said' = [said EXCEPT ![1] = IF n + 1 <= L THEN Append(@, Full(n + 1)) ELSE @]
        /\ step' = [step EXCEPT ![1] = IF n + 1 <= L THEN "write" ELSE "poll"]
        /\ UNCHANGED <<heard, calm>>
    BY <1>6, <2>1 DEF Produce, Go, Full, L
  <2>3. Full(n + 1) \in Chars
    <3>1. CASE n + 1 <= L
      <4>1. n + 1 \in 1 .. L
        BY <2>1, <3>1
      <4> QED
        BY <3>1, <4>1, AlphabetType DEF Full
    <3>2. CASE ~(n + 1 <= L)
      BY <3>2 DEF Full, Chars
    <3> QED
      BY <3>1, <3>2
  <2>4. /\ step' \in [1 .. 2 -> Steps] /\ step'[2] = step[2]
        /\ step'[1] = IF n + 1 <= L THEN "write" ELSE "poll"
    BY <1>0, <2>2 DEF Steps
  <2>5. /\ said'[1] = IF n + 1 <= L THEN Append(said[1], Full(n + 1)) ELSE said[1]
        /\ said' \in [1 .. 2 -> Seq(Chars)]
    <3>1. Append(said[1], Full(n + 1)) \in Seq(Chars)
      BY <1>5, <2>3, AppendProperties
    <3> QED
      BY <1>0, <1>00, <2>2, <3>1
  <2>6. Len(said'[1]) = IF n + 1 <= L THEN n + 1 ELSE n
    BY <1>5, <2>1, <2>3, <2>5, AppendProperties
  <2>7. /\ memory' \in [1 .. L + 1 -> Chars] /\ memory'[n + 1] = Full(n + 1)
        /\ \A k \in 1 .. L + 1 : k # n + 1 => memory'[k] = memory[k]
    BY <1>1, <1>5, <2>1, <2>2, <2>3
  <2>8. memory'[L + 1] = "0"
    BY <1>1, <1>5, <2>1, <2>7 DEF Full
  <2>9. ASSUME NEW k \in 2 .. L + 1, step'[1] # "write" \/ k <= Len(said'[1])
        PROVE  memory'[k] = Full(k)
    <3>1. CASE k = n + 1
      BY <2>7, <3>1
    <3>2. CASE k # n + 1
      <4>1. k <= n
        BY <1>5, <2>1, <2>4, <2>6, <2>9, <3>2
      <4> QED
        BY <1>2, <1>5, <2>1, <2>7, <3>2, <4>1
    <3> QED
      BY <3>1, <3>2
  <2>10. memory'[1] \in {Alphabet[1], "*"}
    <3>1. CASE n = 0
      BY <1>5, <2>7, <3>1 DEF Full
    <3>2. CASE n # 0
      <4>1. said[1] # <<>>
        BY <2>1, <3>2, EmptySeq
      <4> QED
        BY <1>3, <1>5, <2>1, <2>7, <3>2, <4>1
    <3> QED
      BY <3>1, <3>2
  <2>11. ~(calm /\ step[2] # "ended")
    BY <1>4, <2>2
  <2>12. Len(said'[1]) <= L
    BY <1>5, <2>1, <2>6
  <2> QED
    BY <1>1, <2>2, <2>4, <2>5, <2>7, <2>8, <2>9, <2>10, <2>11, <2>12 DEF ShmInv, Full
<1>7. CASE Poll
  <2>1. /\ step[1] = "poll" /\ memory[1] = "*" /\ step' = [step EXCEPT ![1] = "ended"]
        /\ UNCHANGED <<said, heard, memory, calm>>
    BY <1>7 DEF Poll, Go
  <2>2. step' \in [1 .. 2 -> Steps] /\ step'[1] = "ended" /\ step'[2] = step[2]
    BY <1>0, <2>1 DEF Steps
  <2>3. ~(calm /\ step[2] # "ended")
    BY <1>4, <2>1
  <2> QED
    BY <1>1, <1>2, <1>3, <2>1, <2>2, <2>3 DEF ShmInv, Full
<1>8. CASE ProduceAgain
  <2>1. /\ step[1] = "ended" /\ step' = [step EXCEPT ![1] = "write"]
        /\ said' = [said EXCEPT ![1] = <<>>] /\ UNCHANGED <<heard, memory, calm>>
    BY <1>8 DEF ProduceAgain, Go
  <2>2. step' \in [1 .. 2 -> Steps] /\ step'[1] = "write" /\ step'[2] = step[2]
    BY <1>0, <2>1 DEF Steps
  <2>3. said' \in [1 .. 2 -> Seq(Chars)] /\ said'[1] = <<>> /\ Len(said'[1]) = 0
    BY <1>1, <2>1, EmptySeq
  <2>4. ~(calm /\ step[2] # "ended")
    BY <1>4, <2>1
  <2>5. \A n \in 2 .. L + 1 : ~(n <= 0)
    OBVIOUS
  <2> QED
    BY <1>1, <1>5, <2>1, <2>2, <2>3, <2>4, <2>5 DEF ShmInv, Full
<1>9. CASE Attach
  <2>1. /\ step[2] = "ended" /\ step' = [step EXCEPT ![2] = "read"]
        /\ calm' = (step[1] = "poll" /\ memory[1] # "*")
        /\ heard' = [heard EXCEPT ![2] = <<>>] /\ UNCHANGED <<said, memory>>
    BY <1>9 DEF Attach, Go
  <2>2. step' \in [1 .. 2 -> Steps] /\ step'[2] = "read" /\ step'[1] = step[1]
    BY <1>0, <2>1 DEF Steps
  <2>3. heard' \in [1 .. 2 -> Seq(Chars)] /\ heard'[2] = <<>> /\ Len(heard'[2]) = 0
    BY <1>1, <2>1, EmptySeq
  <2>4. \A k \in 1 .. 0 : heard'[2][k] = Alphabet[k]
    OBVIOUS
  <2>5. 0 <= L
    BY <1>5
  <2> QED
    BY <1>1, <1>2, <1>3, <2>1, <2>2, <2>3, <2>4, <2>5 DEF ShmInv, Full
<1>10. CASE ReadMemory
  <2>1. PICK n \in Nat : n = Len(heard[2]) /\ n <= L
    BY <1>1, <1>5
  <2>2. /\ step[2] = "read" /\ UNCHANGED <<said, memory, calm>>
        /\ \/ memory[n + 1] = "0" /\ step' = [step EXCEPT ![2] = "mark"] /\ heard' = heard
           \/ /\ memory[n + 1] # "0" /\ step' = step
              /\ heard' = [heard EXCEPT ![2] = Append(@, memory[n + 1])]
    BY <1>10, <2>1 DEF ReadMemory, Go
  <2>3. memory[n + 1] \in Chars
    BY <1>1, <1>5, <2>1
  <2>4. calm => memory[n + 1] = Full(n + 1)
    <3>1. CASE n = 0
      BY <1>3, <1>4, <1>5, <2>2, <3>1 DEF Full
    <3>2. CASE n # 0
      <4>1. n + 1 \in 2 .. L + 1
        BY <1>5, <2>1, <3>2
      <4> QED
        BY <1>2, <1>4, <2>2, <4>1
    <3> QED
      BY <3>1, <3>2
  <2>5. CASE memory[n + 1] = "0"
    <3>1. step' \in [1 .. 2 -> Steps] /\ step'[2] = "mark" /\ step'[1] = step[1] /\ heard' = heard
      BY <1>0, <2>2, <2>5 DEF Steps
    <3>2. calm => n = L
      BY <1>5, <2>1, <2>4, <2>5, AlphabetType DEF Full
    <3> QED
      BY <1>1, <1>2, <1>3, <1>4, <2>1, <2>2, <3>1, <3>2 DEF ShmInv, Full
  <2>6. CASE memory[n + 1] # "0"
    <3> DEFINE h == Append(heard[2], memory[n + 1])
    <3>1. heard' \in [1 .. 2 -> Seq(Chars)] /\ heard'[2] = h /\ step' = step
      <4>1. h \in Seq(Chars)
        BY <1>5, <2>3, AppendProperties
      <4> QED
        BY <1>0, <1>00, <2>2, <2>6, <4>1
    <3>2. n + 1 <= L
      BY <1>1, <1>5, <2>1, <2>6
    <3>3. /\ Len(h) = n + 1 /\ h[n + 1] = memory[n + 1]
          /\ \A k \in 1 .. n : h[k] = heard[2][k]
      BY <1>5, <2>1, <2>3, AppendProperties
    <3> HIDE DEF h
    <3>4. ASSUME calm, NEW k \in 1 .. n + 1
          PROVE  h[k] = Alphabet[k]
      <4>1. CASE k = n + 1
        BY <2>4, <3>2, <3>3, <3>4, <4>1 DEF Full
      <4>2. CASE k \in 1 .. n
        BY <1>4, <2>1, <2>2, <3>3, <3>4, <4>2
      <4> QED
        BY <4>1, <4>2
    <3>5. Len(heard'[2]) = n + 1 /\ (calm => \A k \in 1 .. n + 1 : heard'[2][k] = Alphabet[k])
      BY <3>1, <3>3, <3>4
    <3> QED
      BY <1>1, <1>2, <1>3, <1>4, <2>2, <3>1, <3>2, <3>5 DEF ShmInv, Full
  <2> QED
    BY <2>5, <2>6
<1>11. CASE MarkRead
  <2>1. /\ step[2] = "mark" /\ step' = [step EXCEPT ![2] = "ended"]
        /\ memory' = [memory EXCEPT ![1] = "*"] /\ UNCHANGED <<said, heard, calm>>
    BY <1>11 DEF MarkRead, Go
  <2>2. step' \in [1 .. 2 -> Steps] /\ step'[2] = "ended" /\ step'[1] = step[1]
    BY <1>0, <2>1 DEF Steps
  <2>3. /\ memory' \in [1 .. L + 1 -> Chars] /\ memory'[1] = "*"
        /\ \A n \in 2 .. L + 1 : memory'[n] = memory[n]
    <3>1. 1 \in 1 .. L + 1 /\ \A n \in 2 .. L + 1 : n \in 1 .. L + 1 /\ n # 1
      BY <1>5
    <3> QED
      BY <1>000, <2>1, <3>1 DEF Chars
  <2>4. memory'[L + 1] = "0"
    BY <1>1, <1>5, <2>3
  <2> QED
    BY <1>1, <1>2, <2>1, <2>2, <2>3, <2>4 DEF ShmInv, Full
<1> QED
  BY <1>6, <1>7, <1>8, <1>9, <1>10, <1>11 DEF PeersNext, Connected, Hear, HearNothing, Type,
     TypeLost, Serve, Answer, ParentWrites, ChildReads, ChildWrites, ParentReads

-----------------------------------------------------------------------------
(* The pipes.                                                              *)

Words == STRING \cup {"THIS", "IS", "PIPED"}

\* The line goes through the child and comes back longer.
PipesInv ==
    /\ step \in [1 .. 2 -> Steps]
    /\ wire \in [1 .. 2 -> Seq(Words)] /\ said \in [1 .. 2 -> Seq(Words)]
    /\ heard \in [1 .. 2 -> Seq(Words)]
    /\ \/ /\ step[1] = "write" /\ step[2] = "read"
          /\ wire[1] = <<>> /\ wire[2] = <<>> /\ said[1] = <<>> /\ said[2] = <<>>
          /\ heard[1] = <<>> /\ heard[2] = <<>>
       \/ /\ step[1] = "wait" /\ step[2] = "read"
          /\ wire[1] = <<>> /\ heard[1] = <<>> /\ heard[2] = <<>> /\ wire[2] = said[1]
       \/ /\ step[1] = "wait" /\ step[2] = "write"
          /\ wire[1] = <<>> /\ heard[1] = <<>> /\ heard[2] = said[1]
       \/ /\ step[1] = "wait" /\ step[2] = "ended"
          /\ heard[1] = <<>> /\ wire[1] = said[1] \o FixedStr
       \/ /\ step[1] = "ended" /\ step[2] = "ended"
          /\ heard[1] = said[1] \o FixedStr

LEMMA Whole ==
  \A w \in Seq(Words) : /\ <<>> \o w = w /\ SubSeq(w, 1, Len(w)) = w
                         /\ w # <<>> => SubSeq(w, Len(w) + 1, Len(w)) = <<>>
<1> SUFFICES ASSUME NEW w \in Seq(Words)
             PROVE  /\ <<>> \o w = w /\ SubSeq(w, 1, Len(w)) = w
                    /\ w # <<>> => SubSeq(w, Len(w) + 1, Len(w)) = <<>>
  OBVIOUS
<1>1. <<>> \o w = w
  BY ConcatEmptySeq
<1>2. SubSeq(w, 1, Len(w)) = w
  BY SubSeqFull
<1>3. SubSeq(w, Len(w) + 1, Len(w)) = <<>>
  BY SubSeqEmpty
<1> QED
  BY <1>1, <1>2, <1>3

LEMMA Pieces ==
  FixedStr \in Seq(Words) /\ \A s, t \in Seq(Words) : s \o t \in Seq(Words)
<1>1. \A s, t \in Seq(Words) : s \o t \in Seq(Words)
  BY ConcatProperties
<1>2. FixedStr \in Seq(Words)
  BY DEF FixedStr, Words
<1> QED
  BY <1>1, <1>2

LEMMA PipesNext ==
  lab = "pipes" /\ PipesInv /\ PeersNext => PipesInv'
<1> SUFFICES ASSUME lab = "pipes", PipesInv, PeersNext
             PROVE  PipesInv'
  OBVIOUS
<1>1. step \in [1 .. 2 -> Steps] /\ 1 \in 1 .. 2 /\ 2 \in 1 .. 2 /\ 1 # 2
  BY DEF PipesInv
<1>2. /\ wire \in [1 .. 2 -> Seq(Words)] /\ said \in [1 .. 2 -> Seq(Words)]
      /\ heard \in [1 .. 2 -> Seq(Words)]
  BY DEF PipesInv
<1>3. wire[1] \in Seq(Words) /\ wire[2] \in Seq(Words) /\ heard[2] \in Seq(Words)
  BY <1>1, <1>2
<1>4. Other(1) = 2 /\ Other(2) = 1
  BY DEF Other
<1>5. CASE ParentWrites
  <2>1. PICK line \in Seq(Words) : Sent(1, line)
    <3>1. PICK line \in Lines : Sent(1, line)
      BY <1>5 DEF ParentWrites
    <3>2. line \in Seq(STRING) /\ STRING \subseteq Words
      BY LinesAssumption DEF Words
    <3> QED
      BY <3>1, <3>2, SeqMonotonic
  <2>2. step[1] = "write" /\ step' = [step EXCEPT ![1] = "wait"] /\ heard' = heard
    BY <1>5 DEF ParentWrites, Go
  <2>3. /\ step[2] = "read" /\ wire[1] = <<>> /\ wire[2] = <<>> /\ said[1] = <<>>
        /\ heard[1] = <<>> /\ heard[2] = <<>>
    BY <2>2 DEF PipesInv
  <2>4. wire' = [wire EXCEPT ![2] = wire[2] \o line] /\ said' = [said EXCEPT ![1] = said[1] \o line]
    BY <1>4, <2>1 DEF Sent
  <2>5. wire[2] \o line = line /\ said[1] \o line = line
    BY <2>3, Whole
  <2>6. /\ wire' \in [1 .. 2 -> Seq(Words)] /\ said' \in [1 .. 2 -> Seq(Words)]
        /\ wire'[2] = line /\ wire'[1] = wire[1] /\ said'[1] = line
    BY <1>1, <1>2, <2>1, <2>4, <2>5
  <2>7. step' \in [1 .. 2 -> Steps] /\ step'[1] = "wait" /\ step'[2] = "read"
    BY <1>1, <2>2, <2>3 DEF Steps
  <2> QED
    BY <1>2, <2>2, <2>3, <2>6, <2>7 DEF PipesInv
<1>6. CASE ChildReads
  <2>1. /\ step[2] = "read" /\ wire[2] # <<>> /\ Received(2, Len(wire[2])) /\ said' = said
        /\ step' = [step EXCEPT ![2] = "write"]
    BY <1>6 DEF ChildReads, Go
  <2>2. step[1] = "wait" /\ wire[1] = <<>> /\ heard[1] = <<>> /\ heard[2] = <<>> /\ wire[2] = said[1]
    BY <2>1 DEF PipesInv
  <2>3. heard' = [heard EXCEPT ![2] = wire[2]] /\ wire' = [wire EXCEPT ![2] = <<>>]
    <3>1. /\ <<>> \o SubSeq(wire[2], 1, Len(wire[2])) = wire[2]
          /\ SubSeq(wire[2], Len(wire[2]) + 1, Len(wire[2])) = <<>>
      BY <1>3, <2>1, Whole
    <3> QED
      BY <2>1, <2>2, <3>1 DEF Received
  <2>4. /\ heard' \in [1 .. 2 -> Seq(Words)] /\ wire' \in [1 .. 2 -> Seq(Words)]
        /\ heard'[2] = said[1] /\ heard'[1] = heard[1] /\ wire'[1] = wire[1]
    <3>1. <<>> \in Seq(Words)
      BY EmptySeq
    <3> QED
      BY <1>1, <1>2, <1>3, <2>2, <2>3, <3>1
  <2>5. step' \in [1 .. 2 -> Steps] /\ step'[1] = "wait" /\ step'[2] = "write"
    BY <1>1, <2>1, <2>2 DEF Steps
  <2> QED
    BY <1>2, <2>1, <2>2, <2>4, <2>5 DEF PipesInv
<1>7. CASE ChildWrites
  <2> DEFINE line == heard[2] \o FixedStr
  <2>1. /\ step[2] = "write" /\ Sent(2, line) /\ heard' = heard
        /\ step' = [step EXCEPT ![2] = "ended"]
    BY <1>7 DEF ChildWrites, Go
  <2>2. step[1] = "wait" /\ wire[1] = <<>> /\ heard[1] = <<>> /\ heard[2] = said[1]
    BY <2>1 DEF PipesInv
  <2>3. wire' = [wire EXCEPT ![1] = wire[1] \o line] /\ said' = [said EXCEPT ![2] = said[2] \o line]
    BY <1>4, <2>1 DEF Sent
  <2>4. line = said[1] \o FixedStr /\ line \in Seq(Words)
    BY <1>3, <2>2, Pieces
  <2> HIDE DEF line
  <2>5. wire[1] \o line = line /\ said[2] \o line \in Seq(Words)
    <3>1. said[2] \in Seq(Words)
      BY <1>1, <1>2
    <3> QED
      BY <2>2, <2>4, <3>1, Whole, Pieces
  <2>6. /\ wire' \in [1 .. 2 -> Seq(Words)] /\ said' \in [1 .. 2 -> Seq(Words)]
        /\ wire'[1] = line /\ said'[1] = said[1]
    BY <1>1, <1>2, <2>3, <2>4, <2>5
  <2>7. step' \in [1 .. 2 -> Steps] /\ step'[1] = "wait" /\ step'[2] = "ended"
    BY <1>1, <2>1, <2>2 DEF Steps
  <2> QED
    BY <1>2, <2>1, <2>2, <2>4, <2>6, <2>7 DEF PipesInv
<1>8. CASE ParentReads
  <2>1. /\ step[1] = "wait" /\ step[2] = "ended" /\ Received(1, Len(wire[1])) /\ said' = said
        /\ step' = [step EXCEPT ![1] = "ended"]
    BY <1>8 DEF ParentReads, Go
  <2>2. heard[1] = <<>> /\ wire[1] = said[1] \o FixedStr
    BY <2>1 DEF PipesInv
  <2>3. heard' = [heard EXCEPT ![1] = wire[1]]
    <3>1. <<>> \o SubSeq(wire[1], 1, Len(wire[1])) = wire[1]
      BY <1>3, Whole
    <3> QED
      BY <2>1, <2>2, <3>1 DEF Received
  <2>4. heard' \in [1 .. 2 -> Seq(Words)] /\ heard'[1] = said[1] \o FixedStr
    BY <1>1, <1>2, <1>3, <2>2, <2>3
  <2>5. wire' \in [1 .. 2 -> Seq(Words)]
    <3>1. wire[1] # <<>>
      <4>1. FixedStr # <<>> /\ said[1] \in Seq(Words)
        BY <1>1, <1>2 DEF FixedStr
      <4> QED
        BY <2>2, <4>1, Pieces, ConcatEqualIffEmpty
    <3>2. SubSeq(wire[1], Len(wire[1]) + 1, Len(wire[1])) = <<>>
      BY <1>3, <3>1, Whole
    <3>3. wire' = [wire EXCEPT ![1] = <<>>]
      BY <2>1, <3>2 DEF Received
    <3> QED
      BY <1>2, <3>3, EmptySeq
  <2>6. step' \in [1 .. 2 -> Steps] /\ step'[1] = "ended" /\ step'[2] = "ended"
    BY <1>1, <2>1 DEF Steps
  <2> QED
    BY <1>2, <2>1, <2>4, <2>5, <2>6 DEF PipesInv
<1> QED
  BY <1>5, <1>6, <1>7, <1>8 DEF PeersNext, Connected, Hear, HearNothing, Type, TypeLost, Serve,
     Answer, Produce, Poll, ProduceAgain, Attach, ReadMemory, MarkRead

-----------------------------------------------------------------------------
\* The lab stays the one that was started.
PeersInv ==
    /\ lab \in {"server", "calcServer", "shmProducer", "pipes"}
    /\ lab = "server" => ServerInv
    /\ lab = "calcServer" => CalcInv
    /\ lab = "shmProducer" => ShmInv
    /\ lab = "pipes" => PipesInv

LEMMA Empties ==
  ASSUME NEW S, NEW a \in S
  PROVE  <<a, a>> \in [1 .. 2 -> S]
OBVIOUS

LEMMA PeersStart ==
  PeersInit => PeersInv
<1> SUFFICES ASSUME PeersInit
             PROVE  PeersInv
  OBVIOUS
<1>1. /\ lab \in {"server", "calcServer", "shmProducer", "pipes"}
      /\ wire = <<<<>>, <<>>>> /\ said = <<<<>>, <<>>>> /\ heard = <<<<>>, <<>>>>
  BY DEF PeersInit
<1>2. /\ wire \in [1 .. 2 -> Seq(Thing)] /\ said \in [1 .. 2 -> Seq(Thing)]
      /\ heard \in [1 .. 2 -> Seq(Thing)]
  <2>1. <<<<>>, <<>>>> \in [1 .. 2 -> Seq(Thing)]
    BY EmptySeq, Empties
  <2> QED
    BY <1>1, <2>1
<1>3. <<>> \o <<>> = <<>> /\ Len(<<>>) = 0
  OBVIOUS
<1>4. \A i \in 1 .. 2 : wire[i] = <<>> /\ said[i] = <<>> /\ heard[i] = <<>>
  BY <1>1
<1>5. Streams
  BY <1>2, <1>3, <1>4, OtherType DEF Streams
<1>6. lab = "server" => ServerInv
  <2>1. lab = "server" => step[1] = "read" /\ step[2] = "type" /\ step \in [1 .. 2 -> {"read", "type", "ended"}]
    BY DEF PeersInit
  <2> QED
    BY <1>5, <2>1 DEF ServerInv
<1>7. lab = "calcServer" => CalcInv
  <2>1. lab = "calcServer" => /\ step[1] = "write" /\ step[2] = "read"
                              /\ step \in [1 .. 2 -> {"read", "write", "type", "ended"}]
                              /\ memory = "Format"
    BY DEF PeersInit
  <2>2. memory = "Format" => memory \in Thing
    BY DEF Thing
  <2>3. wire[1] \in Seq(Requests)
    <3>1. wire[1] = <<>>
      BY <1>4
    <3> QED
      BY <3>1, EmptySeq
  <2>4. Len(said[1]) = 0 /\ Len(heard[1]) = 0 /\ heard[1] = <<>>
    BY <1>3, <1>4
  <2>5. \A k \in 2 .. 0 : FALSE
    OBVIOUS
  <2> QED
    BY <1>5, <2>1, <2>2, <2>3, <2>4, <2>5 DEF CalcInv
<1>8. lab = "shmProducer" => ShmInv
  <2> SUFFICES ASSUME lab = "shmProducer"
               PROVE  ShmInv
    OBVIOUS
  <2>1. /\ step[1] = "write" /\ step[2] = "ended" /\ step \in [1 .. 2 -> Steps]
    BY DEF PeersInit, Steps
  <2>2. memory \in [1 .. L + 1 -> Chars] /\ memory[L + 1] = "0"
    BY AlphabetType DEF PeersInit, L, Chars
  <2>3. said \in [1 .. 2 -> Seq(Chars)] /\ heard \in [1 .. 2 -> Seq(Chars)]
    <3>1. <<<<>>, <<>>>> \in [1 .. 2 -> Seq(Chars)]
      BY EmptySeq, Empties
    <3> QED
      BY <1>1, <3>1
  <2>4. Len(said[1]) = 0 /\ Len(heard[2]) = 0 /\ said[1] = <<>>
    BY <1>3, <1>4
  <2>5. 0 <= L /\ \A n \in 2 .. L + 1 : ~(n <= 0)
    BY AlphabetType
  <2> QED
    BY <2>1, <2>2, <2>3, <2>4, <2>5 DEF ShmInv
<1>9. lab = "pipes" => PipesInv
  <2>1. lab = "pipes" => step[1] = "write" /\ step[2] = "read" /\ step \in [1 .. 2 -> Steps]
    BY DEF PeersInit, Steps
  <2>2. /\ wire \in [1 .. 2 -> Seq(Words)] /\ said \in [1 .. 2 -> Seq(Words)]
        /\ heard \in [1 .. 2 -> Seq(Words)]
    <3>1. <<<<>>, <<>>>> \in [1 .. 2 -> Seq(Words)]
      BY EmptySeq, Empties
    <3> QED
      BY <1>1, <3>1
  <2> QED
    BY <1>4, <2>1, <2>2 DEF PipesInv
<1> QED
  BY <1>1, <1>6, <1>7, <1>8, <1>9 DEF PeersInv

LEMMA PeersStep ==
  PeersInv /\ [PeersNext]_<<lab, todo, peerVars>> => PeersInv'
<1> SUFFICES ASSUME PeersInv, [PeersNext]_<<lab, todo, peerVars>>
             PROVE  PeersInv'
  OBVIOUS
<1>1. CASE PeersNext
  <2>1. lab' = lab
    BY <1>1 DEF PeersNext
  <2> QED
    BY <1>1, <2>1, ServerNext, CalcNext, ShmNext, PipesNext DEF PeersInv
<1>2. CASE UNCHANGED <<lab, todo, peerVars>>
  <2>1. /\ lab' = lab /\ step' = step /\ wire' = wire /\ said' = said
        /\ heard' = heard /\ memory' = memory /\ calm' = calm
    BY <1>2 DEF peerVars
  <2>2. Streams => Streams'
    BY <2>1 DEF Streams
  <2>3. ServerInv => ServerInv'
    BY <2>1, <2>2 DEF ServerInv
  <2>4. CalcInv => CalcInv'
    BY <2>1, <2>2 DEF CalcInv
  <2>5. ShmInv => ShmInv'
    BY <2>1 DEF ShmInv, Full
  <2>6. PipesInv => PipesInv'
    BY <2>1 DEF PipesInv
  <2> QED
    BY <2>1, <2>3, <2>4, <2>5, <2>6 DEF PeersInv
<1> QED
  BY <1>1, <1>2

LEMMA PeersMeans ==
  PeersInv => PeersAgree
<1> SUFFICES ASSUME PeersInv
             PROVE  PeersAgree
  OBVIOUS
<1>1. ASSUME lab = "server", NEW i \in 1 .. 2
      PROVE  /\ heard[i] \o wire[i] = said[Other(i)]
             /\ calm => step # <<"read", "read">> \/ wire[1] # <<>> \/ wire[2] # <<>>
  <2>1. ServerInv
    BY <1>1 DEF PeersInv
  <2>2. heard[i] \o wire[i] = said[Other(i)]
    BY <2>1 DEF ServerInv, Streams
  <2>3. step = <<"read", "read">> => step[1] = "read" /\ step[2] = "read"
    OBVIOUS
  <2> QED
    BY <2>1, <2>2, <2>3 DEF ServerInv
<1>2. ASSUME lab = "calcServer", NEW k \in 2 .. Len(heard[2])
      PROVE  \E r \in calcRes(said[2][k - 1]) : r # <<>> /\ heard[2][k] = ToString(r[1])
  <2>1. CalcInv
    BY <1>2 DEF PeersInv
  <2>2. PICK i \in 1 .. 2 : i = 2
    OBVIOUS
  <2>3. /\ Len(heard[i]) \in Nat /\ Len(said[Other(i)]) \in Nat
        /\ Len(heard[i]) <= Len(said[Other(i)])
        /\ \A m \in 1 .. Len(heard[i]) : said[Other(i)][m] = heard[i][m]
    BY <2>1, Prefix DEF CalcInv
  <2>4. Other(i) = 1
    BY <2>2 DEF Other
  <2>5. PICK a, b \in Nat : a = Len(heard[2]) /\ b = Len(said[1])
    BY <2>2, <2>3, <2>4
  <2>6. a <= b /\ \A m \in 1 .. a : said[1][m] = heard[2][m]
    BY <2>2, <2>3, <2>4, <2>5, Zenon
  <2>7. k \in 2 .. b /\ k \in 1 .. a
    BY <1>2, <2>5, <2>6
  <2>8. Answered(said[2][k - 1], said[1][k])
    BY <2>1, <2>5, <2>7 DEF CalcInv
  <2> QED
    BY <2>6, <2>7, <2>8 DEF Answered
<1>3. ASSUME lab = "shmProducer", calm, step[2] = "mark"
      PROVE  heard[2] = Alphabet
  <2>1. ShmInv
    BY <1>3 DEF PeersInv
  <2>2. Len(heard[2]) = L /\ \A k \in 1 .. Len(heard[2]) : heard[2][k] = Alphabet[k]
    BY <1>3, <2>1 DEF ShmInv
  <2>3. heard[2] \in Seq(Chars) /\ Alphabet \in Seq(Chars)
    BY <2>1, AlphabetType DEF ShmInv
  <2> QED
    BY <2>2, <2>3, SeqEqual DEF L
<1>4. ASSUME lab = "pipes", step[1] = "ended"
      PROVE  heard[1] = said[1] \o FixedStr
  BY <1>4 DEF PeersInv, PipesInv
<1> QED
  BY <1>1, <1>2, <1>3, <1>4 DEF PeersAgree

\* Whatever the lines, the requests and the alphabet: the two processes keep
\* their turns, and each reads what the other wrote for it.
THEOREM TurnsKept ==
  PeersInit /\ [][PeersNext]_<<lab, todo, peerVars>> => []PeersAgree
<1> QED
  BY PeersStart, PeersStep, PeersMeans, PTL
=============================================================================
