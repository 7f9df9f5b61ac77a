---------------------------------- MODULE DES ----------------------------------
(***************************************************************************)
(* CNS/des.cpp: the Data Encryption Standard on one block of eight         *)
(* characters, under the key "abcdefgh": main encrypts a line and decrypts *)
(* the result.  Bits are 0 and 1, a string of bits is a function on its    *)
(* positions; characters are their codes.                                  *)
(***************************************************************************)
EXTENDS Lab, Integers

CONSTANT Texts      \* the lines entered, as sequences of character codes

VARIABLES text,     \* the block made of the line
          mode,     \* perform_des is encrypting or decrypting; then "done"
          round_num,
          lpt, rpt, \* the two halves
          output,   \* what perform_des returned last
          trail     \* the halves after each round of the encryption (history)

desVars == <<text, mode, round_num, lpt, rpt, output, trail>>

-----------------------------------------------------------------------------
(* The tables.                                                             *)

ip_table == <<
    58, 50, 42, 34, 26, 18, 10, 2, 60, 52, 44, 36, 28, 20, 12, 4, 62, 54, 46, 38, 30, 22,
    14, 6, 64, 56, 48, 40, 32, 24, 16, 8, 57, 49, 41, 33, 25, 17, 9, 1, 59, 51, 43, 35,
    27, 19, 11, 3, 61, 53, 45, 37, 29, 21, 13, 5, 63, 55, 47, 39, 31, 23, 15, 7>>
pc1_table == <<
    57, 49, 41, 33, 25, 17, 9, 1, 58, 50, 42, 34, 26, 18, 10, 2, 59, 51, 43, 35, 27, 19,
    11, 3, 60, 52, 44, 36, 63, 55, 47, 39, 31, 23, 15, 7, 62, 54, 46, 38, 30, 22, 14, 6,
    61, 53, 45, 37, 29, 21, 13, 5, 28, 20, 12, 4>>
shift_schedule == <<
    1, 1, 2, 2, 2, 2, 2, 2, 1, 2, 2, 2, 2, 2, 2, 1>>
pc2_table == <<
    14, 17, 11, 24, 1, 5, 3, 28, 15, 6, 21, 10, 23, 19, 12, 4, 26, 8, 16, 7, 27, 20,
    13, 2, 41, 52, 31, 37, 47, 55, 30, 40, 51, 45, 33, 48, 44, 49, 39, 56, 34, 53, 46, 42,
    50, 36, 29, 32>>
e_box_table == <<
    32, 1, 2, 3, 4, 5, 4, 5, 6, 7, 8, 9, 8, 9, 10, 11, 12, 13, 12, 13, 14, 15,
    16, 17, 16, 17, 18, 19, 20, 21, 20, 21, 22, 23, 24, 25, 24, 25, 26, 27, 28, 29, 28, 29,
    30, 31, 32, 1>>
p_box_table == <<
    16, 7, 20, 21, 29, 12, 28, 17, 1, 15, 23, 26, 5, 18, 31, 10, 2, 8, 24, 14, 32, 27,
    3, 9, 19, 13, 30, 6, 22, 11, 4, 25>>
ip_inverse_table == <<
    40, 8, 48, 16, 56, 24, 64, 32, 39, 7, 47, 15, 55, 23, 63, 31, 38, 6, 46, 14, 54, 22,
    62, 30, 37, 5, 45, 13, 53, 21, 61, 29, 36, 4, 44, 12, 52, 20, 60, 28, 35, 3, 43, 11,
    51, 19, 59, 27, 34, 2, 42, 10, 50, 18, 58, 26, 33, 1, 41, 9, 49, 17, 57, 25>>
s_boxes == <<
  <<<<14, 4, 13, 1, 2, 15, 11, 8, 3, 10, 6, 12, 5, 9, 0, 7>>,
    <<0, 15, 7, 4, 14, 2, 13, 1, 10, 6, 12, 11, 9, 5, 3, 8>>,
    <<4, 1, 14, 8, 13, 6, 2, 11, 15, 12, 9, 7, 3, 10, 5, 0>>,
    <<15, 12, 8, 2, 4, 9, 1, 7, 5, 11, 3, 14, 10, 0, 6, 13>>>>,
  <<<<15, 1, 8, 14, 6, 11, 3, 4, 9, 7, 2, 13, 12, 0, 5, 10>>,
    <<3, 13, 4, 7, 15, 2, 8, 14, 12, 0, 1, 10, 6, 9, 11, 5>>,
    <<0, 14, 7, 11, 10, 4, 13, 1, 5, 8, 12, 6, 9, 3, 2, 15>>,
    <<13, 8, 10, 1, 3, 15, 4, 2, 11, 6, 7, 12, 0, 5, 14, 9>>>>,
  <<<<10, 0, 9, 14, 6, 3, 15, 5, 1, 13, 12, 7, 11, 4, 2, 8>>,
    <<13, 7, 0, 9, 3, 4, 6, 10, 2, 8, 5, 14, 12, 11, 15, 1>>,
    <<13, 6, 4, 9, 8, 15, 3, 0, 11, 1, 2, 12, 5, 10, 14, 7>>,
    <<1, 10, 13, 0, 6, 9, 8, 7, 4, 15, 14, 3, 11, 5, 2, 12>>>>,
  <<<<7, 13, 14, 3, 0, 6, 9, 10, 1, 2, 8, 5, 11, 12, 4, 15>>,
    <<13, 8, 11, 5, 6, 15, 0, 3, 4, 7, 2, 12, 1, 10, 14, 9>>,
    <<10, 6, 9, 0, 12, 11, 7, 13, 15, 1, 3, 14, 5, 2, 8, 4>>,
    <<3, 15, 0, 6, 10, 1, 13, 8, 9, 4, 5, 11, 12, 7, 2, 14>>>>,
  <<<<2, 12, 4, 1, 7, 10, 11, 6, 8, 5, 3, 15, 13, 0, 14, 9>>,
    <<14, 11, 2, 12, 4, 7, 13, 1, 5, 0, 15, 10, 3, 9, 8, 6>>,
    <<4, 2, 1, 11, 10, 13, 7, 8, 15, 9, 12, 5, 6, 3, 0, 14>>,
    <<11, 8, 12, 7, 1, 14, 2, 13, 6, 15, 0, 9, 10, 4, 5, 3>>>>,
  <<<<12, 1, 10, 15, 9, 2, 6, 8, 0, 13, 3, 4, 14, 7, 5, 11>>,
    <<10, 15, 4, 2, 7, 12, 9, 5, 6, 1, 13, 14, 0, 11, 3, 8>>,
    <<9, 14, 15, 5, 2, 8, 12, 3, 7, 0, 4, 10, 1, 13, 11, 6>>,
    <<4, 3, 2, 12, 9, 5, 15, 10, 11, 14, 1, 7, 6, 0, 8, 13>>>>,
  <<<<4, 11, 2, 14, 15, 0, 8, 13, 3, 12, 9, 7, 5, 10, 6, 1>>,
    <<13, 0, 11, 7, 4, 9, 1, 10, 14, 3, 5, 12, 2, 15, 8, 6>>,
    <<1, 4, 11, 13, 12, 3, 7, 14, 10, 15, 6, 8, 0, 5, 9, 2>>,
    <<6, 11, 13, 8, 1, 4, 10, 7, 9, 5, 0, 15, 14, 2, 3, 12>>>>,
  <<<<13, 2, 8, 4, 6, 15, 11, 1, 10, 9, 3, 14, 5, 0, 12, 7>>,
    <<1, 15, 13, 8, 10, 3, 7, 4, 12, 5, 6, 11, 0, 14, 9, 2>>,
    <<7, 11, 4, 1, 9, 12, 14, 2, 0, 6, 10, 13, 15, 3, 5, 8>>,
    <<2, 1, 14, 7, 4, 10, 8, 13, 15, 12, 9, 0, 3, 5, 6, 11>>>>>>

-----------------------------------------------------------------------------
Bit == {0, 1}
Half == [1 .. 32 -> Bit]
Block == [1 .. 64 -> Bit]
Xor(a, b) == IF a = b THEN 0 ELSE 1
Permute(s, table) == [i \in DOMAIN table |-> s[table[i]]]

\* Bit k of a number of w bits, the first one being the highest.
BitOf(n, k, w) == IF (n \div 2 ^ (w - k)) % 2 = 1 THEN 1 ELSE 0

\* The bits of the first eight characters, filled up with zeroes.
str2bin(str) ==
    [i \in 1 .. 64 |-> LET c == (i - 1) \div 8 + 1 IN
                       IF c <= Len(str) THEN BitOf(str[c], ((i - 1) % 8) + 1, 8) ELSE 0]

\* "abcdefgh"; each half of the permuted key is turned further round by round.
key_in_binary_conv == str2bin([c \in 1 .. 8 |-> 96 + c])
Turned[n \in 0 .. 16] == IF n = 0 THEN 0 ELSE Turned[n - 1] + shift_schedule[n]
generate_round_keys ==
    LET pc1_key == Permute(key_in_binary_conv, pc1_table)
        cd(n) == [i \in 1 .. 56 |->
                     pc1_key[IF i <= 28 THEN ((i - 1 + Turned[n]) % 28) + 1
                             ELSE 29 + ((i - 29 + Turned[n]) % 28)]]
    IN [n \in 1 .. 16 |-> Permute(cd(n), pc2_table)]
RoundKeys == generate_round_keys

\* The keys from the first one up, for the decryption too.
RoundKey_Forward(m, n) == RoundKeys[n + 1]

\* The key of a round: the decryption takes the keys from the last one down.
RoundKey(m, n) == IF m = "encrypt" THEN RoundKeys[n + 1] ELSE RoundKeys[16 - n]

\* Expansion, the key, the eight S-boxes and the P-box: what a round adds to
\* the other half.
F(half, key) ==
    LET x == [i \in 1 .. 48 |-> Xor(half[e_box_table[i]], key[i])]
        Value(b) == LET g == 6 * (b - 1) IN
                    s_boxes[b][2 * x[g + 1] + x[g + 6] + 1]
                              [8 * x[g + 2] + 4 * x[g + 3] + 2 * x[g + 4] + x[g + 5] + 1]
        values == [b \in 1 .. 8 |-> Value(b)]
    IN [i \in 1 .. 32 |-> LET j == p_box_table[i] - 1 IN
                          BitOf(values[j \div 4 + 1], (j % 4) + 1, 4)]

Combine(half, f) == [i \in 1 .. 32 |-> Xor(half[i], f[i])]
Join(a, b) == [i \in 1 .. 64 |-> IF i <= 32 THEN a[i] ELSE b[i - 32]]
FirstHalf(s) == [i \in 1 .. 32 |-> s[i]]
SecondHalf(s) == [i \in 1 .. 32 |-> s[i + 32]]

\* ip_on_binary_rep, and the permutation of the two halves at the end.
ip_on_binary_rep(s) == [i \in 1 .. 64 |-> s[ip_table[i]]]

FinalCipher(l, r) == [i \in 1 .. 64 |-> Join(r, l)[ip_inverse_table[i]]]

\* The initial and the final permutation undo one another.
ASSUME IPInverse == \A i \in 1 .. 64 : /\ ip_table[i] \in 1 .. 64
                                       /\ ip_inverse_table[i] \in 1 .. 64
                                       /\ ip_table[ip_inverse_table[i]] = i
                                       /\ ip_inverse_table[ip_table[i]] = i

\* Each row of an S-box is a permutation of the numbers of four bits.
ASSUME SBoxRows == \A b \in 1 .. 8, r \in 1 .. 4 :
                       {s_boxes[b][r][c] : c \in 1 .. 16} = 0 .. 15

-----------------------------------------------------------------------------
DESInit ==
    /\ lab = "des" /\ todo = <<>>
    /\ text \in {str2bin(t) : t \in Texts}
    /\ mode = "encrypt" /\ round_num = 0 /\ output = text
    /\ lpt = FirstHalf(ip_on_binary_rep(text))
    /\ rpt = SecondHalf(ip_on_binary_rep(text))
    /\ trail = [n \in 0 .. 16 |-> <<lpt, rpt>>]

DESOff ==
    /\ text = <<>> /\ mode = "off" /\ round_num = 0 /\ lpt = <<>> /\ rpt = <<>>
    /\ output = <<>> /\ trail = <<>>

Round ==
    /\ mode \in {"encrypt", "decrypt"} /\ round_num < 16
    /\ lpt' = rpt
    /\ rpt' = Combine(lpt, F(rpt, RoundKey(mode, round_num)))
    /\ round_num' = round_num + 1
    /\ trail' = IF mode = "encrypt" THEN [trail EXCEPT ![round_num + 1] = <<lpt', rpt'>>]
                ELSE trail
    /\ UNCHANGED <<lab, todo, text, mode, output>>

\* main hands the cipher to the decryption.
Encrypted ==
    LET cipher == FinalCipher(lpt, rpt)
        permuted == ip_on_binary_rep(cipher)
    IN /\ mode = "encrypt" /\ round_num = 16
       /\ output' = cipher
       /\ mode' = "decrypt" /\ round_num' = 0
       /\ lpt' = FirstHalf(permuted) /\ rpt' = SecondHalf(permuted)
       /\ UNCHANGED <<lab, todo, text, trail>>

Decrypted ==
    /\ mode = "decrypt" /\ round_num = 16
    /\ output' = FinalCipher(lpt, rpt)
    /\ mode' = "done"
    /\ UNCHANGED <<lab, todo, text, round_num, lpt, rpt, trail>>

DESNext == Round \/ Encrypted \/ Decrypted
DESSpec == DESInit /\ [][DESNext]_<<lab, todo, desVars>>

-----------------------------------------------------------------------------
\* The decrypted text is the text that was encrypted: its first eight
\* characters, since str2bin cuts a longer line, and zeroes behind a shorter
\* one (perform_des).
DecryptsWhatItEncrypts == mode = "done" => output = text
=============================================================================
