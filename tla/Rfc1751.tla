------------------------------- MODULE Rfc1751 -------------------------------
(***************************************************************************)
(* btoe and etob (cryptography/rfc1751.go): a key is written down as words *)
(* of a dictionary of 2048, six for each block of eight bytes, and typed   *)
(* in again by someone who may make a mistake.  A byte or a number that    *)
(* the code shifts, masks and ors is the set of its bits that are set,     *)
(* counted from the lowest.                                                *)
(***************************************************************************)
EXTENDS Integers, Sequences

CONSTANT Keys   \* the keys, as sequences of bytes

Byte == SUBSET (0 .. 7)

ASSUME KeysAssumption == Keys \subseteq Seq(Byte)

VARIABLES
  key,      \* the bytes that were encoded
  phrase,   \* the words btoe wrote, or NoPhrase
  typed,    \* the words as they were typed, or NoPhrase
  slip,     \* what went wrong in typing
  restored  \* what etob gave: "none", "refused" or bytes

rfc1751Vars == <<key, phrase, typed, slip, restored>>

NoPhrase == <<>>
NoBytes(why) == [why |-> why, bytes |-> <<>>]
Bytes(b) == [why |-> "done", bytes |-> b]

(* A word is its place in the dictionary, or one beyond it, and the way it *)
(* is spelled.                                                             *)
NoPlace == {11}
Word(i, spelling) == [i |-> i, spelling |-> spelling]
Spellings == {"upper", "lower", "digits"}

(* rfc1751Standard: upper case, and letters for the digits like them.      *)
Standard(w) == [w EXCEPT !.spelling = "upper"]

-----------------------------------------------------------------------------
(* rfc1751Extract: the bits from start, out of three bytes.                *)
Extract(s, start, length) ==
  LET x(n) == n % 8 \in s[start \div 8 + 2 - n \div 8]
  IN {n \in 0 .. length - 1 : x(n + 24 - (length + (start % 8)))}

(* A mutant: bits that just reach a third byte do not get there.           *)
InsertShort(s, x, start, length) ==
  LET shift == (8 - ((start + length) % 8)) % 8
      part(i) == {n \in 0 .. 7 : n + 8 * (3 - i) - shift \in x}
      first == CASE shift + length > 17 -> 1
                 [] shift + length \in 9 .. 17 -> 2
                 [] OTHER -> 3
      at(i) == i - start \div 8 + first
  IN [i \in DOMAIN s |-> IF at(i) \in first .. 3 THEN s[i] \cup part(at(i)) ELSE s[i]]

(* rfc1751Insert: x is shifted to the end of a byte and its one, two or    *)
(* three bytes are or-ed into the buffer.                                  *)
Insert(s, x, start, length) ==
  LET shift == (8 - ((start + length) % 8)) % 8
      part(i) == {n \in 0 .. 7 : n + 8 * (3 - i) - shift \in x}
      first == CASE shift + length > 16 -> 1
                 [] shift + length \in 9 .. 16 -> 2
                 [] OTHER -> 3
      at(i) == i - start \div 8 + first
  IN [i \in DOMAIN s |-> IF at(i) \in first .. 3 THEN s[i] \cup part(at(i)) ELSE s[i]]

(* rfc1751Parity: the last two bits of the sum of the 32 pairs of bits.    *)
Pair(x) == (IF 0 \in x THEN 1 ELSE 0) + (IF 1 \in x THEN 2 ELSE 0)
Parity(s) ==
  LET sum[i \in 0 .. 32] == IF i = 0 THEN 0 ELSE sum[i - 1] + Pair(Extract(s, 2 * i - 2, 2))
  IN CHOOSE x \in SUBSET (0 .. 1) : Pair(x) = sum[32] % 4

(* btoeBlock and btoeBytes.                                                *)
BtoeBlock(b) ==
  LET s == [i \in 0 .. 10 |-> IF i < 8 THEN b[i + 1] ELSE {}]
      cp == [s EXCEPT ![8] = {n + 6 : n \in Parity(s)}]
  IN [i \in 1 .. 6 |-> Word(Extract(cp, 11 * (i - 1), 11), "upper")]

WholeGroups(s, n) == s # <<>> /\ Len(s) % n = 0
Group(s, n, g) == SubSeq(s, n * (g - 1) + 1, n * g)

BtoeBytes(b) ==
  LET blocks == [g \in 1 .. Len(b) \div 8 |-> BtoeBlock(Group(b, 8, g))]
  IN [i \in 1 .. 6 * (Len(b) \div 8) |-> blocks[(i - 1) \div 6 + 1][((i - 1) % 6) + 1]]

(* etobBlock and etobWords: every word is looked up before the parity is   *)
(* compared, and a block that fails refuses them all.                      *)
EtobBlock(words) ==
  LET idx == [i \in 1 .. 6 |-> Standard(words[i]).i]
      b[i \in 0 .. 6] == IF i = 0 THEN [j \in 0 .. 10 |-> {}]
                         ELSE Insert(b[i - 1], idx[i], 11 * (i - 1), 11)
  IN IF \E i \in 1 .. 6 : idx[i] = NoPlace THEN NoBytes("word")
     ELSE LET s == b[6] IN IF Parity(s) # Extract(s, 64, 2) THEN NoBytes("parity")
          ELSE Bytes([i \in 1 .. 8 |-> s[i - 1]])

EtobWords(words) ==
  IF ~WholeGroups(words, 6) THEN NoBytes("count")
  ELSE LET blocks == [g \in 1 .. Len(words) \div 6 |-> EtobBlock(Group(words, 6, g))]
       IN IF \E g \in DOMAIN blocks : blocks[g].why # "done" THEN NoBytes("block")
          ELSE Bytes([i \in 1 .. 8 * Len(blocks) |->
                        blocks[(i - 1) \div 8 + 1].bytes[((i - 1) % 8) + 1]])

-----------------------------------------------------------------------------
Rfc1751Init ==
  /\ key \in Keys /\ phrase = NoPhrase /\ typed = NoPhrase
  /\ slip = "none" /\ restored = NoBytes("none")

(* btoe takes whole blocks only.                                           *)
Btoe ==
  /\ phrase = NoPhrase /\ WholeGroups(key, 8)
  /\ phrase' = BtoeBytes(key)
  /\ UNCHANGED <<key, typed, slip, restored>>

(* The phrase is typed in: as it is or in another spelling, with a word    *)
(* that differs in one bit, with a word that does not exist, without its   *)
(* last word, or with two words swapped.                                   *)
Typing ==
  /\ phrase # NoPhrase /\ typed = NoPhrase
  /\ \/ \E f \in Spellings :
          /\ slip' = "none"
          /\ typed' = [i \in DOMAIN phrase |-> Word(phrase[i].i, f)]
     \/ \E i \in DOMAIN phrase, n \in 0 .. 10 :
          /\ slip' = "bit"
          /\ typed' = [phrase EXCEPT ![i].i = IF n \in @ THEN @ \ {n} ELSE @ \cup {n}]
     \/ \E i \in DOMAIN phrase :
          slip' = "no such word" /\ typed' = [phrase EXCEPT ![i].i = NoPlace]
     \/ slip' = "missing" /\ typed' = SubSeq(phrase, 1, Len(phrase) - 1)
     \/ \E i \in 1 .. Len(phrase) - 1 :
          /\ slip' = "swapped"
          /\ typed' = [phrase EXCEPT ![i] = phrase[i + 1], ![i + 1] = phrase[i]]
  /\ UNCHANGED <<key, phrase, restored>>

Etob ==
  /\ typed # NoPhrase /\ restored = NoBytes("none")
  /\ restored' = EtobWords(typed)
  /\ UNCHANGED <<key, phrase, typed, slip>>

Rfc1751Next == Btoe \/ Typing \/ Etob

Rfc1751Spec == Rfc1751Init /\ [][Rfc1751Next]_rfc1751Vars

-----------------------------------------------------------------------------
(* Properties.                                                             *)

(* The bits of a key and of a phrase, counted from the first.              *)
KeyBit(n) == 7 - (n % 8) \in key[n \div 8 + 1]
WordBit(n) == 10 - (n % 11) \in phrase[n \div 11 + 1].i

(* The words of a block are its 64 bits in order, and two more.            *)
WordsHoldTheBits ==
  \A g \in 0 .. Len(key) \div 8 - 1, n \in 0 .. 63 :
    WordBit(66 * g + n) <=> KeyBit(64 * g + n)

(* A key written down holds all its bits in their order, comes back from   *)
(* any spelling of its words, and one wrong bit, a word that does not      *)
(* exist or a missing word is noticed, wherever it is; and the words that  *)
(* are accepted are the words of what they give.                           *)
KeyRestoredOrNoticed ==
  /\ phrase # NoPhrase => WordsHoldTheBits
  /\ restored.why # "none" =>
       /\ slip = "none" => restored = Bytes(key)
       /\ slip \in {"bit", "no such word", "missing"} => restored.why # "done"
       /\ restored.why = "done" => BtoeBytes(restored.bytes) = [i \in DOMAIN typed |-> Standard(typed[i])]
=============================================================================
