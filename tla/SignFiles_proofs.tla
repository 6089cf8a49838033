-------------------------- MODULE SignFiles_proofs --------------------------
(***************************************************************************)
(* Theorems about SignFiles, for every set of processes, of files and of   *)
(* requests, and for hashes and signatures of any length.                  *)
(***************************************************************************)
EXTENDS SignFiles, SequenceTheorems, TLAPS

-----------------------------------------------------------------------------
(* Lists of cells.                                                         *)

LEMMA ListIs ==
    ASSUME NEW s, IsList(s)
    PROVE  /\ Len(s) \in Nat /\ DOMAIN s = 1..Len(s)
           /\ s = [i \in 1..Len(s) |-> s[i]]
  BY DEF IsList

(* A function on 1..n is a list.                                           *)
LEMMA ListMade ==
    ASSUME NEW n \in Nat, NEW s, s = [i \in 1..n |-> s[i]]
    PROVE  IsList(s) /\ Len(s) = n /\ DOMAIN s = 1..n
<1>1. DOMAIN s = 1..n
  OBVIOUS
<1>2. \A i \in 1..n : s[i] \in Range(s)
  BY <1>1 DEF Range
<1>3. s \in [1..n -> Range(s)]
  BY <1>2
<1>4. s \in Seq(Range(s)) /\ Len(s) = n
  BY <1>1, <1>3, SeqDef, LenProperties
<1> QED
  BY <1>1, <1>4 DEF IsList

LEMMA SeqIsList ==
    ASSUME NEW S, NEW s \in Seq(S)
    PROVE  IsList(s)
<1>1. Len(s) \in Nat /\ s = [i \in 1..Len(s) |-> s[i]]
  OBVIOUS
<1> QED
  BY <1>1, ListMade

(* Two lists are one if they have the same cells.                          *)
LEMMA ListEqual ==
    ASSUME NEW s, NEW t, IsList(s), IsList(t), Len(s) = Len(t),
           \A i \in 1..Len(s) : s[i] = t[i]
    PROVE  s = t
<1>1. s = [i \in 1..Len(s) |-> s[i]] /\ t = [i \in 1..Len(s) |-> t[i]]
  BY ListIs
<1>2. [i \in 1..Len(s) |-> s[i]] = [i \in 1..Len(s) |-> t[i]]
  OBVIOUS
<1> QED
  BY <1>1, <1>2

LEMMA EmptyList == IsList(<<>>) /\ Len(<<>>) = 0
  BY EmptySeq DEF IsList

(* A part of a list, from the cell after m to the cell n.                  *)
LEMMA PartOfList ==
    ASSUME NEW s, IsList(s), NEW m \in Nat, NEW n \in Nat, m <= n, n <= Len(s)
    PROVE  LET t == SubSeq(s, m + 1, n)
           IN  /\ IsList(t) /\ Len(t) = n - m
               /\ \A i \in 1..(n - m) : t[i] = s[m + i]
<1> DEFINE t == SubSeq(s, m + 1, n)
<1>1. Len(s) \in Nat /\ DOMAIN s = 1..Len(s)
  BY ListIs
<1>2. \A i \in (m + 1)..n : s[i] \in Range(s)
  BY <1>1 DEF Range
<1>3. m + 1 \in Int /\ n \in Int
  OBVIOUS
<1>4. /\ t \in Seq(Range(s))
      /\ Len(t) = IF m + 1 <= n THEN n - (m + 1) + 1 ELSE 0
      /\ \A i \in 1..(n - (m + 1) + 1) : t[i] = s[m + 1 + i - 1]
  BY <1>2, <1>3, SubSeqProperties
<1>5. Len(t) = n - m
  BY <1>4
<1>6. \A i \in 1..(n - m) : t[i] = s[m + i]
  BY <1>4
<1>7. IsList(t)
  BY <1>4, SeqIsList
<1> QED
  BY <1>5, <1>6, <1>7

LEMMA ReverseList ==
    ASSUME NEW s, IsList(s)
    PROVE  /\ IsList(Reverse(s)) /\ Len(Reverse(s)) = Len(s)
           /\ \A i \in 1..Len(s) : Reverse(s)[i] = s[Len(s) + 1 - i]
<1>1. Len(s) \in Nat
  BY ListIs
<1>2. Reverse(s) = [i \in 1..Len(s) |-> Reverse(s)[i]]
  BY <1>1 DEF Reverse
<1>3. \A i \in 1..Len(s) : Reverse(s)[i] = s[Len(s) + 1 - i]
  BY <1>1 DEF Reverse
<1> QED
  BY <1>1, <1>2, <1>3, ListMade

LEMMA ConcatList ==
    ASSUME NEW s, NEW t, IsList(s), IsList(t)
    PROVE  /\ IsList(s \o t) /\ Len(s \o t) = Len(s) + Len(t)
           /\ \A i \in 1..(Len(s) + Len(t)) :
                 (s \o t)[i] = IF i <= Len(s) THEN s[i] ELSE t[i - Len(s)]
<1> DEFINE S == Range(s) \cup Range(t)
<1>1. s \in Seq(S) /\ t \in Seq(S)
  BY ListIs, SeqDef DEF IsList
<1>2. /\ s \o t \in Seq(S) /\ Len(s \o t) = Len(s) + Len(t)
      /\ \A i \in 1..(Len(s) + Len(t)) :
            (s \o t)[i] = IF i <= Len(s) THEN s[i] ELSE t[i - Len(s)]
  BY <1>1, ConcatProperties
<1>3. IsList(s \o t)
  BY <1>2, SeqIsList
<1> QED
  BY <1>2, <1>3
-----------------------------------------------------------------------------
(* What is signed, and where it goes.                                      *)

LEMMA SignatureList ==
    ASSUME NEW c, NEW d
    PROVE  /\ IsList(Signature(c, d)) /\ Len(Signature(c, d)) = SigLen
           /\ \A i \in 1..SigLen :
                 /\ Signature(c, d)[i].mechanism = Mechanism(c)
                 /\ Signature(c, d)[i].data = d
<1>1. SigLen \in Nat
  BY SignFilesAssumption
<1>2. Signature(c, d) = [i \in 1..SigLen |-> Signature(c, d)[i]]
  BY DEF Signature
<1>3. \A i \in 1..SigLen : /\ Signature(c, d)[i].mechanism = Mechanism(c)
                           /\ Signature(c, d)[i].data = d
  BY DEF Signature
<1> QED
  BY <1>1, <1>2, <1>3, ListMade

LEMMA HashList ==
    ASSUME NEW input
    PROVE  IsList(Hash(input)) /\ Len(Hash(input)) = HashLen
<1>1. HashLen \in Nat
  BY SignFilesAssumption
<1>2. Hash(input) = [i \in 1..HashLen |-> Hash(input)[i]]
  BY DEF Hash
<1> QED
  BY <1>1, <1>2, ListMade

LEMMA DigestList ==
    ASSUME NEW format, NEW input, IsList(input)
    PROVE  IsList(Digest(format, input))
  BY HashList, ReverseList DEF Digest

(* What RSA signs: the DigestInfo and a hash.                              *)
RsaData(d) == d[1] = Prefix /\ Len(d) = 1 + HashLen

LEMMA RsaPrepared ==
    ASSUME NEW c, c.alg = "RSA", NEW input, IsList(input), Refused(c, input) = NONE
    PROVE  RsaData(Prepared(c, input))
<1> DEFINE d == Digest(c.format, input)
<1>1. c.format.word # "raw" /\ Len(d) = HashLen
  BY SignFilesAssumption DEF Refused, HasHashSize, Outcomes
<1>2. IsList(d)
  BY DigestList
<1>3. IsList(<<Prefix>>) /\ Len(<<Prefix>>) = 1
  <2>1. <<Prefix>> \in Seq({Prefix}) /\ Len(<<Prefix>>) = 1
    OBVIOUS
  <2> QED
    BY <2>1, SeqIsList
<1>4. Prepared(c, input) = <<Prefix>> \o d
  BY <1>1 DEF Prepared, Padded
<1>5. /\ Len(<<Prefix>> \o d) = 1 + HashLen
      /\ (<<Prefix>> \o d)[1] = <<Prefix>>[1]
  BY <1>1, <1>2, <1>3, ConcatList, SignFilesAssumption
<1> QED
  BY <1>4, <1>5 DEF RsaData

(* The order of a signature's cells, cell by cell.                         *)
LEMMA ReversedList ==
    ASSUME NEW c, c.little \in BOOLEAN, NEW s, IsList(s)
    PROVE  LET n == Len(s)
               half == n \div 2
           IN  /\ IsList(Reversed(c, s)) /\ Len(Reversed(c, s)) = n
               /\ \A i \in 1..n :
                     Reversed(c, s)[i] =
                        IF ~c.little THEN s[i]
                        ELSE IF c.alg # "EC" THEN s[n + 1 - i]
                        ELSE IF i <= half THEN s[half + 1 - i] ELSE s[n + half + 1 - i]
<1> DEFINE n == Len(s)
           half == n \div 2
           low == SubSeq(s, 1, half)
           high == SubSeq(s, half + 1, n)
<1>1. n \in Nat /\ half \in Nat /\ half <= n
  BY ListIs
<1>2. CASE ~c.little
  BY <1>1, <1>2 DEF Reversed
<1>3. CASE c.little /\ c.alg # "EC"
  BY <1>1, <1>3, ReverseList DEF Reversed
<1>4. CASE c.little /\ c.alg = "EC"
  <2>1. /\ IsList(low) /\ Len(low) = half
        /\ \A i \in 1..half : low[i] = s[i]
    <3>1. /\ IsList(SubSeq(s, 0 + 1, half)) /\ Len(SubSeq(s, 0 + 1, half)) = half - 0
          /\ \A i \in 1..(half - 0) : SubSeq(s, 0 + 1, half)[i] = s[0 + i]
      BY <1>1, PartOfList
    <3>2. 0 + 1 = 1 /\ half - 0 = half /\ \A i \in 1..half : 0 + i = i
      BY <1>1
    <3> QED
      BY <3>1, <3>2
  <2>2. /\ IsList(high) /\ Len(high) = n - half
        /\ \A i \in 1..(n - half) : high[i] = s[half + i]
    <3>1. n <= Len(s)
      BY <1>1
    <3> HIDE DEF half, n
    <3> QED
      BY <1>1, <3>1, PartOfList
  <2> HIDE DEF low, high
  <2>3. /\ IsList(Reverse(low)) /\ Len(Reverse(low)) = half
        /\ \A i \in 1..half : Reverse(low)[i] = low[half + 1 - i]
    BY <2>1, ReverseList
  <2>4. /\ IsList(Reverse(high)) /\ Len(Reverse(high)) = n - half
        /\ \A i \in 1..(n - half) : Reverse(high)[i] = high[n - half + 1 - i]
    BY <2>2, ReverseList
  <2>5. Reversed(c, s) = Reverse(low) \o Reverse(high)
    BY <1>4 DEF Reversed, low, high
  <2> DEFINE r == Reverse(low)
             t == Reverse(high)
  <2>6. /\ IsList(r \o t) /\ Len(r \o t) = half + (n - half)
        /\ \A i \in 1..(half + (n - half)) :
              (r \o t)[i] = IF i <= half THEN r[i] ELSE t[i - half]
    BY <2>3, <2>4, ConcatList
  <2> HIDE DEF r, t, half, n
  <2>7. ASSUME NEW i \in 1..n
        PROVE  (r \o t)[i] = IF i <= half THEN s[half + 1 - i] ELSE s[n + half + 1 - i]
    <3>1. CASE i <= half
      <4>1. half + 1 - i \in 1..half /\ i \in 1..half
        BY <1>1, <3>1
      <4> QED
        BY <1>1, <2>1, <2>3, <2>6, <3>1, <4>1 DEF r
    <3>2. CASE ~(i <= half)
      <4>1. /\ i - half \in 1..(n - half) /\ n - half + 1 - (i - half) \in 1..(n - half)
            /\ half + (n - half + 1 - (i - half)) = n + half + 1 - i
        BY <1>1, <3>2
      <4>2. (r \o t)[i] = t[i - half]
        BY <1>1, <2>6, <3>2
      <4>3. t[i - half] = high[n - half + 1 - (i - half)]
        BY <2>4, <4>1 DEF t
      <4>4. high[n - half + 1 - (i - half)] = s[half + (n - half + 1 - (i - half))]
        BY <2>2, <4>1
      <4> QED
        BY <3>2, <4>1, <4>2, <4>3, <4>4
    <3> QED
      BY <3>1, <3>2
  <2> QED
    BY <1>1, <1>4, <2>5, <2>6, <2>7 DEF r, t, n, half
<1> QED
  BY <1>2, <1>3, <1>4

(* Read in the same order again, a signature is what it was.               *)
LEMMA ReversedTwice ==
    ASSUME NEW c, c.little \in BOOLEAN, NEW s, IsList(s)
    PROVE  Reversed(c, Reversed(c, s)) = s
<1> DEFINE r == Reversed(c, s)
           n == Len(s)
           half == n \div 2
<1>1. n \in Nat /\ half \in Nat /\ half <= n
  BY ListIs
<1>2. /\ IsList(r) /\ Len(r) = n
      /\ \A i \in 1..n :
            r[i] = IF ~c.little THEN s[i]
                   ELSE IF c.alg # "EC" THEN s[n + 1 - i]
                   ELSE IF i <= half THEN s[half + 1 - i] ELSE s[n + half + 1 - i]
  BY ReversedList
<1> HIDE DEF r
<1>3. /\ IsList(Reversed(c, r)) /\ Len(Reversed(c, r)) = n
      /\ \A i \in 1..n :
            Reversed(c, r)[i] =
               IF ~c.little THEN r[i]
               ELSE IF c.alg # "EC" THEN r[n + 1 - i]
               ELSE IF i <= half THEN r[half + 1 - i] ELSE r[n + half + 1 - i]
  BY <1>2, ReversedList
<1> HIDE DEF n, half
<1>4. ASSUME NEW i \in 1..n
      PROVE  Reversed(c, r)[i] = s[i]
  <2>1. CASE ~c.little
    BY <1>2, <1>3, <2>1
  <2>2. CASE c.little /\ c.alg # "EC"
    <3>1. n + 1 - i \in 1..n /\ n + 1 - (n + 1 - i) = i
      BY <1>1
    <3> QED
      BY <1>2, <1>3, <2>2, <3>1
  <2>3. CASE c.little /\ c.alg = "EC" /\ i <= half
    <3>1. /\ half + 1 - i \in 1..n /\ half + 1 - i <= half
          /\ half + 1 - (half + 1 - i) = i
      BY <1>1, <2>3
    <3> QED
      BY <1>2, <1>3, <2>3, <3>1
  <2>4. CASE c.little /\ c.alg = "EC" /\ ~(i <= half)
    <3>1. /\ n + half + 1 - i \in 1..n /\ ~(n + half + 1 - i <= half)
          /\ n + half + 1 - (n + half + 1 - i) = i
      BY <1>1, <2>4
    <3> QED
      BY <1>2, <1>3, <2>4, <3>1
  <2> QED
    BY <2>1, <2>2, <2>3, <2>4
<1> QED
  BY <1>3, <1>4, ListEqual DEF r, n
-----------------------------------------------------------------------------
(* What holds whether the processes lock or not.                           *)

(* The places at which a command has its format, signs, or has signed.     *)
Parsed  == PCs \ {"idle", "parse", "done"}
Signed  == {"output", "again", "update", "written"}
Signing == Signed \cup {"sign"}

Place(p) ==
    LET c == cmd[p]
    IN  /\ pc[p] # "idle" => c \in Requests
        /\ pc[p] \in Parsed => /\ c.format.word \notin BadWords
                               /\ IsSlice(c.format) => c.format.from < c.format.to
        /\ pc[p] \in Signing => c.op = "sign"
        /\ pc[p] \in {"signature", "verify"} => c.op = "verify"
        /\ pc[p] = "sign" /\ c.alg = "RSA" => RsaData(data[p])
        /\ pc[p] \in Signed => result[p] = Reversed(c, Signature(c, data[p]))
        /\ pc[p] = "output" => c.output # NONE
        /\ pc[p] \in {"again", "update", "written"} => c.range # NONE
        /\ pc[p] \in {"update", "written"} =>
              IsList(copy[p]) /\ Len(copy[p]) = Len(Files[Image])
        /\ pc[p] = "done" /\ reply[p] = "ok" /\ c.op = "verify" =>
              result[p] = Signature(c, data[p])

(* Each process has its entries, and each file a content.                  *)
Shape ==
    /\ DOMAIN data = Procs /\ DOMAIN result = Procs /\ DOMAIN copy = Procs
    /\ DOMAIN before = Procs
    /\ \A f \in DOMAIN Files : IsList(files[f])

(* What a signature shows of its making.                                   *)
Honest(m) ==
    /\ m.sig[1].mechanism = "RSA" => RsaData(m.sig[1].data)
    /\ m.sig[1].mechanism \in Domains => m.domain = m.sig[1].mechanism

DataInv ==
    /\ TypeOK /\ Shape
    /\ \A p \in Procs : Place(p)
    /\ \A m \in made : Honest(m)

(* A command stays where it is, whatever the others do.                    *)
LEMMA PlaceElsewhere ==
    ASSUME NEW q, Place(q), pc'[q] = pc[q], cmd'[q] = cmd[q], data'[q] = data[q],
           result'[q] = result[q], copy'[q] = copy[q], reply'[q] = reply[q]
    PROVE  Place(q)'
  BY DEF Place

(* A step of p leaves the entries of the others alone.                     *)
OnlyOf(p) ==
    \A q \in Procs \ {p} :
        /\ pc'[q] = pc[q] /\ cmd'[q] = cmd[q] /\ data'[q] = data[q]
        /\ result'[q] = result[q] /\ copy'[q] = copy[q] /\ reply'[q] = reply[q]
        /\ before'[q] = before[q]

Step(p) ==
    \/ Start(p) \/ Parse(p) \/ Finish(p) \/ Fails(p)
    \/ FindKey(p) \/ ReadInput(p)
    \/ SignData(p) \/ WriteOutput(p) \/ ReadAgain(p) \/ Truncate(p)
    \/ Fill(p) \/ WriteFails(p)
    \/ ReadSignature(p) \/ VerifyData(p)

LEMMA OwnEntries ==
    ASSUME DataInv, NEW p \in Procs, Step(p)
    PROVE  OnlyOf(p)
<1> USE DEF OnlyOf, DataInv, TypeOK, Shape, Goto, Answer, Works, client
<1>1. CASE Start(p)
  BY <1>1 DEF Start
<1>2. CASE Parse(p)
  BY <1>2 DEF Parse
<1>3. CASE Finish(p)
  BY <1>3 DEF Finish
<1>4. CASE Fails(p)
  BY <1>4 DEF Fails
<1>5. CASE FindKey(p)
  BY <1>5 DEF FindKey
<1>6. CASE ReadInput(p)
  BY <1>6 DEF ReadInput
<1>7. CASE SignData(p)
  BY <1>7 DEF SignData
<1>8. CASE WriteOutput(p)
  BY <1>8 DEF WriteOutput
<1>9. CASE ReadAgain(p)
  BY <1>9 DEF ReadAgain
<1>10. CASE Truncate(p)
  BY <1>10 DEF Truncate
<1>11. CASE Fill(p)
  BY <1>11 DEF Fill
<1>12. CASE WriteFails(p)
  BY <1>12 DEF WriteFails
<1>13. CASE ReadSignature(p)
  BY <1>13 DEF ReadSignature
<1>14. CASE VerifyData(p)
  BY <1>14 DEF VerifyData
<1> QED
  BY <1>1, <1>2, <1>3, <1>4, <1>5, <1>6, <1>7, <1>8, <1>9, <1>10, <1>11, <1>12,
     <1>13, <1>14 DEF Step

(* What is left to show of a step that makes no signature.                 *)
LEMMA DataStep ==
    ASSUME DataInv, NEW p \in Procs, Step(p), made' = made,
           TypeOK', Shape', Place(p)'
    PROVE  DataInv'
<1>1. \A q \in Procs : Place(q)'
  BY OwnEntries, PlaceElsewhere DEF OnlyOf, DataInv
<1>2. \A m \in made' : Honest(m)
  BY DEF DataInv
<1> QED
  BY <1>1, <1>2 DEF DataInv

(* Of these also no file is written, and no result or copy made.           *)
LEMMA SmallSteps ==
    ASSUME DataInv, NEW p \in Procs,
           Start(p) \/ Parse(p) \/ Finish(p) \/ Fails(p) \/ FindKey(p) \/ VerifyData(p)
    PROVE  DataInv'
<1> USE SignFilesAssumption DEF DataInv, TypeOK, Shape, Goto, Answer, Works, client, PCs,
        Outcomes
<1>1. CASE Start(p)
  <2>1. TypeOK' /\ Shape'
    BY <1>1 DEF Start
  <2>2. Place(p)'
    BY <1>1 DEF Start, Place, Parsed, Signed, Signing
  <2> QED
    BY <1>1, <2>1, <2>2, DataStep DEF Start, Step
<1>2. CASE Parse(p)
  <2>1. TypeOK' /\ Shape'
    BY <1>2 DEF Parse
  <2>2. Place(p)'
    BY <1>2 DEF Parse, Place, Parsed, Signed, Signing
  <2> QED
    BY <1>2, <2>1, <2>2, DataStep DEF Parse, Step
<1>3. CASE Finish(p)
  <2>1. TypeOK' /\ Shape'
    BY <1>3 DEF Finish
  <2>2. Place(p)'
    BY <1>3 DEF Finish, Place, Parsed, Signed, Signing
  <2> QED
    BY <1>3, <2>1, <2>2, DataStep DEF Finish, Step
<1>4. CASE Fails(p)
  <2>1. TypeOK' /\ Shape'
    BY <1>4 DEF Fails
  <2>2. Place(p)'
    BY <1>4 DEF Fails, Place, Parsed, Signed, Signing
  <2> QED
    BY <1>4, <2>1, <2>2, DataStep DEF Fails, Step
<1>5. CASE FindKey(p)
  <2>1. TypeOK' /\ Shape'
    BY <1>5 DEF FindKey
  <2>2. Place(p)'
    BY <1>5 DEF FindKey, Place, Parsed, Signed, Signing
  <2> QED
    BY <1>5, <2>1, <2>2, DataStep DEF FindKey, Step
<1>6. CASE VerifyData(p)
  <2>1. TypeOK' /\ Shape'
    BY <1>6 DEF VerifyData
  <2>2. Place(p)'
    BY <1>6 DEF VerifyData, Place, Parsed, Signed, Signing
  <2> QED
    BY <1>6, <2>1, <2>2, DataStep DEF VerifyData, Step
<1> QED
  BY <1>1, <1>2, <1>3, <1>4, <1>5, <1>6

LEMMA ReadInputStep ==
    ASSUME DataInv, NEW p \in Procs, ReadInput(p)
    PROVE  DataInv'
<1> USE SignFilesAssumption DEF DataInv, TypeOK, Shape, Goto, Answer, Works, PCs, Outcomes
<1>1. Refused(cmd[p], files[cmd[p].input]) \in
        {NONE, "Panic", "Unsupported", "HashSizeError"}
  BY DEF Refused
<1>2. TypeOK' /\ Shape'
  BY <1>1 DEF ReadInput
<1>3. /\ cmd[p] \in Requests /\ cmd[p].op \in {"sign", "verify"}
      /\ IsList(files[cmd[p].input])
  BY RequestsAssumption DEF ReadInput, Place
<1>4. Refused(cmd[p], files[cmd[p].input]) = NONE /\ cmd[p].alg = "RSA" =>
        RsaData(Prepared(cmd[p], files[cmd[p].input]))
  BY <1>3, RsaPrepared
<1>5. Place(p)'
  BY <1>1, <1>3, <1>4 DEF ReadInput, Place, Parsed, Signed, Signing
<1> QED
  BY <1>2, <1>5, DataStep DEF ReadInput, Step

(* A signature in either order has SigLen cells.                           *)
LEMMA ResultLength ==
    ASSUME DataInv, NEW p \in Procs, pc[p] \in Signed
    PROVE  IsList(result[p]) /\ Len(result[p]) = SigLen
<1>1. result[p] = Reversed(cmd[p], Signature(cmd[p], data[p])) /\ cmd[p].little \in BOOLEAN
  BY RequestsAssumption DEF DataInv, Place, Signed
<1> QED
  BY <1>1, SignatureList, ReversedList

LEMMA SignDataStep ==
    ASSUME DataInv, NEW p \in Procs, SignData(p)
    PROVE  DataInv'
<1> DEFINE c == cmd[p]
           sig == Signature(c, data[p])
           m == [sig |-> sig, domain |-> c.domain]
<1>1. /\ c \in Requests /\ c.little \in BOOLEAN /\ c.alg \in Algs /\ c.domain \in Domains
      /\ c.op = "sign"
  BY RequestsAssumption DEF SignData, DataInv, Place, Signing
<1>2. IsList(Reversed(c, sig)) /\ Len(Reversed(c, sig)) = SigLen
  BY <1>1, SignatureList, ReversedList
<1>3. TypeOK'
  BY <1>2 DEF SignData, Goto, DataInv, TypeOK, Shape, PCs, Outcomes
<1>4. Shape'
  BY DEF SignData, Goto, DataInv, TypeOK, Shape
<1>5. Place(p)'
  BY <1>1 DEF SignData, Goto, DataInv, TypeOK, Shape, Place, PCs, Parsed, Signed, Signing
<1>6. \A q \in Procs : Place(q)'
  BY <1>5, OwnEntries, PlaceElsewhere DEF OnlyOf, DataInv, Step
<1>7. Honest(m)
  <2>1. sig[1].mechanism = Mechanism(c) /\ sig[1].data = data[p]
    BY SignatureList, SignFilesAssumption
  <2>2. Mechanism(c) = "RSA" => c.alg = "RSA"
    BY <1>1 DEF Mechanism, Domains
  <2>3. Mechanism(c) \in Domains => c.domain = Mechanism(c)
    BY <1>1 DEF Mechanism, Domains, Algs
  <2>4. c.alg = "RSA" => RsaData(data[p])
    BY DEF SignData, DataInv, Place
  <2> HIDE DEF sig, c
  <2> QED
    BY <2>1, <2>2, <2>3, <2>4 DEF Honest
<1>8. \A n \in made' : Honest(n)
  BY <1>7 DEF SignData, DataInv
<1> QED
  BY <1>3, <1>4, <1>6, <1>8 DEF DataInv

LEMMA FileSteps ==
    ASSUME DataInv, NEW p \in Procs,
           WriteOutput(p) \/ Truncate(p) \/ Fill(p) \/ WriteFails(p)
    PROVE  DataInv'
<1> USE SignFilesAssumption DEF DataInv, TypeOK, Shape, Goto, Answer, Works, client, PCs,
        Outcomes
<1>1. cmd[p] \in Requests /\ cmd[p].op = "sign"
  BY DEF Place, WriteOutput, Truncate, Fill, WriteFails, Signing, Signed
<1>2. CASE WriteOutput(p)
  <2>1. cmd[p].output \in DOMAIN Files \ {Image}
    BY <1>1, <1>2, RequestsAssumption DEF Place, WriteOutput
  <2>2. IsList(result[p]) /\ Len(result[p]) = SigLen
    BY <1>2, ResultLength DEF WriteOutput, Signed
  <2>3. TypeOK' /\ Shape'
    BY <1>2, <2>1, <2>2 DEF WriteOutput
  <2>4. Place(p)'
    BY <1>1, <1>2 DEF WriteOutput, Place, Parsed, Signed, Signing
  <2> QED
    BY <1>2, <2>3, <2>4, DataStep DEF WriteOutput, Step
<1>3. CASE Truncate(p)
  <2>1. TypeOK' /\ Shape'
    BY <1>1, <1>3, EmptyList, RequestsAssumption DEF Truncate
  <2>2. Place(p)'
    BY <1>1, <1>3 DEF Truncate, Place, Parsed, Signed, Signing
  <2> QED
    BY <1>3, <2>1, <2>2, DataStep DEF Truncate, Step
<1>4. CASE Fill(p)
  <2>1. IsList(copy[p]) /\ Len(copy[p]) = Len(Files[Image])
    BY <1>4 DEF Fill, Place
  <2>2. TypeOK' /\ Shape'
    BY <1>1, <1>4, <2>1 DEF Fill
  <2>3. Place(p)'
    BY <1>1, <1>4 DEF Fill, Place, Parsed, Signed, Signing
  <2> QED
    BY <1>4, <2>2, <2>3, DataStep DEF Fill, Step
<1>5. CASE WriteFails(p)
  <2>1. TypeOK' /\ Shape'
    BY <1>5 DEF WriteFails
  <2>2. Place(p)'
    BY <1>5 DEF WriteFails, Place, Parsed, Signed, Signing
  <2> QED
    BY <1>5, <2>1, <2>2, DataStep DEF WriteFails, Step
<1> QED
  BY <1>2, <1>3, <1>4, <1>5

LEMMA PatchedList ==
    ASSUME NEW content, IsList(content), NEW range, NEW sig
    PROVE  IsList(Patched(content, range, sig)) /\ Len(Patched(content, range, sig)) = Len(content)
<1>1. Len(content) \in Nat
  BY ListIs
<1>2. Patched(content, range, sig) =
        [i \in 1..Len(content) |-> Patched(content, range, sig)[i]]
  BY DEF Patched
<1> QED
  BY <1>1, <1>2, ListMade

(* A range as long as a signature does not fit into an empty file.         *)
LEMMA FitsOnlyWhole ==
    ASSUME DataInv, NEW p \in Procs, pc[p] = "again",
           InFile(cmd[p].range, files[cmd[p].input]),
           cmd[p].range.to - cmd[p].range.from = Len(result[p])
    PROVE  /\ cmd[p].input = Image /\ IsList(files[Image])
           /\ Len(files[Image]) = Len(Files[Image])
<1>1. /\ cmd[p] \in Requests /\ cmd[p].op = "sign" /\ cmd[p].range # NONE
      /\ Len(result[p]) = SigLen
  BY DEF DataInv, TypeOK, Place, Signing, Signed
<1>2. /\ cmd[p].input = Image /\ cmd[p].range.from \in Nat /\ cmd[p].range.to \in Nat
  BY <1>1, RequestsAssumption
<1>3. IsList(files[Image])
  BY SignFilesAssumption DEF DataInv, Shape
<1>4. cmd[p].range.to \in Nat \ {0}
  BY <1>1, <1>2, SignFilesAssumption
<1>5. files[Image] # <<>>
  BY <1>2, <1>3, <1>4, EmptyList DEF InFile
<1> QED
  BY <1>2, <1>3, <1>5 DEF DataInv, TypeOK

LEMMA ReadAgainStep ==
    ASSUME DataInv, NEW p \in Procs, ReadAgain(p)
    PROVE  DataInv'
<1> USE SignFilesAssumption DEF DataInv, TypeOK, Shape, Goto, Answer, Works, PCs, Outcomes
<1>1. TypeOK' /\ Shape'
  BY DEF ReadAgain
<1>2. cmd[p] \in Requests /\ cmd[p].op = "sign"
  BY DEF ReadAgain, Place, Signing, Signed
<1>3. CASE pc'[p] = "done"
  <2>1. reply'[p] # "ok"
    BY <1>3 DEF ReadAgain
  <2>2. Place(p)'
    BY <1>2, <1>3, <2>1 DEF ReadAgain, Place, Parsed, Signed, Signing
  <2> QED
    BY <1>1, <2>2, DataStep DEF ReadAgain, Step
<1>4. CASE pc'[p] # "done"
  <2>1. /\ pc[p] = "again" /\ InFile(cmd[p].range, files[cmd[p].input])
        /\ cmd[p].range.to - cmd[p].range.from = Len(result[p])
        /\ copy' = [copy EXCEPT ![p] = Patched(files[cmd[p].input], cmd[p].range, result[p])]
        /\ pc' = [pc EXCEPT ![p] = "update"] /\ reply' = reply
    BY <1>4 DEF ReadAgain
  <2>2. IsList(files[cmd[p].input]) /\ Len(files[cmd[p].input]) = Len(Files[Image])
    BY <2>1, FitsOnlyWhole
  <2>3. IsList(copy'[p]) /\ Len(copy'[p]) = Len(Files[Image])
    BY <2>1, <2>2, PatchedList
  <2>4. /\ cmd' = cmd /\ data' = data /\ result' = result
    BY DEF ReadAgain
  <2>5. Place(p)'
    BY <1>2, <2>1, <2>3, <2>4 DEF Place, Parsed, Signed, Signing
  <2> QED
    BY <1>1, <2>5, DataStep DEF ReadAgain, Step
<1> QED
  BY <1>3, <1>4

LEMMA ReadSignatureStep ==
    ASSUME DataInv, NEW p \in Procs, ReadSignature(p)
    PROVE  DataInv'
<1> USE SignFilesAssumption DEF DataInv, TypeOK, Shape, Goto, Answer, Works, PCs, Outcomes
<1>1. TypeOK' /\ Shape'
  BY DEF ReadSignature
<1>2. Place(p)'
  BY DEF ReadSignature, Place, Parsed, Signed, Signing
<1> QED
  BY <1>1, <1>2, DataStep DEF ReadSignature, Step

-----------------------------------------------------------------------------
(* Whatever the processes do, locked or not, the data that is prepared and *)
(* the signatures that are made stay right.                                *)
THEOREM DataHeld == Spec => []DataInv
<1>1. Init => DataInv
  BY SignFilesAssumption
     DEF Init, DataInv, TypeOK, Shape, Place, PCs, Outcomes, Parsed, Signed, Signing
<1>2. DataInv /\ [Next]_vars => DataInv'
  <2> SUFFICES ASSUME DataInv, [Next]_vars
               PROVE  DataInv'
    OBVIOUS
  <2>1. CASE UNCHANGED vars
    BY <2>1 DEF vars, client, DataInv, TypeOK, Shape, Place
  <2>2. CASE Next
    <3>1. PICK p \in Procs : Step(p)
      BY <2>2 DEF Next, Step
    <3> QED
      BY <3>1, SmallSteps, ReadInputStep, SignDataStep, FileSteps, ReadAgainStep,
         ReadSignatureStep DEF Step
  <2> QED
    BY <2>1, <2>2
<1> QED
  BY <1>1, <1>2, PTL DEF Spec

(* Files, processes and answers keep their types; in particular the image  *)
(* is as long as it was or empty, whichever commands wrote it.             *)
THEOREM TypeHeld == Spec => []TypeOK
<1>1. DataInv => TypeOK
  BY DEF DataInv
<1> QED
  BY <1>1, DataHeld, PTL

(* SignData::prepare and pkcs15sign: no RSA signature is over anything but *)
(* the DigestInfo of a hash.                                               *)
THEOREM OnlyHashesRsaSigned == Spec => []RsaSignsHashes
<1>1. DataInv => RsaSignsHashes
  BY DEF DataInv, Honest, RsaSignsHashes, RsaData
<1> QED
  BY <1>1, DataHeld, PTL

(* slh_dsa_mechanism: a signature that verifies was made in the domain it  *)
(* verifies in.                                                            *)
THEOREM DomainsStayApart == Spec => []DomainsApart
<1>1. ASSUME DataInv
      PROVE  DomainsApart
  <2> SUFFICES ASSUME NEW p \in Procs, pc[p] = "done", cmd[p].op = "verify",
                      reply[p] = "ok", cmd[p].alg = "SLH-DSA",
                      NEW m \in made, m.sig = result[p]
               PROVE  m.domain = cmd[p].domain
    BY DEF DomainsApart
  <2>1. m.sig = Signature(cmd[p], data[p]) /\ cmd[p].domain \in Domains
    BY <1>1, RequestsAssumption DEF DataInv, Place
  <2>2. m.sig[1].mechanism = cmd[p].domain
    BY <2>1, SignatureList, SignFilesAssumption DEF Mechanism
  <2> QED
    BY <1>1, <2>1, <2>2 DEF DataInv, Honest
<1> QED
  BY <1>1, DataHeld, PTL
-----------------------------------------------------------------------------
(* The image, when every process locks.                                    *)

(* What is put into a range can be read there.                             *)
LEMMA PatchedThere ==
    ASSUME NEW content, IsList(content), NEW range,
           range.from \in Nat, range.to \in Nat, InFile(range, content),
           NEW sig, IsList(sig), Len(sig) = range.to - range.from
    PROVE  Sliced(range, Patched(content, range, sig)) = sig
<1> DEFINE new == Patched(content, range, sig)
           m == range.from
           n == range.to
           t == SubSeq(new, m + 1, n)
<1>1. Len(content) \in Nat /\ IsList(new) /\ Len(new) = Len(content)
  BY ListIs, PatchedList
<1>2. m <= n /\ n <= Len(content)
  BY DEF InFile
<1>3. \A i \in m + 1 .. n : new[i] = sig[i - m]
  BY <1>1, <1>2 DEF Patched
<1> HIDE DEF new
<1>4. IsList(t) /\ Len(t) = n - m /\ \A i \in 1..(n - m) : t[i] = new[m + i]
  BY <1>1, <1>2, PartOfList
<1>5. ASSUME NEW i \in 1..(n - m)
      PROVE  t[i] = sig[i]
  <2>1. m + i \in m + 1 .. n /\ (m + i) - m = i
    OBVIOUS
  <2> QED
    BY <1>3, <1>4, <2>1
<1>6. t = sig
  <2> HIDE DEF t, m, n
  <2> QED
    BY <1>4, <1>5, ListEqual DEF m, n
<1> QED
  BY <1>6 DEF Sliced, new

(* And what lies apart from the range is as it was.                        *)
LEMMA PatchedElsewhere ==
    ASSUME NEW content, IsList(content), NEW range,
           range.from \in Nat, range.to \in Nat, NEW sig,
           NEW other, other.from \in Nat, other.to \in Nat, InFile(other, content),
           ~Overlap(other, range)
    PROVE  Sliced(other, Patched(content, range, sig)) = Sliced(other, content)
<1> DEFINE new == Patched(content, range, sig)
           m == other.from
           n == other.to
           s == SubSeq(content, m + 1, n)
           t == SubSeq(new, m + 1, n)
<1>1. Len(content) \in Nat /\ IsList(new) /\ Len(new) = Len(content)
  BY ListIs, PatchedList
<1>2. m <= n /\ n <= Len(content)
  BY DEF InFile
<1>3. \A i \in m + 1 .. n : new[i] = content[i]
  BY <1>1, <1>2 DEF Patched, Overlap
<1> HIDE DEF new
<1>4. IsList(t) /\ Len(t) = n - m /\ \A i \in 1..(n - m) : t[i] = new[m + i]
  BY <1>1, <1>2, PartOfList
<1>5. IsList(s) /\ Len(s) = n - m /\ \A i \in 1..(n - m) : s[i] = content[m + i]
  BY <1>1, <1>2, PartOfList
<1>6. ASSUME NEW i \in 1..(n - m)
      PROVE  t[i] = s[i]
  <2>1. m + i \in m + 1 .. n
    OBVIOUS
  <2> QED
    BY <1>3, <1>4, <1>5, <2>1
<1>7. t = s
  <2> HIDE DEF s, t, m, n
  <2> QED
    BY <1>4, <1>5, <1>6, ListEqual
<1> QED
  BY <1>7 DEF Sliced, new

(* What is made of a slice depends on the slice only.                      *)
LEMMA SliceDecides ==
    ASSUME NEW c, IsSlice(c.format), NEW s, NEW t, Len(s) = Len(t),
           Sliced(c.format, s) = Sliced(c.format, t)
    PROVE  Prepared(c, s) = Prepared(c, t) /\ Refused(c, s) = Refused(c, t)
<1>1. Digest(c.format, s) = Digest(c.format, t)
  BY DEF Digest, Text
<1>2. InDomain(c.domain, c.format, s) = InDomain(c.domain, c.format, t)
  BY DEF InDomain, Text
<1>3. Panics(c.format, s) <=> Panics(c.format, t)
  BY DEF Panics, InFile
<1>4. c.format.word # "raw"
  BY DEF IsSlice
<1> QED
  BY <1>1, <1>2, <1>3, <1>4 DEF Prepared, Refused

(* The commands in claims sign a slice.                                    *)
Claimed(d) == d \in Requests /\ d.range # NONE /\ IsSlice(d.format)

(* A signature goes on verifying when another is put beside it.            *)
LEMMA StillVerifies ==
    ASSUME NEW d, Claimed(d), NEW content, IsList(content), WouldVerify(d, content),
           NEW range, range.from \in Nat, range.to \in Nat, NEW sig,
           ~Overlap(d.range, range), ~Overlap(d.format, range)
    PROVE  WouldVerify(d, Patched(content, range, sig))
<1> DEFINE new == Patched(content, range, sig)
<1>1. /\ d.range.from \in Nat /\ d.range.to \in Nat
      /\ d.format.from \in Nat /\ d.format.to \in Nat
  BY RequestsAssumption DEF Claimed
<1>2. Len(new) = Len(content)
  BY PatchedList
<1>3. /\ InFile(d.range, content) /\ Refused(d, content) = NONE
      /\ Reversed(d, Sliced(d.range, content)) = Signature(d, Prepared(d, content))
  BY DEF WouldVerify
<1>4. InFile(d.format, content)
  BY <1>3, SignFilesAssumption DEF Refused, Panics, Claimed, Outcomes
<1>5. Sliced(d.range, new) = Sliced(d.range, content)
  BY <1>1, <1>3, PatchedElsewhere
<1>6. Sliced(d.format, new) = Sliced(d.format, content)
  BY <1>1, <1>4, PatchedElsewhere
<1> HIDE DEF new
<1>7. Prepared(d, new) = Prepared(d, content) /\ Refused(d, new) = Refused(d, content)
  BY <1>2, <1>6, SliceDecides DEF Claimed
<1>8. InFile(d.range, new)
  BY <1>2, <1>3 DEF InFile
<1>9. WouldVerify(d, new)
  BY <1>3, <1>5, <1>7, <1>8 DEF WouldVerify
<1> QED
  BY <1>9 DEF new

(* The signature itself verifies where it was put, over a slice beside it. *)
LEMMA NewlyVerifies ==
    ASSUME NEW c, Claimed(c), NEW content, IsList(content), Refused(c, content) = NONE,
           InFile(c.range, content), c.range.to - c.range.from = SigLen,
           ~Overlap(c.format, c.range)
    PROVE  WouldVerify(c, Patched(content, c.range,
                            Reversed(c, Signature(c, Prepared(c, content)))))
<1> DEFINE made1 == Signature(c, Prepared(c, content))
           sig == Reversed(c, made1)
           new == Patched(content, c.range, sig)
<1>1. /\ c.range.from \in Nat /\ c.range.to \in Nat /\ c.little \in BOOLEAN
      /\ c.format.from \in Nat /\ c.format.to \in Nat
  BY RequestsAssumption DEF Claimed
<1>2. Len(new) = Len(content)
  BY PatchedList
<1>3. IsList(made1) /\ Len(made1) = SigLen
  BY SignatureList
<1> HIDE DEF made1
<1>4. IsList(sig) /\ Len(sig) = SigLen
  BY <1>1, <1>3, ReversedList
<1>5. Reversed(c, sig) = made1
  BY <1>1, <1>3, ReversedTwice
<1> HIDE DEF sig
<1>6. Sliced(c.range, new) = sig
  BY <1>1, <1>4, PatchedThere
<1>7. InFile(c.format, content)
  BY SignFilesAssumption DEF Refused, Panics, Claimed, Outcomes
<1>8. Sliced(c.format, new) = Sliced(c.format, content)
  BY <1>1, <1>7, PatchedElsewhere
<1> HIDE DEF new
<1>9. Prepared(c, new) = Prepared(c, content) /\ Refused(c, new) = Refused(c, content)
  BY <1>2, <1>8, SliceDecides DEF Claimed
<1>10. InFile(c.range, new)
  BY <1>2 DEF InFile
<1>11. Reversed(c, Sliced(c.range, new)) = Signature(c, Prepared(c, new))
  BY <1>5, <1>6, <1>9 DEF made1
<1>12. WouldVerify(c, new)
  BY <1>9, <1>10, <1>11 DEF WouldVerify
<1> QED
  BY <1>12 DEF new, sig, made1
-----------------------------------------------------------------------------
(* Only the holder of the lock is anywhere.                                *)
Exclusive == \A p \in Procs : pc[p] # "idle" => holder = p

(* What the command of a process goes by: the image it began with, what it *)
(* prepared of it, and the copy it is about to write.                      *)
ImageOf(p) ==
    LET c == cmd[p]
    IN  /\ pc[p] # "idle" => IsList(before[p])
        /\ pc[p] \notin {"idle", "written", "done"} => files[Image] = before[p]
        /\ pc[p] = "done" /\ reply[p] \notin {"ok", "WriteError"} =>
              files[Image] = before[p]
        /\ pc[p] \in Signing /\ c.range # NONE =>
              Refused(c, before[p]) = NONE /\ data[p] = Prepared(c, before[p])
        /\ pc[p] \in {"update", "written"} =>
              /\ InFile(c.range, before[p]) /\ c.range.to - c.range.from = SigLen
              /\ copy[p] = Patched(before[p], c.range, result[p])
        /\ pc[p] = "written" => \A d \in claims : WouldVerify(d, before[p])

ImageInv ==
    /\ DataInv /\ Exclusive
    /\ \A p \in Procs : ImageOf(p)
    /\ \A d \in claims : Claimed(d)
    /\ SignedImageVerifies

(* While one process runs, the others are idle, and stay so.               *)
LEMMA OthersIdle ==
    ASSUME Locking, ImageInv, NEW p \in Procs, Step(p)
    PROVE  /\ \A q \in Procs \ {p} : pc[q] = "idle" /\ pc'[q] = "idle"
           /\ Exclusive'
<1>1. \A q \in Procs \ {p} : pc'[q] = pc[q]
  BY OwnEntries DEF OnlyOf, ImageInv
<1>2. CASE Start(p)
  <2>1. holder = NONE /\ holder' = p
    BY <1>2 DEF Start
  <2>2. \A q \in Procs : pc[q] = "idle"
    BY <2>1, SignFilesAssumption DEF ImageInv, Exclusive
  <2> QED
    BY <1>1, <2>1, <2>2 DEF Exclusive
<1>3. CASE ~Start(p)
  <2>1. pc[p] # "idle"
    BY <1>3 DEF Step, Parse, Finish, Fails, FindKey, ReadInput, SignData, WriteOutput,
       ReadAgain, Truncate, Fill, WriteFails, ReadSignature, VerifyData
  <2>2. holder = p
    BY <2>1 DEF ImageInv, Exclusive
  <2>3. \A q \in Procs \ {p} : pc[q] = "idle"
    BY <2>2 DEF ImageInv, Exclusive
  <2>4. holder' = p \/ pc'[p] = "idle"
    <3>1. CASE Finish(p)
      BY <3>1 DEF Finish, Goto, ImageInv, DataInv, TypeOK
    <3>2. CASE ~Finish(p)
      BY <1>3, <2>2, <3>2 DEF Step, Parse, Fails, FindKey, ReadInput, SignData,
         WriteOutput, ReadAgain, Truncate, Fill, WriteFails, ReadSignature, VerifyData,
         Works
    <3> QED
      BY <3>1, <3>2
  <2> QED
    BY <1>1, <2>3, <2>4 DEF Exclusive
<1> QED
  BY <1>2, <1>3

(* What is left to show of a step: what p goes by, and what is claimed.    *)
LEMMA ImageStep ==
    ASSUME Locking, ImageInv, NEW p \in Procs, Step(p), DataInv',
           ImageOf(p)', \A d \in claims' : Claimed(d),
           pc'[p] # "written" => \A d \in claims' : WouldVerify(d, files'[Image])
    PROVE  ImageInv'
<1>1. \A q \in Procs : ImageOf(q)'
  BY OthersIdle DEF ImageOf, Signing, Signed
<1>2. SignedImageVerifies'
  BY DEF SignedImageVerifies
<1> QED
  BY <1>1, <1>2, OthersIdle DEF ImageInv

(* Before p writes, what is claimed holds of the image.                    *)
LEMMA ClaimsNow ==
    ASSUME Locking, ImageInv, NEW p \in Procs, Step(p), pc[p] # "written"
    PROVE  \A d \in claims : WouldVerify(d, files[Image])
  BY OthersIdle DEF ImageInv, SignedImageVerifies

(* The steps that write no file, and those that give a claim up.           *)
LEMMA QuietSteps ==
    ASSUME Locking, ImageInv, NEW p \in Procs, DataInv',
           \/ Start(p) \/ Parse(p) \/ Finish(p) \/ Fails(p) \/ FindKey(p)
           \/ WriteFails(p) \/ ReadSignature(p) \/ VerifyData(p)
    PROVE  ImageInv'
<1> USE DEF Goto, Answer, Works, client
<1>1. /\ DOMAIN before = Procs /\ pc \in [Procs -> PCs] /\ reply \in [Procs -> Outcomes \cup {NONE}]
      /\ IsList(files[Image]) /\ \A d \in claims : Claimed(d)
      /\ ImageOf(p) /\ Step(p)
  BY SignFilesAssumption DEF ImageInv, DataInv, TypeOK, Shape, Step
<1>2. files' = files /\ claims' \in {claims, {}} /\ (pc[p] = "written" => claims' = {})
  BY DEF Start, Parse, Finish, Fails, FindKey, WriteFails, ReadSignature, VerifyData
<1>3. \A d \in claims' : WouldVerify(d, files'[Image])
  BY <1>1, <1>2, ClaimsNow
<1>4. ImageOf(p)'
  <2>1. CASE Start(p)
    BY <1>1, <2>1 DEF Start, ImageOf, Signing, Signed
  <2>2. CASE Finish(p)
    BY <1>1, <2>2 DEF Finish, ImageOf, Signing, Signed
  <2>3. CASE WriteFails(p)
    BY <1>1, <2>3 DEF WriteFails, ImageOf, Signing, Signed
  <2>4. CASE Parse(p) \/ Fails(p) \/ FindKey(p) \/ ReadSignature(p) \/ VerifyData(p)
    <3>1. /\ before' = before /\ files' = files
          /\ pc[p] \notin {"idle", "written", "done"}
          /\ pc'[p] \in {"find", "read", "verify", "done"}
      BY <1>1, <2>4 DEF Parse, Fails, FindKey, ReadSignature, VerifyData
    <3> QED
      BY <1>1, <3>1 DEF ImageOf, Signing, Signed
  <2> QED
    BY <2>1, <2>2, <2>3, <2>4
<1> QED
  BY <1>1, <1>2, <1>3, <1>4, ImageStep

LEMMA ReadInputImage ==
    ASSUME Locking, ImageInv, NEW p \in Procs, DataInv', ReadInput(p)
    PROVE  ImageInv'
<1> DEFINE c == cmd[p]
<1>1. /\ pc \in [Procs -> PCs] /\ DOMAIN data = Procs /\ ImageOf(p) /\ Step(p)
      /\ c \in Requests /\ pc[p] = "read" /\ \A d \in claims : Claimed(d)
      /\ files' = files /\ claims' = claims /\ before' = before /\ cmd' = cmd
  BY DEF ImageInv, DataInv, TypeOK, Shape, Place, ReadInput, Works, Step
<1>2. files[Image] = before[p] /\ IsList(before[p])
  BY <1>1 DEF ImageOf
<1>3. CASE pc'[p] = "sign"
  <2>1. /\ c.op = "sign" /\ Refused(c, files[c.input]) = NONE
        /\ data'[p] = Prepared(c, files[c.input])
    BY <1>1, <1>3, RequestsAssumption DEF ReadInput, Goto, Answer
  <2>2. c.range # NONE => c.input = Image
    BY <1>1, <2>1, RequestsAssumption
  <2> QED
    BY <1>1, <1>2, <1>3, <2>1, <2>2, ImageStep, ClaimsNow DEF ImageOf, Signing, Signed
<1>4. CASE pc'[p] # "sign"
  <2>1. pc'[p] \in {"signature", "done"}
    BY <1>1, <1>4 DEF ReadInput, Goto, Answer
  <2> QED
    BY <1>1, <1>2, <2>1, ImageStep, ClaimsNow DEF ImageOf, Signing, Signed
<1> QED
  BY <1>3, <1>4

LEMMA SignDataImage ==
    ASSUME Locking, ImageInv, NEW p \in Procs, DataInv', SignData(p)
    PROVE  ImageInv'
<1>1. /\ pc \in [Procs -> PCs] /\ ImageOf(p) /\ Step(p) /\ \A d \in claims : Claimed(d)
      /\ reply \in [Procs -> Outcomes \cup {NONE}]
      /\ pc[p] = "sign" /\ files' = files /\ claims' = claims /\ before' = before
      /\ cmd' = cmd /\ data' = data
  BY DEF ImageInv, DataInv, TypeOK, SignData, Step
<1>2. \/ pc'[p] \in {"output", "again"}
      \/ pc'[p] = "done" /\ reply'[p] = "ok"
  BY <1>1 DEF SignData, Goto
<1>3. ImageOf(p)'
  BY <1>1, <1>2 DEF ImageOf, Signing, Signed
<1> QED
  BY <1>1, <1>3, ImageStep, ClaimsNow

LEMMA WriteOutputImage ==
    ASSUME Locking, ImageInv, NEW p \in Procs, DataInv', WriteOutput(p)
    PROVE  ImageInv'
<1>1. /\ pc \in [Procs -> PCs] /\ ImageOf(p) /\ Step(p) /\ \A d \in claims : Claimed(d)
      /\ reply \in [Procs -> Outcomes \cup {NONE}]
      /\ pc[p] = "output" /\ claims' = claims /\ before' = before
      /\ cmd' = cmd /\ data' = data
  BY DEF ImageInv, DataInv, TypeOK, WriteOutput, Step
<1>2. cmd[p] \in Requests /\ cmd[p].output # NONE
  BY <1>1 DEF ImageInv, DataInv, Place
<1>3. files'[Image] = files[Image]
  BY <1>2, RequestsAssumption DEF WriteOutput
<1>4. \/ pc'[p] = "again"
      \/ pc'[p] = "done" /\ reply'[p] = "ok"
  BY <1>1 DEF WriteOutput, Goto, Answer
<1>5. ImageOf(p)'
  BY <1>1, <1>3, <1>4 DEF ImageOf, Signing, Signed
<1> QED
  BY <1>1, <1>3, <1>5, ImageStep, ClaimsNow

LEMMA ReadAgainImage ==
    ASSUME Locking, ImageInv, NEW p \in Procs, DataInv', ReadAgain(p)
    PROVE  ImageInv'
<1>1. /\ pc \in [Procs -> PCs] /\ ImageOf(p) /\ Step(p) /\ \A d \in claims : Claimed(d)
      /\ reply \in [Procs -> Outcomes \cup {NONE}] /\ DOMAIN copy = Procs
      /\ pc[p] = "again" /\ files' = files /\ claims' = claims /\ before' = before
      /\ cmd' = cmd /\ data' = data /\ result' = result
  BY DEF ImageInv, DataInv, TypeOK, Shape, ReadAgain, Works, Step
<1>2. files[Image] = before[p]
  BY <1>1 DEF ImageOf
<1>3. /\ cmd[p] \in Requests /\ cmd[p].op = "sign" /\ cmd[p].range # NONE
      /\ Len(result[p]) = SigLen
  BY <1>1, ResultLength DEF ImageInv, DataInv, Place, Signing, Signed
<1>4. cmd[p].input = Image
  BY <1>3, RequestsAssumption
<1>5. \/ pc'[p] = "done"
      \/ /\ pc'[p] = "update" /\ InFile(cmd[p].range, before[p])
         /\ cmd[p].range.to - cmd[p].range.from = SigLen
         /\ copy'[p] = Patched(before[p], cmd[p].range, result[p])
  BY <1>1, <1>2, <1>3, <1>4 DEF ReadAgain, Goto, Answer
<1>6. ImageOf(p)'
  BY <1>1, <1>2, <1>5 DEF ImageOf, Signing, Signed
<1> QED
  BY <1>1, <1>6, ImageStep, ClaimsNow

LEMMA TruncateImage ==
    ASSUME Locking, ImageInv, NEW p \in Procs, DataInv', Truncate(p)
    PROVE  ImageInv'
<1>1. /\ pc \in [Procs -> PCs] /\ ImageOf(p) /\ Step(p) /\ \A d \in claims : Claimed(d)
      /\ pc[p] = "update" /\ pc'[p] = "written" /\ claims' = claims
      /\ UNCHANGED <<before, cmd, data, result, copy, reply>>
  BY DEF ImageInv, DataInv, TypeOK, Truncate, Goto, client, Step
<1>2. \A d \in claims : WouldVerify(d, before[p])
  BY <1>1, ClaimsNow DEF ImageOf
<1>3. ImageOf(p)'
  BY <1>1, <1>2 DEF ImageOf, Signing, Signed
<1> QED
  BY <1>1, <1>3, ImageStep

LEMMA FillImage ==
    ASSUME Locking, ImageInv, NEW p \in Procs, DataInv', Fill(p)
    PROVE  ImageInv'
<1> DEFINE c == cmd[p]
           old == before[p]
<1>1. /\ pc \in [Procs -> PCs] /\ ImageOf(p) /\ Step(p) /\ \A d \in claims : Claimed(d)
      /\ reply \in [Procs -> Outcomes \cup {NONE}]
      /\ pc[p] = "written" /\ pc'[p] = "done" /\ reply'[p] = "ok" /\ before' = before
  BY DEF ImageInv, DataInv, TypeOK, Fill, Goto, Answer, Step
<1>2. /\ c \in Requests /\ c.op = "sign" /\ c.range # NONE
      /\ result[p] = Reversed(c, Signature(c, data[p]))
  BY <1>1 DEF ImageInv, DataInv, Place, Signing, Signed
<1>3. c.input = Image /\ c.range.from \in Nat /\ c.range.to \in Nat
  BY <1>2, RequestsAssumption
<1>4. /\ IsList(old) /\ Refused(c, old) = NONE /\ data[p] = Prepared(c, old)
      /\ InFile(c.range, old) /\ c.range.to - c.range.from = SigLen
      /\ copy[p] = Patched(old, c.range, result[p])
      /\ \A d \in claims : WouldVerify(d, old)
  BY <1>1, <1>2 DEF ImageOf, Signing, Signed
<1>5. files'[Image] = copy[p]
  BY <1>3, SignFilesAssumption DEF Fill, ImageInv, DataInv, TypeOK
<1>6. ASSUME NEW d \in claims'
      PROVE  Claimed(d) /\ WouldVerify(d, copy[p])
  <2>1. CASE d \in claims /\ ~Overlap(d.range, c.range) /\ ~Covers(d, c.range)
    <3>1. Claimed(d) /\ WouldVerify(d, old) /\ ~Overlap(d.format, c.range)
      BY <1>1, <1>4, <2>1 DEF Covers
    <3>2. WouldVerify(d, Patched(old, c.range, result[p]))
      BY <1>3, <1>4, <2>1, <3>1, StillVerifies
    <3> QED
      BY <1>4, <3>1, <3>2
  <2>2. CASE d = c /\ ~Covers(c, c.range)
    <3>1. Claimed(c) /\ ~Overlap(c.format, c.range)
      BY <1>2, <2>2 DEF Covers, Claimed
    <3>2. WouldVerify(c, Patched(old, c.range, Reversed(c, Signature(c, Prepared(c, old)))))
      BY <1>4, <3>1, NewlyVerifies
    <3> QED
      BY <1>2, <1>4, <2>2, <3>1, <3>2
  <2> QED
    BY <2>1, <2>2 DEF Fill
<1>7. ImageOf(p)'
  BY <1>1, <1>4 DEF ImageOf, Signing, Signed
<1> QED
  BY <1>1, <1>5, <1>6, <1>7, ImageStep

-----------------------------------------------------------------------------
(* With the lock, a command signs and writes the image it began with, and  *)
(* the commands that signed it before still verify.                        *)
THEOREM ImageHeld == ASSUME Locking PROVE Spec => []ImageInv
<1>1. Init => ImageInv
  <2> SUFFICES ASSUME Init PROVE ImageInv
    OBVIOUS
  <2>1. DataInv
    BY SignFilesAssumption
       DEF Init, DataInv, TypeOK, Shape, Place, PCs, Outcomes, Parsed, Signed, Signing
  <2> QED
    BY <2>1 DEF Init, ImageInv, Exclusive, ImageOf, SignedImageVerifies, Signing, Signed
<1>2. ImageInv /\ DataInv' /\ [Next]_vars => ImageInv'
  <2> SUFFICES ASSUME ImageInv, DataInv', [Next]_vars
               PROVE  ImageInv'
    OBVIOUS
  <2>1. CASE UNCHANGED vars
    BY <2>1 DEF vars, client, ImageInv, DataInv, Exclusive, ImageOf, SignedImageVerifies
  <2>2. CASE Next
    <3>1. PICK p \in Procs : Step(p)
      BY <2>2 DEF Next, Step
    <3> QED
      BY <3>1, QuietSteps, ReadInputImage, SignDataImage, WriteOutputImage,
         ReadAgainImage, TruncateImage, FillImage DEF Step
  <2> QED
    BY <2>1, <2>2
<1> QED
  BY <1>1, <1>2, DataHeld, PTL DEF Spec

(* A signed image verifies with the options it was signed with, and goes   *)
(* on to when other ranges of it are signed: what --update-in-place writes *)
(* is the signature, where it should be, and nothing else.                 *)
THEOREM SignedImagesVerify == ASSUME Locking PROVE Spec => []SignedImageVerifies
<1>1. ImageInv => SignedImageVerifies
  BY DEF ImageInv
<1> QED
  BY <1>1, ImageHeld, PTL

(* A sign command that fails before it writes the image has not touched it. *)
THEOREM FailuresLeaveImage == ASSUME Locking PROVE Spec => []FailureLeavesImage
<1>1. ImageInv => FailureLeavesImage
  BY DEF ImageInv, ImageOf, FailureLeavesImage
<1> QED
  BY <1>1, ImageHeld, PTL
=============================================================================
