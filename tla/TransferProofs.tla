--------------------------- MODULE TransferProofs ---------------------------
(***************************************************************************)
(* Nothing is lost, repeated or reordered between the Inputs and the       *)
(* Output, for any number of clients, sources, buffers and short writes.   *)
(*                                                                         *)
(* The invariant says where each client stands: the Output has exactly the *)
(* bytes up to the frontier of the client, and the rest of its span are    *)
(* the bytes from there to the position of its Input.                      *)
(***************************************************************************)
EXTENDS Transfer, SequenceTheorems, TLAPS

\* The number of bytes p has delivered.
Frontier(p) == position[p] - Len(rest[p])

RestIsNext ==
  \A p \in Client :
    /\ Len(rest[p]) <= position[p]
    /\ \A i \in 1 .. Len(rest[p]) : rest[p][i] = Frontier(p) + i

SentUpToFrontier ==
  \A p \in Client :
    /\ \A k \in 1 .. Frontier(p) : \E i \in 1 .. Len(bytes) : bytes[i] = <<p, k>>
    /\ \A i \in 1 .. Len(bytes) :
         bytes[i][1] = p => bytes[i][2] \in 1 .. Frontier(p)

ReadsWhenEmpty == \A p \in Client : at[p] \in {"read", "done"} => rest[p] = <<>>

\* A printer never reads.
OnlyCopiersRead == \A p \in Printer : at[p] # "read" /\ position[p] = Size[p]

Flow ==
  /\ TypeOK
  /\ RestIsNext
  /\ SentUpToFrontier
  /\ InOrder
  /\ ReadsWhenEmpty
  /\ OnlyCopiersRead

-----------------------------------------------------------------------------
\* A function on 1 .. n is a sequence of length n.
LEMMA Indexed ==
  ASSUME NEW S, NEW n \in Nat, NEW f \in [1 .. n -> S]
  PROVE  f \in Seq(S) /\ Len(f) = n
<1>1. f \in Seq(S)
  BY SeqDef
<1>2. DOMAIN f = 1 .. n /\ DOMAIN f = 1 .. Len(f) /\ Len(f) \in Nat
  BY <1>1, LenProperties
<1> QED
  BY <1>2

(* What the devices return.                                                *)

LEMMA CountBounds ==
  ASSUME TypeOK, NEW p \in Client
  PROVE  /\ Count(p) \in Nat
         /\ Count(p) <= Size[p] - position[p]
         /\ position[p] + Count(p) <= Size[p]
<1>1. /\ position[p] \in Nat /\ Size[p] \in Nat /\ Room[p] \in Nat
      /\ position[p] <= Size[p]
  BY SizeAssumption DEF TypeOK
<1> QED
  BY <1>1 DEF Count, Least

LEMMA ConsumedBounds ==
  ASSUME TypeOK, NEW n \in Nat
  PROVE  Consumed(n) \in Nat /\ Consumed(n) <= n
<1>1. Len(bytes) \in Nat /\ Capacity \in Nat
  BY DeviceAssumption DEF TypeOK
<1>2. device \in {"memory", "partial", "bounded"}
  BY DeviceAssumption DEF TypeOK
<1> QED
  BY <1>1, <1>2 DEF Consumed, Least

-----------------------------------------------------------------------------
LEMMA InitFlow == Init => Flow
<1> SUFFICES ASSUME Init PROVE Flow
  OBVIOUS
<1>1. \A p \in Copier : rest[p] = <<>> /\ position[p] = 0 /\ at[p] = "read"
  BY DEF Init, Client
<1>2. \A p \in Printer :
        /\ rest[p] = [i \in 1 .. Size[p] |-> i]
        /\ position[p] = Size[p] /\ at[p] = "write"
  BY ClientAssumption DEF Init, Client
<1>3. ASSUME NEW p \in Client
      PROVE  /\ rest[p] \in Seq(Nat) /\ Len(rest[p]) = position[p]
             /\ position[p] \in Nat /\ position[p] <= Size[p]
             /\ \A i \in 1 .. Len(rest[p]) : rest[p][i] = i
  <2>s. Size[p] \in Nat
    BY SizeAssumption
  <2>1. CASE p \in Copier
    <3>1. rest[p] = <<>> /\ position[p] = 0 /\ Len(<<>>) = 0
      BY <1>1, <2>1, EmptySeq
    <3>2. <<>> \in Seq(Nat)
      BY EmptySeq
    <3> QED BY <3>1, <3>2, <2>s
  <2>2. CASE p \in Printer
    <3> DEFINE f == [i \in 1 .. Size[p] |-> i]
    <3>1. f \in [1 .. Size[p] -> Nat] /\ \A i \in 1 .. Size[p] : f[i] = i
      BY <2>s
    <3> HIDE DEF f
    <3>2. f \in Seq(Nat) /\ Len(f) = Size[p]
      BY <2>s, <3>1, Indexed
    <3>3. rest[p] = f /\ position[p] = Size[p]
      BY <1>2, <2>2 DEF f
    <3> QED BY <2>s, <3>1, <3>2, <3>3
  <2> QED BY <2>1, <2>2 DEF Client
<1>5. TypeOK
  <2>1. position \in [Client -> Nat]
    <3>1. position = [p \in Client |-> position[p]]
      BY DEF Init
    <3> QED BY <3>1, <1>3
  <2>2. rest \in [Client -> Seq(Nat)]
    <3>1. rest = [p \in Client |-> rest[p]]
      BY DEF Init
    <3> QED BY <3>1, <1>3
  <2>3. at \in [Client -> {"read", "write", "done", "error"}]
    BY DEF Init
  <2>4. /\ device \in Device /\ broken \in [Client -> BOOLEAN] /\ failed \in BOOLEAN
        /\ bytes \in Seq(Client \X Nat)
    BY EmptySeq DEF Init
  <2> QED BY <1>3, <2>1, <2>2, <2>3, <2>4 DEF TypeOK
<1>6. \A p \in Client : Frontier(p) = 0
  BY <1>3 DEF Frontier
<1>7. RestIsNext
  BY <1>3, <1>6 DEF RestIsNext
<1>8. SentUpToFrontier
  BY <1>6, EmptySeq DEF SentUpToFrontier, Init
<1>9. InOrder
  BY DEF InOrder, Init
<1>10. ReadsWhenEmpty /\ OnlyCopiersRead
  BY <1>1, <1>2 DEF ReadsWhenEmpty, OnlyCopiersRead, Client
<1> QED
  BY <1>5, <1>7, <1>8, <1>9, <1>10 DEF Flow

LEMMA ReadFlow ==
  ASSUME Flow, NEW p \in Client, Read(p)
  PROVE  Flow'
<1> USE DEF Flow
<1>t. /\ position[p] \in Nat /\ Size[p] \in Nat /\ position \in [Client -> Nat]
      /\ rest \in [Client -> Seq(Nat)] /\ rest[p] = <<>>
      /\ at[p] = "read"
  BY SizeAssumption DEF TypeOK, Read, ReadsWhenEmpty
<1>c. Count(p) \in Nat /\ position[p] + Count(p) <= Size[p]
  BY CountBounds
<1> DEFINE n == Count(p)
           s == [i \in 1 .. n |-> position[p] + i]
<1>1. s \in Seq(Nat) /\ Len(s) = n
  <2>1. s \in [1 .. n -> Nat]
    BY <1>t, <1>c
  <2> QED BY <1>c, <2>1, Indexed
<1>2. /\ rest' = [rest EXCEPT ![p] = s]
      /\ position' = [position EXCEPT ![p] = position[p] + n]
      /\ at' = [at EXCEPT ![p] = IF n = 0 THEN "done" ELSE "write"]
      /\ UNCHANGED <<device, broken, failed, bytes>>
  BY DEF Read, Advanced
<1>3. /\ rest'[p] = s /\ position'[p] = position[p] + n
      /\ \A q \in Client : q # p => /\ rest'[q] = rest[q]
                                    /\ position'[q] = position[q]
                                    /\ at'[q] = at[q]
  BY <1>2, <1>t DEF TypeOK
<1>4. \A i \in 1 .. n : s[i] = position[p] + i
  OBVIOUS
<1>5. n = 0 => s = <<>>
  BY <1>1, EmptySeq
<1> HIDE DEF s, n
<1>6. TypeOK'
  <2>1. \A q \in Client : position'[q] <= Size[q]
    BY <1>3, <1>c DEF TypeOK, n
  <2>2. position' \in [Client -> Nat] /\ rest' \in [Client -> Seq(Nat)]
    BY <1>1, <1>2, <1>t, <1>c DEF n
  <2>3. at' \in [Client -> {"read", "write", "done", "error"}]
    BY <1>2 DEF TypeOK
  <2> QED BY <1>2, <2>1, <2>2, <2>3 DEF TypeOK
<1>7. \A q \in Client : Frontier(q)' = Frontier(q)
  <2>1. n \in Nat /\ Len(rest'[p]) = n /\ position'[p] = position[p] + n
    BY <1>3, <1>1, <1>c DEF n
  <2>2. Len(rest[p]) = 0
    BY <1>t, EmptySeq
  <2>3. Frontier(p)' = Frontier(p)
    BY <2>1, <2>2, <1>t DEF Frontier
  <2> QED BY <2>3, <1>3 DEF Frontier
<1>8. RestIsNext'
  <2>1. Len(rest'[p]) <= position'[p]
    BY <1>1, <1>3, <1>t, <1>c DEF n
  <2>2. \A i \in 1 .. Len(rest'[p]) : rest'[p][i] = Frontier(p)' + i
    <3>1. Frontier(p) = position[p]
      BY <1>t, EmptySeq DEF Frontier
    <3>2. \A i \in 1 .. n : s[i] = position[p] + i
      BY <1>4
    <3> QED BY <1>1, <1>3, <1>7, <3>1, <3>2
  <2>3. \A q \in Client : q # p =>
          /\ Len(rest'[q]) <= position'[q]
          /\ \A i \in 1 .. Len(rest'[q]) : rest'[q][i] = Frontier(q)' + i
    BY <1>3, <1>7 DEF RestIsNext
  <2> QED BY <2>1, <2>2, <2>3 DEF RestIsNext
<1>9. SentUpToFrontier'
  BY <1>2, <1>7 DEF SentUpToFrontier
<1>10. InOrder'
  BY <1>2 DEF InOrder
<1>11. ReadsWhenEmpty'
  BY <1>2, <1>3, <1>5, <1>t DEF ReadsWhenEmpty, TypeOK
<1>12. OnlyCopiersRead'
  <2>1. p \notin Printer
    BY <1>t DEF OnlyCopiersRead
  <2> QED BY <1>3, <2>1 DEF OnlyCopiersRead, Client
<1> QED
  BY <1>6, <1>8, <1>9, <1>10, <1>11, <1>12

\* What write() does to the Output: the old bytes, then those sent.
LEMMA Appended ==
  ASSUME NEW b \in Seq(Client \X Nat), NEW n \in Nat,
         NEW s \in [1 .. n -> Client \X Nat]
  PROVE  /\ b \o s \in Seq(Client \X Nat)
         /\ Len(b) \in Nat
         /\ Len(b \o s) = Len(b) + n
         /\ \A i \in 1 .. Len(b) : (b \o s)[i] = b[i]
         /\ \A i \in 1 .. n : (b \o s)[Len(b) + i] = s[i]
<1>1. s \in Seq(Client \X Nat) /\ Len(s) = n
  BY Indexed
<1>2. /\ b \o s \in Seq(Client \X Nat) /\ Len(b \o s) = Len(b) + Len(s)
      /\ Len(b) \in Nat
      /\ \A i \in 1 .. Len(b) + Len(s) :
           (b \o s)[i] = IF i <= Len(b) THEN b[i] ELSE s[i - Len(b)]
  BY <1>1, ConcatProperties, LenProperties
<1>3. \A i \in 1 .. n : (b \o s)[Len(b) + i] = s[i]
  <2> SUFFICES ASSUME NEW i \in 1 .. n PROVE (b \o s)[Len(b) + i] = s[i]
    OBVIOUS
  <2>1. Len(b) + i \in 1 .. Len(b) + Len(s) /\ ~(Len(b) + i <= Len(b))
    BY <1>1, <1>2
  <2>2. Len(b) + i - Len(b) = i
    BY <1>2
  <2> QED BY <1>2, <2>1, <2>2
<1> QED
  BY <1>1, <1>2, <1>3

LEMMA Cut ==
  ASSUME NEW S, NEW r \in Seq(S), NEW n \in Nat, n <= Len(r)
  PROVE  /\ SubSeq(r, n + 1, Len(r)) \in Seq(S)
         /\ Len(r) \in Nat
         /\ Len(SubSeq(r, n + 1, Len(r))) = Len(r) - n
         /\ \A i \in 1 .. Len(r) - n : SubSeq(r, n + 1, Len(r))[i] = r[n + i]
<1>1. Len(r) \in Nat
  BY LenProperties
<1>2. \A i \in n + 1 .. Len(r) : r[i] \in S
  BY <1>1, LenProperties
<1>3. /\ SubSeq(r, n + 1, Len(r)) \in Seq(S)
      /\ Len(SubSeq(r, n + 1, Len(r)))
           = IF n + 1 <= Len(r) THEN Len(r) - (n + 1) + 1 ELSE 0
      /\ \A i \in 1 .. Len(r) - (n + 1) + 1 :
           SubSeq(r, n + 1, Len(r))[i] = r[n + 1 + i - 1]
  BY <1>1, <1>2, SubSeqProperties
<1>4. \A i \in 1 .. Len(r) - n : n + 1 + i - 1 = n + i
  BY <1>1
<1>5. Len(r) - (n + 1) + 1 = Len(r) - n /\ (~(n + 1 <= Len(r)) => Len(r) - n = 0)
  BY <1>1
<1>6. Len(SubSeq(r, n + 1, Len(r))) = Len(r) - n
  BY <1>3, <1>5
<1>7. ASSUME NEW i \in 1 .. Len(r) - n
      PROVE  SubSeq(r, n + 1, Len(r))[i] = r[n + i]
  BY <1>3, <1>4, <1>5
<1> QED
  BY <1>1, <1>3, <1>6, <1>7

LEMMA WriteFlow ==
  ASSUME Flow, NEW p \in Client, Write(p)
  PROVE  Flow'
<1> USE DEF Flow
<1>t. /\ rest \in [Client -> Seq(Nat)] /\ rest[p] \in Seq(Nat)
      /\ position \in [Client -> Nat] /\ position[p] \in Nat
      /\ Len(rest[p]) \in Nat /\ bytes \in Seq(Client \X Nat)
      /\ Len(bytes) \in Nat
  <2>1. rest[p] \in Seq(Nat) /\ bytes \in Seq(Client \X Nat)
    BY DEF TypeOK
  <2> QED BY <2>1, LenProperties DEF TypeOK
<1> DEFINE n == Consumed(Len(rest[p]))
           s == Sent(p, n)
           r == Remaining(p, n)
           F == Frontier(p)
           L == Len(bytes)
<1>n. n \in Nat /\ n <= Len(rest[p])
  BY <1>t, ConsumedBounds
<1>1. /\ bytes' = bytes \o s /\ rest' = [rest EXCEPT ![p] = r]
      /\ at' = [at EXCEPT ![p] = IF r = <<>> THEN After(p) ELSE "write"]
      /\ UNCHANGED <<device, position, broken, failed>>
  BY DEF Write
<1>f. /\ F \in Nat /\ Len(rest[p]) = position[p] - F
      /\ \A i \in 1 .. Len(rest[p]) : rest[p][i] = F + i
  BY <1>t DEF Frontier, RestIsNext
<1>2. s \in [1 .. n -> Client \X Nat] /\ \A i \in 1 .. n : s[i] = <<p, F + i>>
  <2>1. \A i \in 1 .. n : s[i] = <<p, rest[p][i]>>
    BY DEF Sent
  <2>2. \A i \in 1 .. n : rest[p][i] = F + i /\ F + i \in Nat
    BY <1>n, <1>f, <1>t
  <2>3. s = [i \in 1 .. n |-> <<p, rest[p][i]>>]
    BY DEF Sent
  <2> HIDE DEF n, s, F
  <2> QED BY <2>1, <2>2, <2>3
<1>3. /\ r \in Seq(Nat) /\ Len(r) = Len(rest[p]) - n
      /\ \A i \in 1 .. Len(rest[p]) - n : r[i] = rest[p][n + i]
  BY <1>t, <1>n, Cut DEF Remaining
<1> HIDE DEF n, s, r, F, L
<1>4. /\ bytes' \in Seq(Client \X Nat) /\ Len(bytes') = L + n
      /\ \A i \in 1 .. L : bytes'[i] = bytes[i]
      /\ \A i \in 1 .. n : bytes'[L + i] = <<p, F + i>>
  <2>1. /\ bytes' \in Seq(Client \X Nat) /\ Len(bytes') = L + n
        /\ \A i \in 1 .. L : bytes'[i] = bytes[i]
        /\ \A i \in 1 .. n : bytes'[L + i] = s[i]
    BY <1>1, <1>2, <1>t, <1>n, Appended DEF L
  <2> QED BY <2>1, <1>2
<1>l. L \in Nat /\ L = Len(bytes)
  BY <1>t DEF L
<1>5. /\ rest'[p] = r
      /\ \A q \in Client : q # p => rest'[q] = rest[q] /\ at'[q] = at[q]
  BY <1>1, <1>t DEF TypeOK
<1>6. Frontier(p)' = F + n /\ \A q \in Client : q # p => Frontier(q)' = Frontier(q)
  <2>1. Frontier(p)' = position[p] - Len(r)
    BY <1>1, <1>5 DEF Frontier
  <2>2. Frontier(p)' = F + n
    BY <2>1, <1>3, <1>f, <1>n, <1>t
  <2> QED BY <2>2, <1>1, <1>5 DEF Frontier
\* Each place of the new Output is an old one or one of those sent.
<1>7. \A i \in 1 .. Len(bytes') :
        i \in 1 .. L \/ \E k \in 1 .. n : i = L + k
  <2> SUFFICES ASSUME NEW i \in 1 .. L + n, ~(i \in 1 .. L)
               PROVE  \E k \in 1 .. n : i = L + k
    BY <1>4
  <2>1. i - L \in 1 .. n /\ i = L + (i - L)
    BY <1>l, <1>n
  <2> QED BY <2>1
<1>8. TypeOK'
  <2>1. rest' \in [Client -> Seq(Nat)]
    BY <1>1, <1>3, <1>t
  <2>2. at' \in [Client -> {"read", "write", "done", "error"}]
    BY <1>1 DEF TypeOK, After
  <2>3. bytes' \in Seq(Client \X Nat)
    BY <1>4
  <2> QED BY <1>1, <2>1, <2>2, <2>3 DEF TypeOK
<1>9. RestIsNext'
  <2>1. Len(rest'[p]) <= position'[p]
    BY <1>1, <1>3, <1>5, <1>f, <1>n, <1>t
  <2>2. ASSUME NEW i \in 1 .. Len(rest'[p]) PROVE rest'[p][i] = Frontier(p)' + i
    <3>1. i \in 1 .. Len(rest[p]) - n
      BY <1>3, <1>5
    <3>2. n + i \in 1 .. Len(rest[p])
      BY <3>1, <1>n, <1>t
    <3>3. rest'[p][i] = F + (n + i)
      BY <3>1, <3>2, <1>3, <1>5, <1>f
    <3> QED BY <3>1, <3>3, <1>6, <1>n, <1>f, <1>t
  <2>3. \A q \in Client : q # p =>
          /\ Len(rest'[q]) <= position'[q]
          /\ \A i \in 1 .. Len(rest'[q]) : rest'[q][i] = Frontier(q)' + i
    BY <1>1, <1>5, <1>6 DEF RestIsNext
  <2> QED BY <2>1, <2>2, <2>3 DEF RestIsNext
<1>10. SentUpToFrontier'
  <2>1. ASSUME NEW q \in Client, NEW k \in 1 .. Frontier(q)'
        PROVE  \E i \in 1 .. Len(bytes') : bytes'[i] = <<q, k>>
    <3>1. CASE k \in 1 .. Frontier(q)
      <4>1. PICK i \in 1 .. Len(bytes) : bytes[i] = <<q, k>>
        BY <3>1 DEF SentUpToFrontier
      <4>2. i \in 1 .. Len(bytes') /\ i \in 1 .. L
        BY <1>4, <1>l, <1>n
      <4> QED BY <4>1, <4>2, <1>4
    <3>2. CASE ~(k \in 1 .. Frontier(q))
      <4>1. q = p /\ k \in 1 .. F + n /\ ~(k \in 1 .. F)
        BY <3>2, <1>6 DEF F
      <4>2. PICK m \in 1 .. n : k = F + m
        <5>1. k - F \in 1 .. n /\ k = F + (k - F)
          BY <4>1, <1>f, <1>n
        <5> QED BY <5>1
      <4>3. L + m \in 1 .. Len(bytes')
        BY <1>4, <1>l, <1>n
      <4>4. bytes'[L + m] = <<p, F + m>>
        BY <1>4
      <4> QED BY <4>1, <4>2, <4>3, <4>4
    <3> QED BY <3>1, <3>2
  <2>2. ASSUME NEW q \in Client, NEW i \in 1 .. Len(bytes'), bytes'[i][1] = q
        PROVE  bytes'[i][2] \in 1 .. Frontier(q)'
    <3>1. CASE i \in 1 .. L
      <4>1. bytes[i][1] = q /\ bytes'[i] = bytes[i]
        BY <2>2, <3>1, <1>4
      <4>2. bytes[i][2] \in 1 .. Frontier(q)
        BY <3>1, <4>1, <1>l DEF SentUpToFrontier
      <4>3. CASE q = p
        <5>1. bytes'[i][2] \in 1 .. F /\ Frontier(q)' = F + n
          BY <4>1, <4>2, <4>3, <1>6 DEF F
        <5> QED BY <5>1, <1>f, <1>n
      <4>4. CASE q # p
        BY <4>1, <4>2, <4>4, <1>6
      <4> QED BY <4>3, <4>4
    <3>2. CASE \E k \in 1 .. n : i = L + k
      <4>1. PICK k \in 1 .. n : i = L + k
        BY <3>2
      <4>2. q = p /\ bytes'[i][2] = F + k
        BY <4>1, <2>2, <1>4
      <4> QED BY <4>1, <4>2, <1>6, <1>f, <1>n
    <3> QED BY <3>1, <3>2, <1>7
  <2> QED BY <2>1, <2>2 DEF SentUpToFrontier
<1>11. InOrder'
  <2> SUFFICES ASSUME NEW i \in 1 .. Len(bytes'), NEW j \in 1 .. Len(bytes'),
                      i < j, bytes'[i][1] = bytes'[j][1]
               PROVE  bytes'[i][2] < bytes'[j][2]
    BY <1>4, LenProperties DEF InOrder
  <2>1. CASE i \in 1 .. L /\ j \in 1 .. L
    <3>1. DOMAIN bytes = 1 .. L
      BY <1>t, <1>l, LenProperties
    <3> QED BY <2>1, <3>1, <1>4 DEF InOrder
  <2>2. CASE i \in 1 .. L /\ \E k \in 1 .. n : j = L + k
    <3>1. PICK k \in 1 .. n : j = L + k
      BY <2>2
    <3>2. bytes'[j] = <<p, F + k>> /\ bytes'[i] = bytes[i] /\ bytes[i][1] = p
      BY <2>2, <3>1, <1>4
    <3>3. bytes[i][2] \in 1 .. F
      BY <2>2, <3>2, <1>l DEF SentUpToFrontier, F
    <3> QED BY <3>1, <3>2, <3>3, <1>f, <1>n
  <2>3. CASE \E k \in 1 .. n : i = L + k
    <3>1. PICK k \in 1 .. n : i = L + k
      BY <2>3
    <3>2. ~(j \in 1 .. L)
      BY <3>1, <1>l, <1>n
    <3>3. PICK m \in 1 .. n : j = L + m
      BY <3>2, <1>7
    <3>4. bytes'[i][2] = F + k /\ bytes'[j][2] = F + m
      BY <3>1, <3>3, <1>4
    <3>5. k < m
      BY <3>1, <3>3, <1>l, <1>n
    <3> QED BY <3>4, <3>5, <1>f, <1>n
  <2> QED BY <2>1, <2>2, <2>3, <1>7
<1>12. ReadsWhenEmpty'
  <2>1. at'[p] = IF r = <<>> THEN After(p) ELSE "write"
    BY <1>1 DEF TypeOK
  <2> QED BY <2>1, <1>5 DEF ReadsWhenEmpty
<1>13. OnlyCopiersRead'
  <2>1. at'[p] = IF r = <<>> THEN After(p) ELSE "write"
    BY <1>1 DEF TypeOK
  <2>2. p \in Printer => at'[p] # "read"
    BY <2>1, ClientAssumption DEF After
  <2> QED BY <2>2, <1>1, <1>5 DEF OnlyCopiersRead, Client
<1> QED
  BY <1>8, <1>9, <1>10, <1>11, <1>12, <1>13

\* The steps that touch neither bytes nor spans.
LEMMA OtherFlow ==
  ASSUME Flow, UNCHANGED <<position, bytes, rest>>, TypeOK',
         \A q \in Client : at'[q] = at[q] \/ at'[q] = "error"
  PROVE  Flow'
<1> USE DEF Flow
<1>1. \A q \in Client : Frontier(q)' = Frontier(q)
  BY DEF Frontier
<1>2. RestIsNext' /\ SentUpToFrontier'
  BY <1>1 DEF RestIsNext, SentUpToFrontier
<1>3. InOrder'
  BY DEF InOrder
<1>4. ReadsWhenEmpty' /\ OnlyCopiersRead'
  BY DEF ReadsWhenEmpty, OnlyCopiersRead, Client
<1> QED
  BY <1>2, <1>3, <1>4

LEMMA NextFlow == Flow /\ [Next]_vars => Flow'
<1> SUFFICES ASSUME Flow, [Next]_vars PROVE Flow'
  OBVIOUS
<1>1. CASE BreakOutput
  BY <1>1, OtherFlow DEF BreakOutput, Flow, TypeOK
<1>2. ASSUME NEW p \in Copier, BreakInput(p) PROVE Flow'
  BY <1>2, OtherFlow DEF BreakInput, Flow, TypeOK
<1>3. ASSUME NEW p \in Client, Step(p) PROVE Flow'
  <2>1. CASE Read(p)
    BY <2>1, ReadFlow
  <2>2. CASE Write(p)
    BY <2>2, WriteFlow
  <2>3. CASE ReadFails(p) \/ WriteFails(p)
    BY <2>3, OtherFlow DEF ReadFails, WriteFails, Flow, TypeOK
  <2> QED BY <1>3, <2>1, <2>2, <2>3 DEF Step
<1>4. CASE UNCHANGED vars
  BY <1>4, OtherFlow DEF vars, Flow, TypeOK
<1> QED
  BY <1>1, <1>2, <1>3, <1>4 DEF Next

\* The invariant holds in every state: bytes are delivered up to a frontier.
THEOREM FlowInvariant == Spec => []Flow
BY InitFlow, NextFlow, PTL DEF Spec

-----------------------------------------------------------------------------
(* The properties.                                                         *)

LEMMA DeliveredSoFar ==
  ASSUME Flow, NEW p \in Client
  PROVE  Delivered(p) = 1 .. Frontier(p) /\ Frontier(p) \in Nat
<1>t. /\ position[p] \in Nat /\ Len(rest[p]) \in Nat /\ Len(rest[p]) <= position[p]
      /\ position[p] <= Size[p] /\ Size[p] \in Nat
      /\ DOMAIN bytes = 1 .. Len(bytes)
  <2>1. rest[p] \in Seq(Nat) /\ bytes \in Seq(Client \X Nat)
    BY DEF Flow, TypeOK
  <2> QED BY <2>1, LenProperties, SizeAssumption DEF Flow, TypeOK, RestIsNext
<1>1. Frontier(p) \in Nat /\ Frontier(p) <= Size[p]
  BY <1>t DEF Frontier
<1>2. ASSUME NEW k \in 1 .. Frontier(p) PROVE k \in Delivered(p)
  <2>1. k \in 1 .. Size[p]
    BY <1>1, <1>t
  <2> QED BY <2>1, <1>t DEF Delivered, Flow, SentUpToFrontier
<1>3. ASSUME NEW k \in Delivered(p) PROVE k \in 1 .. Frontier(p)
  <2>1. PICK i \in 1 .. Len(bytes) : bytes[i] = <<p, k>>
    BY <1>t DEF Delivered
  <2>2. bytes[i][1] = p /\ bytes[i][2] = k
    BY <2>1
  <2> QED BY <2>2 DEF Flow, SentUpToFrontier
<1> QED
  BY <1>1, <1>2, <1>3

LEMMA PendingNext ==
  ASSUME Flow, NEW p \in Client
  PROVE  Pending(p) = Frontier(p) + 1 .. position[p]
<1>t. /\ position[p] \in Nat /\ Len(rest[p]) \in Nat /\ Len(rest[p]) <= position[p]
      /\ DOMAIN rest[p] = 1 .. Len(rest[p])
      /\ \A i \in 1 .. Len(rest[p]) : rest[p][i] = Frontier(p) + i
      /\ Frontier(p) = position[p] - Len(rest[p])
  <2>1. rest[p] \in Seq(Nat)
    BY DEF Flow, TypeOK
  <2> QED BY <2>1, LenProperties DEF Flow, TypeOK, RestIsNext, Frontier
<1>1. ASSUME NEW k \in Frontier(p) + 1 .. position[p] PROVE k \in Pending(p)
  <2>1. k - Frontier(p) \in 1 .. Len(rest[p]) /\ k = Frontier(p) + (k - Frontier(p))
    BY <1>t
  <2> QED BY <2>1, <1>t DEF Pending
<1>2. ASSUME NEW k \in Pending(p) PROVE k \in Frontier(p) + 1 .. position[p]
  <2>1. PICK i \in 1 .. Len(rest[p]) : k = Frontier(p) + i
    BY <1>t DEF Pending
  <2> QED BY <2>1, <1>t
<1> QED
  BY <1>1, <1>2

\* No byte between an Input and the Output is lost or duplicated, for any
\* number of clients and any mixture of short reads and writes.
THEOREM NothingIsLost == Spec => []NothingLost
<1>1. Flow => NothingLost
  <2> SUFFICES ASSUME Flow, NEW p \in Client
               PROVE  /\ Delivered(p) \cup Pending(p) = 1 .. position[p]
                      /\ Delivered(p) \cap Pending(p) = {}
    BY DEF NothingLost
  <2>1. Delivered(p) = 1 .. Frontier(p) /\ Frontier(p) \in Nat
    BY DeliveredSoFar
  <2>2. Pending(p) = Frontier(p) + 1 .. position[p]
    BY PendingNext
  <2>3. position[p] \in Nat /\ Frontier(p) <= position[p]
    <3>1. rest[p] \in Seq(Nat) /\ position[p] \in Nat
      BY DEF Flow, TypeOK
    <3> QED BY <3>1, LenProperties DEF Frontier
  <2> HIDE DEF Frontier
  <2> QED BY <2>1, <2>2, <2>3
<1> QED
  BY <1>1, FlowInvariant, PTL

\* The Output gets the bytes of each client in their order, whatever the other
\* clients write in between.
THEOREM OrderIsKept == Spec => []InOrder
<1>1. Flow => InOrder
  BY DEF Flow
<1> QED
  BY <1>1, FlowInvariant, PTL

\* An end that is reached is the end of the source, if no buffer is empty.
EndIsTheEnd == \A p \in Client : at[p] = "done" => position[p] = Size[p]

LEMMA NextEnd ==
  ASSUME \A p \in Copier : Room[p] > 0
  PROVE  Flow /\ EndIsTheEnd /\ [Next]_vars => EndIsTheEnd'
<1> SUFFICES ASSUME Flow, EndIsTheEnd, [Next]_vars PROVE EndIsTheEnd'
  OBVIOUS
<1>1. ASSUME NEW p \in Client, Read(p) PROVE EndIsTheEnd'
  <2>1. p \in Copier
    BY <1>1 DEF Read, Flow, OnlyCopiersRead, Client
  <2>2. /\ position[p] \in Nat /\ Size[p] \in Nat /\ Room[p] \in Nat
        /\ Room[p] > 0 /\ position[p] <= Size[p]
    BY <2>1, SizeAssumption DEF Flow, TypeOK
  <2>3. Count(p) = 0 => position[p] + Count(p) = Size[p]
    BY <2>2 DEF Count, Least
  <2>4. at'[p] = "done" => Count(p) = 0
    BY <1>1 DEF Read, Flow, TypeOK
  <2>5. /\ position'[p] = position[p] + Count(p)
        /\ \A q \in Client : q # p => position'[q] = position[q] /\ at'[q] = at[q]
    BY <1>1 DEF Read, Advanced, Flow, TypeOK
  <2> QED BY <2>3, <2>4, <2>5 DEF EndIsTheEnd
<1>2. ASSUME NEW p \in Client, Write(p) PROVE EndIsTheEnd'
  <2>1. position' = position
    BY <1>2 DEF Write
  <2>2. /\ at'[p] \in {After(p), "write"}
        /\ \A q \in Client : q # p => at'[q] = at[q]
    BY <1>2 DEF Write, Flow, TypeOK
  <2>3. After(p) = "done" => position[p] = Size[p]
    BY DEF After, Flow, OnlyCopiersRead, Client
  <2> QED BY <2>1, <2>2, <2>3 DEF EndIsTheEnd
<1>3. ASSUME NEW p \in Client, ReadFails(p) \/ WriteFails(p) PROVE EndIsTheEnd'
  BY <1>3 DEF ReadFails, WriteFails, EndIsTheEnd, Flow, TypeOK
<1>4. CASE BreakOutput \/ \E p \in Copier : BreakInput(p)
  BY <1>4 DEF BreakOutput, BreakInput, EndIsTheEnd
<1>5. CASE UNCHANGED vars
  BY <1>5 DEF vars, EndIsTheEnd
<1> QED
  BY <1>1, <1>2, <1>3, <1>4, <1>5 DEF Next, Step

\* When no caller supplies an empty buffer, who ends without an error has
\* delivered all of the source or of the text.
THEOREM DoneIsComplete ==
  ASSUME \A p \in Copier : Room[p] > 0
  PROVE  Spec => []CompleteWhenDone
<1>1. Init => EndIsTheEnd
  BY DEF Init, EndIsTheEnd
<1>2. Flow /\ EndIsTheEnd /\ [Next]_vars => EndIsTheEnd'
  BY NextEnd
<1>3. Flow /\ EndIsTheEnd => CompleteWhenDone
  <2> SUFFICES ASSUME Flow, EndIsTheEnd, NEW p \in Client, at[p] = "done"
               PROVE  Delivered(p) = 1 .. Size[p]
    BY DEF CompleteWhenDone
  <2>1. rest[p] = <<>> /\ position[p] = Size[p]
    BY DEF Flow, ReadsWhenEmpty, EndIsTheEnd
  <2>2. Frontier(p) = Size[p]
    BY <2>1, EmptySeq, SizeAssumption DEF Frontier
  <2> QED BY <2>2, DeliveredSoFar
<1> QED
  BY <1>1, <1>2, <1>3, FlowInvariant, PTL DEF Spec

\* The variables keep their types and no Input moves past its end.
THEOREM TypeCorrect == Spec => []TypeOK
<1>1. Flow => TypeOK
  BY DEF Flow
<1> QED
  BY <1>1, FlowInvariant, PTL

-----------------------------------------------------------------------------
(* Progress, and the implementation of Streams.                            *)

\* What a write sends: the next bytes of p, after its frontier.
LEMMA WriteSends ==
  ASSUME Flow, NEW p \in Client, Write(p)
  PROVE  LET n == Consumed(Len(rest[p])) IN
         /\ n \in Nat /\ Len(rest[p]) \in Nat /\ n <= Len(rest[p])
         /\ Frontier(p) \in Nat /\ Frontier(p) + Len(rest[p]) = position[p]
         /\ bytes' = bytes \o [i \in 1 .. n |-> <<p, Frontier(p) + i>>]
         /\ rest'[p] \in Seq(Nat) /\ Len(rest'[p]) = Len(rest[p]) - n
         /\ at'[p] = IF rest'[p] = <<>> THEN After(p) ELSE "write"
         /\ \A q \in Client : q # p => rest'[q] = rest[q] /\ at'[q] = at[q]
<1> DEFINE n == Consumed(Len(rest[p]))
           r == Remaining(p, n)
<1>1. /\ rest \in [Client -> Seq(Nat)] /\ rest[p] \in Seq(Nat)
      /\ position[p] \in Nat /\ Len(rest[p]) \in Nat
  <2>1. rest \in [Client -> Seq(Nat)] /\ position[p] \in Nat
    BY DEF Flow, TypeOK
  <2> QED BY <2>1, LenProperties
<1>2. n \in Nat /\ n <= Len(rest[p])
  BY <1>1, ConsumedBounds DEF Flow
<1>3. /\ Frontier(p) \in Nat /\ Frontier(p) + Len(rest[p]) = position[p]
      /\ \A i \in 1 .. Len(rest[p]) : rest[p][i] = Frontier(p) + i
  BY <1>1 DEF Flow, RestIsNext, Frontier
<1>4. /\ bytes' = bytes \o Sent(p, n) /\ rest' = [rest EXCEPT ![p] = r]
      /\ at' = [at EXCEPT ![p] = IF r = <<>> THEN After(p) ELSE "write"]
  BY DEF Write
<1>5. r \in Seq(Nat) /\ Len(r) = Len(rest[p]) - n
  BY <1>1, <1>2, Cut DEF Remaining
<1>6. Sent(p, n) = [i \in 1 .. n |-> <<p, Frontier(p) + i>>]
  <2>1. \A i \in 1 .. n : rest[p][i] = Frontier(p) + i
    BY <1>1, <1>2, <1>3
  <2> HIDE DEF n
  <2> QED BY <2>1 DEF Sent
<1> HIDE DEF n, r
<1>7. /\ rest'[p] = r /\ at'[p] = IF r = <<>> THEN After(p) ELSE "write"
      /\ \A q \in Client : q # p => rest'[q] = rest[q] /\ at'[q] = at[q]
  BY <1>1, <1>4 DEF Flow, TypeOK
<1> QED
  BY <1>1, <1>2, <1>3, <1>4, <1>5, <1>6, <1>7 DEF n

\* A copier writes what it has read, and it has read something.
CopiersHaveBytes == \A p \in Copier : at[p] = "write" => Len(rest[p]) > 0

LEMMA ReadFills ==
  ASSUME Flow, NEW p \in Client, Read(p)
  PROVE  /\ position[p] \in Nat /\ Size[p] \in Nat /\ Count(p) \in Nat
         /\ position[p] + Count(p) <= Size[p]
         /\ rest[p] = <<>> /\ Len(rest[p]) = 0
         /\ position'[p] = position[p] + Count(p)
         /\ Len(rest'[p]) = Count(p)
         /\ at'[p] = IF Count(p) = 0 THEN "done" ELSE "write"
         /\ \A q \in Client : q # p => /\ position'[q] = position[q]
                                       /\ rest'[q] = rest[q] /\ at'[q] = at[q]
<1>1. /\ position[p] \in Nat /\ Size[p] \in Nat /\ rest[p] = <<>>
      /\ position \in [Client -> Nat] /\ rest \in [Client -> Seq(Nat)]
  BY SizeAssumption DEF Flow, TypeOK, Read, ReadsWhenEmpty
<1>2. Count(p) \in Nat /\ position[p] + Count(p) <= Size[p]
  BY CountBounds DEF Flow
<1> DEFINE n == Count(p)
           s == [i \in 1 .. n |-> position[p] + i]
<1>3. Len(s) = n
  <2>1. s \in [1 .. n -> Nat]
    BY <1>1, <1>2
  <2> QED BY <1>2, <2>1, Indexed
<1>4. /\ rest' = [rest EXCEPT ![p] = s]
      /\ position' = [position EXCEPT ![p] = position[p] + n]
      /\ at' = [at EXCEPT ![p] = IF n = 0 THEN "done" ELSE "write"]
  BY DEF Read, Advanced
<1> HIDE DEF s
<1>5. /\ rest'[p] = s /\ position'[p] = position[p] + n
      /\ at'[p] = IF n = 0 THEN "done" ELSE "write"
      /\ \A q \in Client : q # p => /\ position'[q] = position[q]
                                    /\ rest'[q] = rest[q] /\ at'[q] = at[q]
  BY <1>1, <1>4 DEF Flow, TypeOK
<1> QED
  BY <1>1, <1>2, <1>3, <1>5, EmptySeq

LEMMA StepHasBytes ==
  ASSUME Flow, CopiersHaveBytes, [Next]_vars
  PROVE  CopiersHaveBytes'
<1>1. ASSUME NEW p \in Client, Read(p) PROVE CopiersHaveBytes'
  BY <1>1, ReadFills DEF CopiersHaveBytes, Client
<1>2. ASSUME NEW p \in Client, Write(p) PROVE CopiersHaveBytes'
  <2>1. /\ rest'[p] \in Seq(Nat)
        /\ at'[p] = IF rest'[p] = <<>> THEN After(p) ELSE "write"
        /\ \A q \in Client : q # p => rest'[q] = rest[q] /\ at'[q] = at[q]
    BY <1>2, WriteSends
  <2>2. p \in Copier /\ at'[p] = "write" => rest'[p] # <<>>
    BY <2>1 DEF After
  <2>3. rest'[p] # <<>> => Len(rest'[p]) > 0
    <3>1. Len(rest'[p]) \in Nat /\ (Len(rest'[p]) = 0 => rest'[p] = <<>>)
      BY <2>1, EmptySeq, LenProperties
    <3> QED BY <3>1
  <2> QED BY <2>1, <2>2, <2>3 DEF CopiersHaveBytes, Client
<1>3. ASSUME NEW p \in Client, ReadFails(p) \/ WriteFails(p)
      PROVE  CopiersHaveBytes'
  BY <1>3 DEF ReadFails, WriteFails, CopiersHaveBytes, Client, Flow, TypeOK
<1>4. CASE BreakOutput \/ (\E p \in Copier : BreakInput(p)) \/ UNCHANGED vars
  BY <1>4 DEF BreakOutput, BreakInput, vars, CopiersHaveBytes
<1> QED
  BY <1>1, <1>2, <1>3, <1>4 DEF Next, Step

LEMMA HaveBytesInvariant == Spec => [](Flow /\ CopiersHaveBytes)
<1>1. Init => CopiersHaveBytes
  BY DEF Init, CopiersHaveBytes, Client
<1>2. Flow /\ CopiersHaveBytes /\ [Next]_vars => CopiersHaveBytes'
  BY StepHasBytes
<1> QED
  BY <1>1, <1>2, FlowInvariant, PTL DEF Spec

\* Only a full Output answers zero to someone who has bytes.
LEMMA ZeroWhenFull ==
  ASSUME TypeOK, NEW n \in Nat, n > 0, Consumed(n) = 0
  PROVE  Full
<1>1. Len(bytes) \in Nat /\ Capacity \in Nat
  BY DeviceAssumption, LenProperties DEF TypeOK
<1>2. device \in {"memory", "partial", "bounded"}
  BY DeviceAssumption DEF TypeOK
<1>3. CASE device = "memory"
  BY <1>3 DEF Consumed
<1>4. CASE device = "partial"
  BY <1>4 DEF Consumed, Least
<1>5. CASE device = "bounded"
  BY <1>1, <1>5 DEF Consumed, Least, Full
<1> QED
  BY <1>2, <1>3, <1>4, <1>5

\* The effort of p in its own steps; that of the others does not change.
LEMMA ReadCounts ==
  ASSUME Flow, NEW p \in Client, Read(p)
  PROVE  /\ Effort(p)' <= Effort(p)
         /\ Ended(p)' \/ Effort(p)' < Effort(p)
         /\ \A q \in Client : q # p => Effort(q)' = Effort(q)
<1>1. PICK c \in Nat, m \in Nat, z \in Nat :
        /\ c = Count(p) /\ m = position[p] /\ z = Size[p] /\ m + c <= z
  BY ReadFills
<1>2. /\ Len(rest[p]) = 0 /\ position'[p] = m + c /\ Len(rest'[p]) = c
      /\ c = 0 => Ended(p)'
      /\ \A q \in Client : q # p => position'[q] = position[q] /\ rest'[q] = rest[q]
  BY <1>1, ReadFills DEF Ended
<1>3. Effort(p) = 2 * (z - m) /\ Effort(p)' = 2 * (z - (m + c)) + c
  BY <1>1, <1>2 DEF Effort
<1>4. \A q \in Client : q # p => Effort(q)' = Effort(q)
  BY <1>2 DEF Effort
<1>5. CASE c = 0
  BY <1>1, <1>2, <1>3, <1>4, <1>5
<1>6. CASE c > 0
  <2>1. 2 * (z - (m + c)) + c < 2 * (z - m)
    BY <1>1, <1>6
  <2> QED BY <1>1, <1>3, <1>4, <2>1
<1> QED
  BY <1>1, <1>5, <1>6

LEMMA WriteCounts ==
  ASSUME Flow, CopiersHaveBytes, NEW p \in Client, Write(p)
  PROVE  /\ Effort(p)' <= Effort(p)
         /\ Ended(p)' \/ Full \/ Effort(p)' < Effort(p)
         /\ \A q \in Client : q # p => Effort(q)' = Effort(q)
<1>1. PICK n \in Nat, l \in Nat, u \in Nat :
        /\ n = Consumed(l) /\ l = Len(rest[p]) /\ u = Size[p] - position[p]
        /\ n <= l
  <2>1. position[p] \in Nat /\ Size[p] \in Nat /\ position[p] <= Size[p]
    BY SizeAssumption DEF Flow, TypeOK
  <2> QED BY <2>1, WriteSends
<1>2. /\ Len(rest'[p]) = l - n /\ rest'[p] \in Seq(Nat)
      /\ at'[p] = IF rest'[p] = <<>> THEN After(p) ELSE "write"
      /\ \A q \in Client : q # p => rest'[q] = rest[q]
      /\ position' = position
  BY <1>1, WriteSends DEF Write
<1>3. Effort(p) = 2 * u + l /\ Effort(p)' = 2 * u + (l - n)
  BY <1>1, <1>2 DEF Effort
<1> DEFINE Goal == /\ Effort(p)' <= Effort(p)
                   /\ Ended(p)' \/ Full \/ Effort(p)' < Effort(p)
<1>4. ASSUME n > 0 PROVE Goal
  BY <1>1, <1>3, <1>4
<1>5. ASSUME n = 0, l > 0 PROVE Goal
  <2>1. Full
    BY <1>1, <1>5, ZeroWhenFull DEF Flow
  <2> QED BY <1>1, <1>3, <1>5, <2>1
<1>6. ASSUME n = 0, l = 0 PROVE Goal
  <2>1. at[p] = "write" /\ ~(Len(rest[p]) > 0)
    BY <1>1, <1>6 DEF Write
  <2>2. p \notin Copier
    BY <2>1 DEF CopiersHaveBytes
  <2>3. rest'[p] = <<>>
    BY <1>2, <1>6, EmptySeq
  <2>4. Ended(p)'
    BY <1>2, <2>2, <2>3 DEF Ended, After
  <2> QED BY <1>1, <1>3, <1>6, <2>4
<1>7. \A q \in Client : q # p => Effort(q)' = Effort(q)
  BY <1>2 DEF Effort
<1> QED
  BY <1>1, <1>4, <1>5, <1>6, <1>7

\* Every call counts: a loop calls its devices at most as often as its source
\* has bytes to read and to write, as long as the Output is not full, and only
\* a full Output answers zero to one that has bytes.
THEOREM EveryCallCounts == Spec => CallsCount
<1>1. ASSUME Flow, CopiersHaveBytes, [Next]_vars, NEW p \in Client
      PROVE  /\ Effort(p)' <= Effort(p)
             /\ Step(p) => Ended(p)' \/ Full \/ Effort(p)' < Effort(p)
  <2>0. Effort(p) \in Nat
    <3>1. /\ position[p] \in Nat /\ Size[p] \in Nat /\ position[p] <= Size[p]
          /\ Len(rest[p]) \in Nat
      BY <1>1, SizeAssumption, LenProperties DEF Flow, TypeOK
    <3> QED BY <3>1 DEF Effort
  <2>1. CASE Read(p)
    BY <1>1, <2>1, ReadCounts DEF Step
  <2>2. CASE Write(p)
    BY <1>1, <2>2, WriteCounts DEF Step
  <2>3. CASE ReadFails(p) \/ WriteFails(p)
    BY <1>1, <2>0, <2>3 DEF ReadFails, WriteFails, Effort, Ended, Flow, TypeOK
  <2>4. ASSUME NEW q \in Client, q # p, Step(q)
        PROVE  Effort(p)' <= Effort(p)
    <3>1. CASE Read(q)
      BY <1>1, <2>0, <2>4, <3>1, ReadCounts
    <3>2. CASE Write(q)
      BY <1>1, <2>0, <2>4, <3>2, WriteCounts
    <3>3. CASE ReadFails(q) \/ WriteFails(q)
      BY <2>0, <3>3 DEF ReadFails, WriteFails, Effort
    <3> QED BY <2>4, <3>1, <3>2, <3>3 DEF Step
  <2>5. ASSUME BreakOutput \/ (\E q \in Copier : BreakInput(q)) \/ UNCHANGED vars
        PROVE  Effort(p)' <= Effort(p)
    BY <2>0, <2>5 DEF BreakOutput, BreakInput, vars, Effort
  <2>6. Effort(p)' <= Effort(p)
    BY <1>1, <2>1, <2>2, <2>3, <2>4, <2>5 DEF Next, Step
  <2> QED BY <2>1, <2>2, <2>3, <2>6, <1>1 DEF Step
<1>2. Flow /\ CopiersHaveBytes /\ [Next]_vars
        => [\A p \in Client :
              /\ Effort(p)' <= Effort(p)
              /\ Step(p) => Ended(p)' \/ Full \/ Effort(p)' < Effort(p)]_vars
  BY <1>1
<1>3. Flow => \A p \in Client : Idle(p) => Full
  <2> SUFFICES ASSUME Flow, NEW p \in Client, Idle(p) PROVE Full
    OBVIOUS
  <2>1. rest[p] \in Seq(Nat) /\ TypeOK
    BY DEF Flow, TypeOK
  <2>2. PICK l \in Nat : l = Len(rest[p]) /\ l > 0
    BY <2>1, EmptySeq, LenProperties DEF Idle
  <2>3. PICK n \in Nat : n = Consumed(l) /\ n <= l
    BY <2>1, <2>2, ConsumedBounds
  <2>4. Len(Remaining(p, n)) = l - n
    BY <2>1, <2>2, <2>3, Cut DEF Remaining
  <2>5. Remaining(p, n) = rest[p]
    BY <2>2, <2>3 DEF Idle
  <2>6. n = 0
    BY <2>2, <2>3, <2>4, <2>5
  <2> QED BY <2>1, <2>2, <2>3, <2>6, ZeroWhenFull
<1> QED
  BY <1>2, <1>3, HaveBytesInvariant, PTL DEF Spec, CallsCount

\* What Streams sees of a client.
LEMMA SeenAs ==
  /\ Promise!svars = <<bytes, [p \in Client |-> Frontier(p)],
                       [p \in Client |-> IF Ended(p) THEN at[p] ELSE "open"],
                       {p \in Client : broken[p]}, failed>>
  /\ Promise!svars' = <<bytes', [p \in Client |-> Frontier(p)'],
                        [p \in Client |-> IF Ended(p)' THEN at'[p] ELSE "open"],
                        {p \in Client : broken'[p]}, failed'>>
BY DEF Promise!svars, Frontier

\* The fates of the others stay, and that of p becomes k.
LEMMA FateBecomes ==
  ASSUME NEW p \in Client, NEW k,
         k = IF Ended(p)' THEN at'[p] ELSE "open",
         \A q \in Client : q # p => at'[q] = at[q]
  PROVE  [q \in Client |-> IF Ended(q)' THEN at'[q] ELSE "open"]
           = [[q \in Client |-> IF Ended(q) THEN at[q] ELSE "open"]
                EXCEPT ![p] = k]
BY DEF Ended

LEMMA ReadStreams ==
  ASSUME Flow, EndIsTheEnd', NEW p \in Client, Read(p)
  PROVE  UNCHANGED Promise!svars \/ Promise!Finish(p)
<1>1. /\ \A q \in Client : Frontier(q)' = Frontier(q)
      /\ Frontier(p) = position[p]
  BY ReadFills DEF Frontier
<1>2. /\ at[p] = "read" /\ UNCHANGED <<bytes, broken, failed>>
      /\ at'[p] = IF Count(p) = 0 THEN "done" ELSE "write"
      /\ position'[p] = position[p] + Count(p) /\ position[p] \in Nat
      /\ \A q \in Client : q # p => at'[q] = at[q]
  BY ReadFills DEF Read
<1>3. CASE at'[p] = "write"
  <2>1. \A q \in Client : (IF Ended(q)' THEN at'[q] ELSE "open")
                            = IF Ended(q) THEN at[q] ELSE "open"
    BY <1>2, <1>3 DEF Ended
  <2> QED BY <1>1, <1>2, <2>1, SeenAs
<1>4. CASE at'[p] = "done"
  <2>1. Frontier(p) = Size[p]
    <3>1. Count(p) = 0 /\ position'[p] = Size[p]
      BY <1>2, <1>4 DEF EndIsTheEnd
    <3> QED BY <1>1, <1>2, <3>1
  <2>2. [q \in Client |-> IF Ended(q)' THEN at'[q] ELSE "open"]
          = [[q \in Client |-> IF Ended(q) THEN at[q] ELSE "open"]
               EXCEPT ![p] = "done"]
    <3>1. "done" = IF Ended(p)' THEN at'[p] ELSE "open"
      BY <1>4 DEF Ended
    <3> QED BY <1>2, <3>1, FateBecomes
  <2>3. [q \in Client |-> Frontier(q)'] = [q \in Client |-> Frontier(q)]
    BY <1>1
  <2>4. (IF Ended(p) THEN at[p] ELSE "open") = "open"
    BY <1>2 DEF Ended
  <2> QED BY <1>2, <2>1, <2>2, <2>3, <2>4 DEF Promise!Finish, Frontier
<1> QED
  BY <1>2, <1>3, <1>4

LEMMA WriteStreams ==
  ASSUME Flow, EndIsTheEnd', CopiersHaveBytes, NEW p \in Client, Write(p)
  PROVE  \/ UNCHANGED Promise!svars \/ Promise!Finish(p)
         \/ \E n \in 1 .. Size[p] : Promise!Deliver(p, n)
<1>1. PICK n \in Nat, l \in Nat, f \in Nat :
        /\ n = Consumed(Len(rest[p])) /\ l = Len(rest[p]) /\ n <= l
        /\ f = Frontier(p) /\ f + l = position[p]
  BY WriteSends
<1>2. /\ bytes' = bytes \o [i \in 1 .. n |-> <<p, f + i>>]
      /\ rest'[p] \in Seq(Nat) /\ Len(rest'[p]) = l - n
      /\ at'[p] = IF rest'[p] = <<>> THEN After(p) ELSE "write"
      /\ \A q \in Client : q # p => rest'[q] = rest[q] /\ at'[q] = at[q]
      /\ at[p] = "write" /\ ~failed /\ UNCHANGED <<position, broken, failed>>
  BY <1>1, WriteSends DEF Write
<1>3. position[p] \in Nat /\ Size[p] \in Nat /\ position[p] <= Size[p]
  BY SizeAssumption DEF Flow, TypeOK
<1>4. Frontier(p)' = f + n /\ \A q \in Client : q # p => Frontier(q)' = Frontier(q)
  <2>1. position'[p] = position[p]
    BY <1>2
  <2>2. Frontier(p)' = f + n
    BY <1>1, <1>2, <1>3, <2>1 DEF Frontier
  <2> QED BY <1>2, <2>2 DEF Frontier
<1>5. at'[p] \in {"read", "write", "done"}
      /\ (at'[p] = "done" => f + n = Size[p])
  <2>1. at'[p] \in {"read", "write", "done"}
    BY <1>2 DEF After
  <2>2. ASSUME at'[p] = "done" PROVE f + n = Size[p]
    <3>1. rest'[p] = <<>>
      BY <1>2, <2>2
    <3>2. l - n = 0
      BY <1>2, <3>1, EmptySeq
    <3>3. position'[p] = Size[p]
      BY <2>2 DEF EndIsTheEnd
    <3> QED BY <1>1, <1>2, <3>2, <3>3
  <2> QED BY <2>1, <2>2
<1> DEFINE k == IF Ended(p)' THEN at'[p] ELSE "open"
<1>6. [q \in Client |-> IF Ended(q)' THEN at'[q] ELSE "open"]
        = [[q \in Client |-> IF Ended(q) THEN at[q] ELSE "open"] EXCEPT ![p] = k]
  BY <1>2, FateBecomes
<1>7. (IF Ended(p) THEN at[p] ELSE "open") = "open"
  BY <1>2 DEF Ended
<1>8. k = "open" \/ (k = "done" /\ f + n = Size[p])
  BY <1>5 DEF Ended
<1>9. k = "open" =>
        [q \in Client |-> IF Ended(q)' THEN at'[q] ELSE "open"]
          = [q \in Client |-> IF Ended(q) THEN at[q] ELSE "open"]
  <2> HIDE DEF k
  <2> QED BY <1>6, <1>7
<1> HIDE DEF k
<1>10. CASE n = 0
  <2>1. bytes' = bytes
    <3> DEFINE e == [i \in 1 .. 0 |-> <<p, f + i>>]
    <3>1. e \in [1 .. 0 -> Client \X Nat]
      BY <1>1
    <3> HIDE DEF e
    <3>2. e \in Seq(Client \X Nat) /\ Len(e) = 0
      BY <3>1, Indexed
    <3>3. e = <<>>
      BY <3>2, EmptySeq
    <3>4. bytes \in Seq(Client \X Nat)
      BY DEF Flow, TypeOK
    <3> QED BY <1>2, <1>10, <3>3, <3>4, ConcatEmptySeq DEF e
  <2>2. [q \in Client |-> Frontier(q)'] = [q \in Client |-> Frontier(q)]
    <3>1. Frontier(p)' = Frontier(p)
      BY <1>1, <1>4, <1>10
    <3> QED BY <1>4, <3>1
  <2>3. CASE k = "open"
    BY <1>2, <1>9, <2>1, <2>2, <2>3, SeenAs
  <2>4. CASE k = "done" /\ f + n = Size[p]
    <3>1. Frontier(p) = Size[p]
      BY <1>1, <1>10, <2>4
    <3> QED
      BY <1>2, <1>6, <1>7, <2>1, <2>2, <2>4, <3>1 DEF Promise!Finish, Frontier
  <2> QED BY <1>8, <2>3, <2>4
<1>11. CASE n > 0
  <2>1. n \in 1 .. Size[p] /\ f + n <= Size[p]
    BY <1>1, <1>3, <1>11
  <2>2. [q \in Client |-> Frontier(q)']
          = [[q \in Client |-> Frontier(q)] EXCEPT ![p] = f + n]
    BY <1>4
  <2>3. /\ bytes' = bytes \o [i \in 1 .. n |-> <<p, Frontier(p) + i>>]
        /\ Frontier(p) + n <= Size[p]
        /\ [q \in Client |-> Frontier(q)']
             = [[q \in Client |-> Frontier(q)] EXCEPT ![p] = Frontier(p) + n]
    BY <1>1, <1>2, <2>1, <2>2
  <2>4. \/ [q \in Client |-> IF Ended(q)' THEN at'[q] ELSE "open"]
             = [q \in Client |-> IF Ended(q) THEN at[q] ELSE "open"]
        \/ /\ Frontier(p) + n = Size[p]
           /\ [q \in Client |-> IF Ended(q)' THEN at'[q] ELSE "open"]
                = [[q \in Client |-> IF Ended(q) THEN at[q] ELSE "open"]
                     EXCEPT ![p] = "done"]
    BY <1>1, <1>6, <1>8, <1>9
  <2>5. Promise!Deliver(p, n)
    BY <1>2, <1>7, <2>3, <2>4 DEF Promise!Deliver, Frontier
  <2> QED BY <2>1, <2>5
<1> QED
  BY <1>10, <1>11

LEMMA FailStreams ==
  ASSUME Flow, NEW p \in Client, ReadFails(p) \/ WriteFails(p)
  PROVE  Promise!Fail(p)
<1>1. /\ ~Ended(p)
      /\ at'[p] = "error"
      /\ failed \/ broken[p]
      /\ \A q \in Client : q # p => at'[q] = at[q]
      /\ UNCHANGED <<position, bytes, rest, broken, failed>>
  BY DEF ReadFails, WriteFails, Ended, Flow, TypeOK
<1>2. [q \in Client |-> IF Ended(q)' THEN at'[q] ELSE "open"]
        = [[q \in Client |-> IF Ended(q) THEN at[q] ELSE "open"]
             EXCEPT ![p] = "error"]
  <2>1. "error" = IF Ended(p)' THEN at'[p] ELSE "open"
    BY <1>1 DEF Ended
  <2> QED BY <1>1, <2>1, FateBecomes
<1>3. (IF Ended(p) THEN at[p] ELSE "open") = "open"
  BY <1>1
<1>4. [q \in Client |-> Frontier(q)'] = [q \in Client |-> Frontier(q)]
  BY <1>1 DEF Frontier
<1>5. {q \in Client : broken'[q]} = {q \in Client : broken[q]}
  BY <1>1
<1> QED
  BY <1>1, <1>2, <1>3, <1>4, <1>5 DEF Promise!Fail, Frontier

\* If no caller supplies an empty buffer, the Output gets the bytes of every
\* client as a stream, whatever the devices consume and whenever they fail, and
\* an end without an error is the end of the stream.
THEOREM TransferImplementsStreams ==
  ASSUME \A p \in Copier : Room[p] > 0
  PROVE  Spec => ImplementsStreams
<1>1. Init => Promise!SInit
  <2> SUFFICES ASSUME Init PROVE Promise!SInit
    OBVIOUS
  <2>1. Flow
    BY InitFlow
  <2>2. \A p \in Client : Frontier(p) = 0
    <3>1. ASSUME NEW p \in Client PROVE Frontier(p) = 0
      <4>1. CASE p \in Copier
        BY <4>1, EmptySeq DEF Init, Frontier
      <4>2. CASE p \notin Copier
        <5> DEFINE f == [i \in 1 .. Size[p] |-> i]
        <5>1. f \in [1 .. Size[p] -> Nat] /\ Size[p] \in Nat
          BY SizeAssumption
        <5>2. rest[p] = f /\ position[p] = Size[p]
          BY <4>2 DEF Init
        <5> HIDE DEF f
        <5>3. Len(f) = Size[p]
          BY <5>1, Indexed
        <5> QED BY <5>1, <5>2, <5>3 DEF Frontier
      <4> QED BY <4>1, <4>2
    <3> QED BY <3>1
  <2>3. \A p \in Client : ~Ended(p) /\ ~broken[p]
    BY DEF Init, Ended
  <2>4. /\ bytes = <<>> /\ failed = FALSE
        /\ [p \in Client |-> Frontier(p)] = [p \in Client |-> 0]
        /\ [p \in Client |-> IF Ended(p) THEN at[p] ELSE "open"]
             = [p \in Client |-> "open"]
        /\ {p \in Client : broken[p]} = {}
    BY <2>2, <2>3 DEF Init
  <2> QED BY <2>4 DEF Promise!SInit, Frontier
<1>2. ASSUME Flow, CopiersHaveBytes, EndIsTheEnd', [Next]_vars
      PROVE  Promise!SNext \/ UNCHANGED Promise!svars
  <2>1. ASSUME NEW p \in Client, Read(p)
        PROVE  Promise!SNext \/ UNCHANGED Promise!svars
    BY <1>2, <2>1, ReadStreams DEF Promise!SNext
  <2>2. ASSUME NEW p \in Client, Write(p)
        PROVE  Promise!SNext \/ UNCHANGED Promise!svars
    BY <1>2, <2>2, WriteStreams DEF Promise!SNext
  <2>3. ASSUME NEW p \in Client, ReadFails(p) \/ WriteFails(p)
        PROVE  Promise!SNext
    BY <1>2, <2>3, FailStreams DEF Promise!SNext
  <2>4. CASE BreakOutput
    BY <2>4 DEF BreakOutput, Promise!SNext, Promise!OutputFails, Ended
  <2>5. ASSUME NEW p \in Copier, BreakInput(p)
        PROVE  Promise!SNext
    <3>1. /\ {q \in Client : broken'[q]} = {q \in Client : broken[q]} \cup {p}
          /\ UNCHANGED <<position, failed, bytes, rest, at>> /\ p \in Client
      BY <1>2, <2>5 DEF BreakInput, Flow, TypeOK, Client
    <3>2. Promise!InputFails(p)
      BY <3>1 DEF Promise!InputFails, Ended
    <3> QED BY <3>1, <3>2 DEF Promise!SNext
  <2>6. CASE UNCHANGED vars
    BY <2>6 DEF vars, Promise!svars, Ended
  <2> QED BY <1>2, <2>1, <2>2, <2>3, <2>4, <2>5, <2>6 DEF Next, Step
<1>3. Flow /\ CopiersHaveBytes /\ EndIsTheEnd' /\ [Next]_vars
        => [Promise!SNext]_(Promise!svars)
  BY <1>2
<1>4. Init => EndIsTheEnd
  BY DEF Init, EndIsTheEnd
<1>5. Flow /\ EndIsTheEnd /\ [Next]_vars => EndIsTheEnd'
  BY NextEnd
<1> QED
  BY <1>1, <1>3, <1>4, <1>5, HaveBytesInvariant, PTL
  DEF Spec, ImplementsStreams, Promise!SSpec
=============================================================================
