---------------------------- MODULE RunnerProofs ----------------------------
(***************************************************************************)
(* What holds of ManagedRunner for every number of sessions and runners,   *)
(* every size of an inbox, every depth and every bound.                    *)
(*                                                                         *)
(* A daemon touches one inbox at a time, so the invariant is about one     *)
(* session: Good, of the values the variables have for it.  What the       *)
(* operations do to a good inbox is proved first; the actions then only    *)
(* say which operation it is, and that the other sessions rest.            *)
(***************************************************************************)
EXTENDS ManagedRunner, SubsequenceTheorems

Messages ==
    [from : Sessions, to : Sessions, conversation : Nat, depth : 0 .. MaxDepth,
     terminal : BOOLEAN, answers : SUBSET Nat]

\* An item is what its event makes it, so that one with its number is the same.
ItemsOf(lg) == {Item(n, lg[n]) : n \in 1 .. Len(lg)}

\* The events that the items of a list stand for, and those that all claims hold.
Seqs(q) == {q[k].seq : k \in 1 .. Len(q)}
HeldSeqs(box) == UNION {Seqs(a) : a \in box.claims}

\* An inbox: no item is there twice, and a claim has what should wake its agent.
Boxes(lg) ==
    {box \in [pending : Seq(ItemsOf(lg)), claims : SUBSET Seq(ItemsOf(lg))] :
        /\ Distinct(box.pending)
        /\ \A a \in box.claims :
              Distinct(a) /\ a # <<>> /\ \A k \in 1 .. Len(a) : a[k].wake
        /\ \A a, b \in box.claims : a # b => Seqs(a) \cap Seqs(b) = {}
        /\ \A a \in box.claims : Seqs(a) \cap Seqs(box.pending) = {}}

-----------------------------------------------------------------------------
(***************************************************************************)
(* Items and lists of them.                                                *)
(***************************************************************************)
LEMMA ItemFacts ==
    ASSUME NEW lg \in Seq(Messages), NEW i \in ItemsOf(lg)
    PROVE  /\ i.seq \in 1 .. Len(lg) /\ i = Item(i.seq, lg[i.seq])
           /\ i.from \in Sessions /\ i.conversation \in Nat /\ i.depth \in 0 .. MaxDepth
           /\ i.wake \in BOOLEAN
           /\ i.wake => i.depth < MaxDepth
  <1>1. PICK n \in 1 .. Len(lg) : i = Item(n, lg[n])
    BY DEF ItemsOf
  <1>2. lg[n] \in Messages
    BY <1>1
  <1>. QED
    BY <1>1, <1>2 DEF Item, ShouldWake, Messages

LEMMA SameSeqSameItem ==
    ASSUME NEW lg \in Seq(Messages), NEW i \in ItemsOf(lg), NEW j \in ItemsOf(lg), i.seq = j.seq
    PROVE  i = j
  BY ItemFacts

LEMMA SeqsMember ==
    ASSUME NEW q, NEW n
    PROVE  n \in Seqs(q) <=> \E k \in 1 .. Len(q) : q[k].seq = n
  BY DEF Seqs

LEMMA SeqsToSet ==
    ASSUME NEW S, NEW q \in Seq(S)
    PROVE  {i.seq : i \in ToSet(q)} = Seqs(q)
  BY DEF ToSet, Seqs

LEMMA SeqsInLog ==
    ASSUME NEW lg \in Seq(Messages), NEW q \in Seq(ItemsOf(lg))
    PROVE  Seqs(q) \subseteq 1 .. Len(lg)
  <1>1. \A k \in 1 .. Len(q) : q[k] \in ItemsOf(lg)
    OBVIOUS
  <1>2. \A k \in 1 .. Len(q) : q[k].seq \in 1 .. Len(lg)
    BY <1>1, ItemFacts
  <1>. QED
    BY <1>2 DEF Seqs

LEMMA HeldMember ==
    ASSUME NEW box, NEW n
    PROVE  n \in HeldSeqs(box) <=> \E a \in box.claims : n \in Seqs(a)
  BY DEF HeldSeqs

\* The module's own words for the events of an inbox.
LEMMA PendingIsSeqs ==
    ASSUME NEW lg, NEW box \in Boxes(lg)
    PROVE  Pending(box) = Seqs(box.pending) /\ Held(box) = HeldSeqs(box)
  <1>1. box.pending \in Seq(ItemsOf(lg)) /\ \A a \in box.claims : a \in Seq(ItemsOf(lg))
    BY DEF Boxes
  <1>2. Pending(box) = Seqs(box.pending)
    BY <1>1, SeqsToSet DEF Pending
  <1>3. \A a \in box.claims : {i.seq : i \in ToSet(a)} = Seqs(a)
    BY <1>1, SeqsToSet
  <1>4. Held(box) = HeldSeqs(box)
    BY <1>3 DEF Held, HeldSeqs
  <1>. QED
    BY <1>2, <1>4

LEMMA ItemsGrow ==
    ASSUME NEW lg \in Seq(Messages), NEW m \in Messages
    PROVE  /\ Append(lg, m) \in Seq(Messages)
           /\ Len(Append(lg, m)) = Len(lg) + 1
           /\ \A n \in 1 .. Len(lg) : Append(lg, m)[n] = lg[n]
           /\ Append(lg, m)[Len(lg) + 1] = m
           /\ ItemsOf(lg) \subseteq ItemsOf(Append(lg, m))
  <1>. DEFINE l == Append(lg, m)
  <1>1. /\ l \in Seq(Messages) /\ Len(l) = Len(lg) + 1 /\ Len(lg) \in Nat
        /\ \A n \in 1 .. Len(lg) : l[n] = lg[n]
        /\ l[Len(lg) + 1] = m
    BY AppendProperties
  <1>. HIDE DEF l
  <1>2. \A n \in 1 .. Len(lg) : n \in 1 .. Len(l) /\ Item(n, lg[n]) = Item(n, l[n])
    BY <1>1
  <1>3. ItemsOf(lg) \subseteq ItemsOf(l)
    BY <1>2 DEF ItemsOf
  <1>. QED
    BY <1>1, <1>3 DEF l

LEMMA BoxesGrow ==
    ASSUME NEW lg \in Seq(Messages), NEW m \in Messages, NEW box \in Boxes(lg)
    PROVE  box \in Boxes(Append(lg, m))
  <1>. DEFINE I == ItemsOf(lg)
              J == ItemsOf(Append(lg, m))
  <1>1. I \subseteq J
    BY ItemsGrow
  <1>2. box.pending \in Seq(I) /\ box.claims \in SUBSET Seq(I) /\
        box = [pending |-> box.pending, claims |-> box.claims]
    BY DEF Boxes
  <1>. HIDE DEF I, J
  <1>3. \A q \in Seq(I) : q \in Seq(J)
    BY <1>1, SeqMonotonic
  <1>4. box \in [pending : Seq(J), claims : SUBSET Seq(J)]
    BY <1>2, <1>3
  <1>. QED
    BY <1>4 DEF Boxes, J
-----------------------------------------------------------------------------
(***************************************************************************)
(* The operations of an inbox.                                             *)
(***************************************************************************)
LEMMA EmptyFacts ==
    ASSUME NEW lg
    PROVE  EmptyInbox \in Boxes(lg) /\ Seqs(EmptyInbox.pending) = {} /\ HeldSeqs(EmptyInbox) = {}
           /\ EmptyInbox.claims = {}
  <1>1. EmptyInbox.pending = <<>> /\ EmptyInbox.claims = {}
    BY DEF EmptyInbox
  <1>2. Seqs(<<>>) = {}
    BY DEF Seqs
  <1>3. EmptyInbox \in [pending : Seq(ItemsOf(lg)), claims : SUBSET Seq(ItemsOf(lg))]
    <2>1. <<>> \in Seq(ItemsOf(lg))
      OBVIOUS
    <2>. HIDE DEF EmptyInbox
    <2>. QED
      BY <2>1 DEF EmptyInbox
  <1>. QED
    BY <1>1, <1>2, <1>3 DEF Boxes, HeldSeqs, Distinct

\* The newest items are a suffix.
LEMMA NewestFacts ==
    ASSUME NEW S, NEW q \in Seq(S)
    PROVE  /\ Newest(q) \in Seq(S)
           /\ Distinct(q) => Distinct(Newest(q))
           /\ \A k \in 1 .. Len(Newest(q)) : \E j \in 1 .. Len(q) : Newest(q)[k] = q[j]
  <1>. DEFINE from == IF Len(q) > MaxInbox THEN Len(q) - MaxInbox + 1 ELSE 1
              r == Newest(q)
  <1>1. Len(q) \in Nat /\ MaxInbox \in Nat /\ MaxInbox > 0
    BY InboxAssumption
  <1>2. from \in 1 .. Len(q) + 1
    BY <1>1
  <1>3. r = SubSeq(q, from, Len(q))
    BY DEF Newest
  <1>. HIDE DEF from
  <1>4. /\ r \in Seq(S) /\ Len(r) = Len(q) - from + 1
        /\ \A k \in 1 .. Len(q) - from + 1 : r[k] = q[from + k - 1]
    BY <1>1, <1>2, <1>3, SubSeqProperties
  <1>. HIDE DEF r
  <1>5. \A k \in 1 .. Len(r) : from + k - 1 \in 1 .. Len(q) /\ r[k] = q[from + k - 1]
    BY <1>1, <1>2, <1>4
  <1>6. Distinct(q) => Distinct(r)
    <2>1. ASSUME Distinct(q), NEW j \in 1 .. Len(r), NEW k \in 1 .. Len(r), r[j] = r[k]
          PROVE  j = k
      <3>1. from + j - 1 = from + k - 1
        BY <1>5, <2>1 DEF Distinct
      <3>. QED
        BY <1>2, <3>1
    <2>. QED
      BY <2>1 DEF Distinct
  <1>. QED
    BY <1>4, <1>5, <1>6 DEF r

LEMMA EnqueueFacts ==
    ASSUME NEW lg \in Seq(Messages), NEW box \in Boxes(lg), NEW n \in 1 .. Len(lg),
           n \notin Seqs(box.pending), n \notin HeldSeqs(box)
    PROVE  /\ Enqueue(box, Item(n, lg[n])) \in Boxes(lg)
           /\ Enqueue(box, Item(n, lg[n])).claims = box.claims
           /\ Seqs(Enqueue(box, Item(n, lg[n])).pending) \subseteq Seqs(box.pending) \cup {n}
  <1>. DEFINE i == Item(n, lg[n])
              p == Append(box.pending, i)
              b == Enqueue(box, i)
              S == ItemsOf(lg)
  <1>1. i \in S /\ i.seq = n
    BY DEF ItemsOf, Item
  <1>2. /\ box.pending \in Seq(S) /\ box.claims \in SUBSET Seq(S) /\ Distinct(box.pending)
        /\ box = [pending |-> box.pending, claims |-> box.claims]
    BY DEF Boxes
  <1>. HIDE DEF i, S
  <1>3. /\ p \in Seq(S) /\ Len(p) = Len(box.pending) + 1 /\ Len(box.pending) \in Nat
        /\ \A k \in 1 .. Len(box.pending) : p[k] = box.pending[k]
        /\ p[Len(box.pending) + 1] = i
    BY <1>1, <1>2, AppendProperties
  <1>4. \A k \in 1 .. Len(box.pending) : box.pending[k] # i
    BY <1>1, SeqsMember
  <1>. HIDE DEF p
  <1>5. Distinct(p)
    <2>1. \A k \in 1 .. Len(p) : k \in 1 .. Len(box.pending) \/ k = Len(box.pending) + 1
      BY <1>3
    <2>. QED
      BY <1>2, <1>3, <1>4, <2>1 DEF Distinct
  <1>6. /\ b.pending = Newest(p) /\ b.claims = box.claims
        /\ b = [pending |-> Newest(p), claims |-> box.claims]
    BY <1>2 DEF Enqueue, p
  <1>. HIDE DEF b
  <1>7. /\ Newest(p) \in Seq(S) /\ Distinct(Newest(p))
        /\ \A k \in 1 .. Len(Newest(p)) : \E j \in 1 .. Len(p) : Newest(p)[k] = p[j]
    BY <1>3, <1>5, NewestFacts
  <1>8. Seqs(b.pending) \subseteq Seqs(box.pending) \cup {n}
    <2>1. ASSUME NEW x \in Seqs(Newest(p))
          PROVE  x \in Seqs(box.pending) \cup {n}
      <3>1. PICK k \in 1 .. Len(Newest(p)) : Newest(p)[k].seq = x
        BY <2>1, SeqsMember
      <3>2. PICK j \in 1 .. Len(p) : Newest(p)[k] = p[j]
        BY <1>7
      <3>3. CASE j \in 1 .. Len(box.pending)
        BY <1>3, <3>1, <3>2, <3>3, SeqsMember
      <3>4. CASE j = Len(box.pending) + 1
        BY <1>1, <1>3, <3>1, <3>2, <3>4
      <3>. QED
        BY <1>3, <3>3, <3>4
    <2>. QED
      BY <1>6, <2>1
  <1>9. b \in [pending : Seq(S), claims : SUBSET Seq(S)]
    BY <1>2, <1>6, <1>7
  <1>10. \A a \in b.claims : Seqs(a) \cap Seqs(b.pending) = {}
    <2>1. \A a \in box.claims : Seqs(a) \cap Seqs(box.pending) = {} /\ n \notin Seqs(a)
      BY HeldMember DEF Boxes
    <2>. QED
      BY <1>6, <1>8, <2>1
  <1>11. b \in Boxes(lg)
    <2>1. Distinct(b.pending)
      BY <1>6, <1>7
    <2>2. \A a \in b.claims : Distinct(a) /\ a # <<>> /\ \A k \in 1 .. Len(a) : a[k].wake
      BY <1>6 DEF Boxes
    <2>3. \A a, c \in b.claims : a # c => Seqs(a) \cap Seqs(c) = {}
      BY <1>6 DEF Boxes
    <2>. QED
      BY <1>9, <1>10, <2>1, <2>2, <2>3 DEF Boxes, S
  <1>. QED
    BY <1>6, <1>8, <1>11 DEF b, i

\* What a claim takes and what it leaves are the whole and have nothing in common.
LEMMA ClaimFacts ==
    ASSUME NEW lg \in Seq(Messages), NEW box \in Boxes(lg), Eligible(box) # {}
    PROVE  LET c == Claimed(box)
               b == Claim(box)
           IN  /\ c # <<>>
               /\ b \in Boxes(lg)
               /\ b.claims = box.claims \cup {c}
               /\ Seqs(c) \cup Seqs(b.pending) = Seqs(box.pending)
               /\ Seqs(c) \cap Seqs(b.pending) = {}
  <1>. DEFINE p == box.pending
              S == ItemsOf(lg)
              first == p[CHOOSE i \in Eligible(box) : \A j \in Eligible(box) : i <= j]
              I == {i \in Eligible(box) :
                        p[i].from = first.from /\ p[i].conversation = first.conversation}
              c == Claimed(box)
              J == {i \in DOMAIN p : p[i] \notin ToSet(c)}
              r == Remaining(box, c)
              b == Claim(box)
  <1>1. /\ p \in Seq(S) /\ box.claims \in SUBSET Seq(S) /\ Distinct(p)
        /\ box = [pending |-> p, claims |-> box.claims]
    BY DEF Boxes
  <1>2. DOMAIN p = 1 .. Len(p) /\ Len(p) \in Nat
    BY <1>1
  <1>3. I # {} /\ I \in SUBSET (1 .. Len(p)) /\ \A i \in I : p[i].wake
    <2>1. Eligible(box) \in SUBSET (1 .. Len(p))
      BY <1>2 DEF Eligible
    <2>2. \E i \in Eligible(box) : \A j \in Eligible(box) : i <= j
      <3>. DEFINE E == Eligible(box)
                  q == Ascending(E)
      <3>1. /\ q \in [1 .. Cardinality(E) -> E] /\ Cardinality(E) \in Nat /\ Cardinality(E) > 0
            /\ Increasing(q)
            /\ \A i \in E : \E k \in 1 .. Cardinality(E) : q[k] = i
        BY <1>2, <2>1, AscendingFacts
      <3>. HIDE DEF E, q
      <3>2. 1 \in 1 .. Cardinality(E) /\ q[1] \in E /\ DOMAIN q = 1 .. Cardinality(E)
        BY <3>1
      <3>3. \A k \in 1 .. Cardinality(E) : k = 1 \/ q[1] < q[k]
        BY <3>1, <3>2 DEF Increasing
      <3>4. \A i \in E : i \in Int
        BY <2>1 DEF E
      <3>5. \A i \in E : q[1] <= i
        BY <3>1, <3>2, <3>3, <3>4
      <3>. QED
        BY <3>2, <3>5 DEF E
    <2>3. (CHOOSE i \in Eligible(box) : \A j \in Eligible(box) : i <= j) \in I
      BY <2>2
    <2>. QED
      BY <2>1, <2>3 DEF Eligible
  <1>4. c = Subsequence(p, I)
    BY DEF Claimed
  <1>. HIDE DEF I, c, S, p
  <1>17. LET q == Subsequence(p, I)
         IN  /\ q \in Seq(S) /\ q # <<>> /\ Distinct(q)
             /\ \A k \in 1 .. Len(q) : \E i \in I : q[k] = p[i]
             /\ \A i \in I : \E k \in 1 .. Len(q) : q[k] = p[i]
    BY <1>1, <1>3, SubsequenceFacts
  <1>5. /\ c \in Seq(S) /\ c # <<>> /\ Distinct(c)
        /\ \A k \in 1 .. Len(c) : \E i \in I : c[k] = p[i]
        /\ \A i \in I : \E k \in 1 .. Len(c) : c[k] = p[i]
    BY <1>4, <1>17
  <1>6. ToSet(c) = {c[k] : k \in 1 .. Len(c)}
    BY <1>5 DEF ToSet
  <1>7. J \in SUBSET (1 .. Len(p)) /\ r = Subsequence(p, J)
    BY <1>2 DEF Remaining, p
  <1>8. \A i \in 1 .. Len(p) : i \in I \/ i \in J
    <2>1. ASSUME NEW i \in 1 .. Len(p), i \notin J
          PROVE  i \in I
      <3>1. PICK k \in 1 .. Len(c) : c[k] = p[i]
        BY <1>2, <1>6, <2>1
      <3>2. PICK j \in I : c[k] = p[j]
        BY <1>5
      <3>3. j = i
        BY <1>1, <1>3, <3>1, <3>2 DEF Distinct
      <3>. QED
        BY <3>2, <3>3
    <2>. QED
      BY <2>1
  <1>9. \A i \in J : \A k \in 1 .. Len(c) : p[i] # c[k]
    BY <1>6
  <1>. HIDE DEF J, r
  <1>10. /\ r \in Seq(S) /\ Distinct(r)
         /\ \A k \in 1 .. Len(r) : \E i \in J : r[k] = p[i]
         /\ \A i \in J : \E k \in 1 .. Len(r) : r[k] = p[i]
    <2>1. LET q == Subsequence(p, J)
          IN  /\ q \in Seq(S) /\ Distinct(q)
              /\ \A k \in 1 .. Len(q) : \E i \in J : q[k] = p[i]
              /\ \A i \in J : \E k \in 1 .. Len(q) : q[k] = p[i]
      BY <1>1, <1>7, SubsequenceFacts
    <2>. QED
      BY <1>7, <2>1
  <1>11. b = [pending |-> r, claims |-> box.claims \cup {c}]
    BY DEF Claim, r, c, p
  <1>. HIDE DEF b
  <1>12. Seqs(c) \cup Seqs(r) = Seqs(p)
    <2>1. \A n \in Seqs(c) \cup Seqs(r) : n \in Seqs(p)
      <3>1. \A k \in 1 .. Len(c) : \E i \in 1 .. Len(p) : c[k] = p[i]
        BY <1>3, <1>5
      <3>2. \A k \in 1 .. Len(r) : \E i \in 1 .. Len(p) : r[k] = p[i]
        BY <1>7, <1>10
      <3>3. ASSUME NEW n, n \in Seqs(c)
            PROVE  n \in Seqs(p)
        BY <3>1, <3>3, SeqsMember
      <3>4. ASSUME NEW n, n \in Seqs(r)
            PROVE  n \in Seqs(p)
        BY <3>2, <3>4, SeqsMember
      <3>. QED
        BY <3>3, <3>4
    <2>2. ASSUME NEW n \in Seqs(p)
          PROVE  n \in Seqs(c) \cup Seqs(r)
      <3>1. PICK i \in 1 .. Len(p) : p[i].seq = n
        BY <2>2, SeqsMember
      <3>2. CASE i \in I
        BY <1>5, <3>1, <3>2, SeqsMember
      <3>3. CASE i \in J
        BY <1>10, <3>1, <3>3, SeqsMember
      <3>. QED
        BY <1>8, <3>2, <3>3
    <2>. QED
      BY <2>1, <2>2
  <1>13. Seqs(c) \cap Seqs(r) = {}
    <2>. SUFFICES ASSUME NEW n \in Seqs(c), n \in Seqs(r)
                  PROVE  FALSE
      OBVIOUS
    <2>1. PICK k \in 1 .. Len(c) : c[k].seq = n
      BY SeqsMember
    <2>2. PICK l \in 1 .. Len(r) : r[l].seq = n
      BY SeqsMember
    <2>3. c[k] \in S /\ r[l] \in S
      BY <1>5, <1>10
    <2>4. c[k] = r[l]
      BY <2>1, <2>2, <2>3, SameSeqSameItem DEF S
    <2>. QED
      BY <1>9, <1>10, <2>4
  <1>14. \A k \in 1 .. Len(c) : c[k].wake
    BY <1>3, <1>5
  <1>15. \A a \in box.claims : Seqs(a) \cap Seqs(p) = {}
    BY DEF Boxes, p
  <1>16. b \in Boxes(lg)
    <2>1. b \in [pending : Seq(S), claims : SUBSET Seq(S)]
      BY <1>1, <1>5, <1>10, <1>11
    <2>2. \A a \in b.claims : Distinct(a) /\ a # <<>> /\ \A k \in 1 .. Len(a) : a[k].wake
      BY <1>5, <1>11, <1>14 DEF Boxes
    <2>3. \A a, d \in b.claims : a # d => Seqs(a) \cap Seqs(d) = {}
      <3>1. \A a, d \in box.claims : a # d => Seqs(a) \cap Seqs(d) = {}
        BY DEF Boxes
      <3>2. \A a \in box.claims : Seqs(a) \cap Seqs(c) = {}
        BY <1>12, <1>15
      <3>. QED
        BY <1>11, <3>1, <3>2
    <2>4. \A a \in b.claims : Seqs(a) \cap Seqs(b.pending) = {}
      BY <1>11, <1>12, <1>13, <1>15
    <2>. QED
      BY <1>10, <1>11, <2>1, <2>2, <2>3, <2>4 DEF Boxes, S
  <1>. QED
    BY <1>5, <1>11, <1>12, <1>13, <1>16 DEF b, c, r, p

\* A claim that goes: what the other claims hold is the rest of what was held.
LEMMA WithoutClaim ==
    ASSUME NEW lg \in Seq(Messages), NEW box \in Boxes(lg), NEW a \in box.claims,
           NEW b, b.claims = box.claims \ {a}
    PROVE  /\ HeldSeqs(b) \cup Seqs(a) = HeldSeqs(box)
           /\ HeldSeqs(b) \cap Seqs(a) = {}
  <1>1. \A c \in box.claims : c # a => Seqs(c) \cap Seqs(a) = {}
    BY DEF Boxes
  <1>2. \A n : n \in HeldSeqs(b) <=> \E c \in box.claims : c # a /\ n \in Seqs(c)
    BY HeldMember
  <1>3. \A n : n \in HeldSeqs(box) <=> \E c \in box.claims : n \in Seqs(c)
    BY HeldMember
  <1>. QED
    BY <1>1, <1>2, <1>3

LEMMA CompleteFacts ==
    ASSUME NEW lg \in Seq(Messages), NEW box \in Boxes(lg), NEW a \in box.claims
    PROVE  /\ Complete(box, a) \in Boxes(lg)
           /\ Complete(box, a).pending = box.pending
           /\ Complete(box, a).claims = box.claims \ {a}
  <1>. DEFINE b == Complete(box, a)
              P == Seq(ItemsOf(lg))
  <1>1. box \in [pending : P, claims : SUBSET P]
    BY DEF Boxes
  <1>. HIDE DEF P
  <1>2. /\ b \in [pending : P, claims : SUBSET P]
        /\ b.pending = box.pending /\ b.claims = box.claims \ {a}
    BY <1>1 DEF Complete
  <1>. HIDE DEF b
  <1>3. b \in Boxes(lg)
    BY <1>2 DEF Boxes, P
  <1>. QED
    BY <1>2, <1>3 DEF b

LEMMA ConsumeFacts ==
    ASSUME NEW lg \in Seq(Messages), NEW box \in Boxes(lg)
    PROVE  /\ Consume(box) \in Boxes(lg)
           /\ Seqs(Consume(box).pending) = {}
           /\ Consume(box).claims = box.claims
  <1>1. /\ Consume(box) = [pending |-> <<>>, claims |-> box.claims]
        /\ box.claims \in SUBSET Seq(ItemsOf(lg))
    BY DEF Boxes, Consume
  <1>2. <<>> \in Seq(ItemsOf(lg)) /\ Distinct(<<>>) /\ Seqs(<<>>) = {}
    BY DEF Distinct, Seqs
  <1>3. Consume(box) \in [pending : Seq(ItemsOf(lg)), claims : SUBSET Seq(ItemsOf(lg))]
    BY <1>1, <1>2
  <1>. QED
    BY <1>1, <1>2, <1>3 DEF Boxes

LEMMA ConcatDistinct ==
    ASSUME NEW S, NEW p \in Seq(S), NEW q \in Seq(S)
    PROVE  /\ p \o q \in Seq(S)
           /\ Seqs(p \o q) = Seqs(p) \cup Seqs(q)
           /\ Distinct(p) /\ Distinct(q) /\ Seqs(p) \cap Seqs(q) = {} => Distinct(p \o q)
  <1>. DEFINE r == p \o q
              m == Len(p)
              n == Len(q)
  <1>1. /\ r \in Seq(S) /\ Len(r) = m + n /\ m \in Nat /\ n \in Nat
        /\ \A k \in 1 .. m + n : r[k] = IF k <= m THEN p[k] ELSE q[k - m]
    BY ConcatProperties
  <1>. HIDE DEF r, m, n
  <1>2. \A k \in 1 .. m : k \in 1 .. Len(r) /\ r[k] = p[k]
    BY <1>1
  <1>3. \A k \in 1 .. n : m + k \in 1 .. Len(r) /\ r[m + k] = q[k]
    BY <1>1
  <1>4. \A k \in 1 .. Len(r) : \/ k \in 1 .. m /\ r[k] = p[k]
                               \/ k - m \in 1 .. n /\ r[k] = q[k - m]
    BY <1>1
  <1>5. \A x : x \in Seqs(r) <=> x \in Seqs(p) \/ x \in Seqs(q)
    <2>1. ASSUME NEW x, x \in Seqs(r)
          PROVE  x \in Seqs(p) \/ x \in Seqs(q)
      BY <1>4, <2>1, SeqsMember DEF m, n
    <2>2. ASSUME NEW x, x \in Seqs(p) \/ x \in Seqs(q)
          PROVE  x \in Seqs(r)
      BY <1>2, <1>3, <2>2, SeqsMember DEF m, n
    <2>. QED
      BY <2>1, <2>2
  <1>6. ASSUME Distinct(p), Distinct(q), Seqs(p) \cap Seqs(q) = {}
        PROVE  Distinct(r)
    <2>1. ASSUME NEW j \in 1 .. m, NEW k \in 1 .. n
          PROVE  p[j] # q[k]
      <3>1. p[j].seq \in Seqs(p) /\ q[k].seq \in Seqs(q)
        BY SeqsMember DEF m, n
      <3>. QED
        BY <1>6, <3>1
    <2>2. ASSUME NEW j \in 1 .. Len(r), NEW k \in 1 .. Len(r), r[j] = r[k]
          PROVE  j = k
      <3>1. CASE j \in 1 .. m /\ k \in 1 .. m
        BY <1>2, <1>6, <2>2, <3>1 DEF Distinct, m
      <3>2. CASE j - m \in 1 .. n /\ r[j] = q[j - m] /\ k - m \in 1 .. n /\ r[k] = q[k - m]
        <4>1. j - m = k - m
          BY <1>6, <2>2, <3>2 DEF Distinct, n
        <4>. QED
          BY <1>1, <4>1
      <3>3. CASE j \in 1 .. m /\ r[j] = p[j] /\ k - m \in 1 .. n /\ r[k] = q[k - m]
        BY <2>1, <2>2, <3>3
      <3>4. CASE k \in 1 .. m /\ r[k] = p[k] /\ j - m \in 1 .. n /\ r[j] = q[j - m]
        BY <2>1, <2>2, <3>4
      <3>. QED
        BY <1>4, <3>1, <3>2, <3>3, <3>4
    <2>. QED
      BY <2>2 DEF Distinct
  <1>. QED
    BY <1>1, <1>5, <1>6 DEF r

LEMMA RequeueFacts ==
    ASSUME NEW lg \in Seq(Messages), NEW box \in Boxes(lg), NEW a \in box.claims
    PROVE  /\ Requeue(box, a) \in Boxes(lg)
           /\ Seqs(Requeue(box, a).pending) = Seqs(a) \cup Seqs(box.pending)
           /\ Requeue(box, a).claims = box.claims \ {a}
  <1>. DEFINE b == Requeue(box, a)
              S == ItemsOf(lg)
  <1>1. /\ b = [pending |-> a \o box.pending, claims |-> box.claims \ {a}]
        /\ box.pending \in Seq(S) /\ box.claims \in SUBSET Seq(S) /\ a \in Seq(S)
        /\ Distinct(a) /\ Distinct(box.pending) /\ Seqs(a) \cap Seqs(box.pending) = {}
    BY DEF Boxes, Requeue
  <1>. HIDE DEF S
  <1>2. /\ a \o box.pending \in Seq(S)
        /\ Seqs(a \o box.pending) = Seqs(a) \cup Seqs(box.pending)
        /\ Distinct(a \o box.pending)
    BY <1>1, ConcatDistinct
  <1>. HIDE DEF b
  <1>3. b \in [pending : Seq(S), claims : SUBSET Seq(S)]
    BY <1>1, <1>2
  <1>4. \A c \in b.claims : Seqs(c) \cap Seqs(b.pending) = {}
    <2>1. \A c \in box.claims \ {a} : Seqs(c) \cap Seqs(a) = {} /\ Seqs(c) \cap Seqs(box.pending) = {}
      BY DEF Boxes
    <2>. QED
      BY <1>1, <1>2, <2>1
  <1>5. b \in Boxes(lg)
    <2>1. \A c \in b.claims : Distinct(c) /\ c # <<>> /\ \A k \in 1 .. Len(c) : c[k].wake
      BY <1>1 DEF Boxes
    <2>2. \A c, d \in b.claims : c # d => Seqs(c) \cap Seqs(d) = {}
      BY <1>1 DEF Boxes
    <2>. QED
      BY <1>1, <1>2, <1>3, <1>4, <2>1, <2>2 DEF Boxes, S
  <1>. QED
    BY <1>1, <1>2, <1>5 DEF b
-----------------------------------------------------------------------------
(***************************************************************************)
(* The invariant, for one session.                                         *)
(***************************************************************************)

\* What has reached its daemon for its agent, and what its runner has replied to.
ReceivedOf(lg, cur, s) == {n \in 1 .. cur : RoutedTo(lg[n], s)}
Replied(lg, s) == UNION {lg[n].answers : n \in {m \in 1 .. Len(lg) : lg[m].from = s}}

\* The runner has a claim and has not asked the daemon to complete it.
Holding(r) == r.mode \in {"turn", "refused", "requeueing", "completing"}

\* Every message received is in one place.
Sorted(box, rd, an, lo, rec) ==
    /\ Seqs(box.pending) \cup HeldSeqs(box) \cup rd \cup an \cup lo = rec
    /\ (Seqs(box.pending) \cup HeldSeqs(box)) \cap (rd \cup an \cup lo) = {}
    /\ rd \cap an = {} /\ rd \cap lo = {} /\ an \cap lo = {}

\* What waits and what a runner holds has no reply, nor has what is in a call whose
\* reply the authority has not taken.
Unreplied(box, cs, r, rep) ==
    /\ Seqs(box.pending) \cap rep = {}
    /\ \A c \in cs : c.sent \/ Seqs(c.items) \cap rep = {}
    /\ Holding(r) /\ r.items \in box.claims => Seqs(r.items) \cap rep = {}

\* A claim is in at most one call, and its runner waits for that.
Called(box, cs, r) ==
    /\ \A c \in cs : DOMAIN c = {"items", "outcome", "sent"} /\ c.items \in box.claims
    /\ \A c, d \in cs : c.items = d.items => c = d
    /\ Holding(r) /\ r.items \in box.claims => \A c \in cs : c.items # r.items

Good(lg, cur, box, cs, r, rd, an, lo, s) ==
    /\ cur \in 0 .. Len(lg)
    /\ box \in Boxes(lg)
    /\ Sorted(box, rd, an, lo, ReceivedOf(lg, cur, s))
    /\ Replied(lg, s) \subseteq ReceivedOf(lg, cur, s)
    /\ Unreplied(box, cs, r, Replied(lg, s))
    /\ Called(box, cs, r)

\* A step of the runner that leaves it no claim it did not have.
Keeps(r, r2) == Holding(r2) => Holding(r) /\ r2.items = r.items

LEMMA RepliedMember ==
    ASSUME NEW lg, NEW s, NEW n
    PROVE  n \in Replied(lg, s) <=>
                \E k \in 1 .. Len(lg) : lg[k].from = s /\ n \in lg[k].answers
  BY DEF Replied

\* What the log says of a session when it grows.
LEMMA LogGrows ==
    ASSUME NEW lg \in Seq(Messages), NEW m \in Messages, NEW s \in Sessions,
           NEW cur \in 0 .. Len(lg)
    PROVE  /\ ReceivedOf(Append(lg, m), cur, s) = ReceivedOf(lg, cur, s)
           /\ Replied(Append(lg, m), s) =
                Replied(lg, s) \cup IF m.from = s THEN m.answers ELSE {}
  <1>. DEFINE l == Append(lg, m)
  <1>1. /\ Len(l) = Len(lg) + 1 /\ Len(lg) \in Nat
        /\ \A n \in 1 .. Len(lg) : l[n] = lg[n]
        /\ l[Len(lg) + 1] = m
    BY ItemsGrow
  <1>. HIDE DEF l
  <1>2. \A n \in 1 .. cur : l[n] = lg[n]
    BY <1>1
  <1>3. ReceivedOf(l, cur, s) = ReceivedOf(lg, cur, s)
    BY <1>2 DEF ReceivedOf
  <1>4. \A k \in 1 .. Len(l) : k \in 1 .. Len(lg) \/ k = Len(lg) + 1
    BY <1>1
  <1>5. \A k \in 1 .. Len(lg) : k \in 1 .. Len(l)
    BY <1>1
  <1>6. Len(lg) + 1 \in 1 .. Len(l)
    BY <1>1
  <1>7. \A n : n \in Replied(l, s) <=>
                n \in Replied(lg, s) \/ (m.from = s /\ n \in m.answers)
    BY <1>1, <1>4, <1>5, <1>6, RepliedMember
  <1>. QED
    BY <1>3, <1>7 DEF l

\* The log grows by a message that replies to nothing of this session's.
LEMMA GoodAppend ==
    ASSUME NEW lg \in Seq(Messages), NEW m \in Messages, NEW s \in Sessions,
           NEW cur, NEW box, NEW cs, NEW r, NEW rd, NEW an, NEW lo,
           Good(lg, cur, box, cs, r, rd, an, lo, s), m.from # s \/ m.answers = {}
    PROVE  Good(Append(lg, m), cur, box, cs, r, rd, an, lo, s)
  <1>1. cur \in 0 .. Len(lg) /\ box \in Boxes(lg)
    BY DEF Good
  <1>2. /\ ReceivedOf(Append(lg, m), cur, s) = ReceivedOf(lg, cur, s)
        /\ Replied(Append(lg, m), s) = Replied(lg, s)
    <2>1. /\ ReceivedOf(Append(lg, m), cur, s) = ReceivedOf(lg, cur, s)
          /\ Replied(Append(lg, m), s) =
               Replied(lg, s) \cup IF m.from = s THEN m.answers ELSE {}
      BY <1>1, LogGrows
    <2>2. (IF m.from = s THEN m.answers ELSE {}) = {}
      OBVIOUS
    <2>. QED
      BY <2>1, <2>2
  <1>3. box \in Boxes(Append(lg, m))
    BY <1>1, BoxesGrow
  <1>4. cur \in 0 .. Len(Append(lg, m))
    BY <1>1, ItemsGrow
  <1>. QED
    BY <1>2, <1>3, <1>4 DEF Good

\* The runner goes on with what it has, and calls are dropped.
LEMMA GoodKeeps ==
    ASSUME NEW lg, NEW s, NEW cur, NEW box, NEW cs, NEW r, NEW rd, NEW an, NEW lo,
           Good(lg, cur, box, cs, r, rd, an, lo, s), NEW r2, Keeps(r, r2), NEW ds \in SUBSET cs
    PROVE  Good(lg, cur, box, ds, r2, rd, an, lo, s)
  BY DEF Good, Unreplied, Called, Keeps

\* The authority has taken a reply.
LEMMA GoodReply ==
    ASSUME NEW lg \in Seq(Messages), NEW m \in Messages, NEW s \in Sessions,
           NEW cur, NEW box, NEW cs, NEW r, NEW rd, NEW an, NEW lo,
           Good(lg, cur, box, cs, r, rd, an, lo, s),
           NEW c \in cs, ~c.sent, m.from = s, m.answers = Seqs(c.items)
    PROVE  /\ Good(Append(lg, m), cur, box, (cs \ {c}) \cup {[c EXCEPT !.sent = TRUE]},
                   r, rd, an, lo, s)
           /\ Seqs(c.items) \cap Replied(lg, s) = {}
  <1>. DEFINE l == Append(lg, m)
              d == [c EXCEPT !.sent = TRUE]
              ds == (cs \ {c}) \cup {d}
              rep == Replied(lg, s)
  <1>1. /\ cur \in 0 .. Len(lg) /\ box \in Boxes(lg)
        /\ Sorted(box, rd, an, lo, ReceivedOf(lg, cur, s))
        /\ rep \subseteq ReceivedOf(lg, cur, s)
        /\ Unreplied(box, cs, r, rep) /\ Called(box, cs, r)
    BY DEF Good
  <1>2. /\ ReceivedOf(l, cur, s) = ReceivedOf(lg, cur, s)
        /\ Replied(l, s) = rep \cup Seqs(c.items)
    BY <1>1, LogGrows
  <1>3. box \in Boxes(l) /\ cur \in 0 .. Len(l)
    BY <1>1, BoxesGrow, ItemsGrow
  <1>4. DOMAIN c = {"items", "outcome", "sent"} /\ c.items \in box.claims
    BY <1>1 DEF Called
  <1>5. d.items = c.items /\ d.sent = TRUE /\ DOMAIN d = {"items", "outcome", "sent"}
    BY <1>4
  <1>. HIDE DEF l, d, rep
  <1>6. \A a \in box.claims : a # c.items => Seqs(a) \cap Seqs(c.items) = {}
    BY <1>1, <1>4 DEF Boxes
  <1>7. Seqs(c.items) \cap Seqs(box.pending) = {}
    BY <1>1, <1>4 DEF Boxes
  <1>8. \A e \in cs \ {c} : e.items # c.items /\ e.items \in box.claims
    BY <1>1 DEF Called
  <1>9. Called(box, ds, r)
    <2>1. \A e \in ds : DOMAIN e = {"items", "outcome", "sent"} /\ e.items \in box.claims
      BY <1>1, <1>4, <1>5 DEF Called
    <2>2. \A e, f \in ds : e.items = f.items => e = f
      BY <1>1, <1>5, <1>8 DEF Called
    <2>3. Holding(r) /\ r.items \in box.claims => \A e \in ds : e.items # r.items
      BY <1>1, <1>5 DEF Called
    <2>. QED
      BY <2>1, <2>2, <2>3 DEF Called
  <1>10. Unreplied(box, ds, r, Replied(l, s))
    <2>1. Seqs(box.pending) \cap Replied(l, s) = {}
      BY <1>1, <1>2, <1>7 DEF Unreplied
    <2>2. \A e \in ds : e.sent \/ Seqs(e.items) \cap Replied(l, s) = {}
      BY <1>1, <1>2, <1>5, <1>6, <1>8 DEF Unreplied
    <2>3. Holding(r) /\ r.items \in box.claims => Seqs(r.items) \cap Replied(l, s) = {}
      BY <1>1, <1>2, <1>6 DEF Unreplied, Called
    <2>. QED
      BY <2>1, <2>2, <2>3 DEF Unreplied
  <1>11. Replied(l, s) \subseteq ReceivedOf(l, cur, s)
    <2>1. Seqs(c.items) \subseteq HeldSeqs(box)
      BY <1>4, HeldMember
    <2>. QED
      BY <1>1, <1>2, <2>1 DEF Sorted
  <1>12. Seqs(c.items) \cap rep = {}
    BY <1>1 DEF Unreplied
  <1>. QED
    BY <1>1, <1>2, <1>3, <1>9, <1>10, <1>11, <1>12 DEF Good, l, d, rep

\* The daemon receives the next event, which is not for its agent.
LEMMA GoodPassed ==
    ASSUME NEW lg \in Seq(Messages), NEW s \in Sessions,
           NEW cur, NEW box, NEW cs, NEW r, NEW rd, NEW an, NEW lo,
           Good(lg, cur, box, cs, r, rd, an, lo, s),
           cur + 1 \in 1 .. Len(lg), ~RoutedTo(lg[cur + 1], s)
    PROVE  Good(lg, cur + 1, box, cs, r, rd, an, lo, s)
  <1>1. cur \in 0 .. Len(lg) /\ Len(lg) \in Nat
    BY DEF Good
  <1>2. \A n : n \in 1 .. cur + 1 <=> n \in 1 .. cur \/ n = cur + 1
    BY <1>1
  <1>3. ReceivedOf(lg, cur + 1, s) = ReceivedOf(lg, cur, s)
    BY <1>2 DEF ReceivedOf
  <1>4. cur + 1 \in 0 .. Len(lg)
    BY <1>1
  <1>. QED
    BY <1>3, <1>4 DEF Good

\* It receives one that is: the inbox takes it, and what it pushes out is lost.
LEMMA GoodEnqueued ==
    ASSUME NEW lg \in Seq(Messages), NEW s \in Sessions,
           NEW cur, NEW box, NEW cs, NEW r, NEW rd, NEW an, NEW lo,
           Good(lg, cur, box, cs, r, rd, an, lo, s),
           cur + 1 \in 1 .. Len(lg), RoutedTo(lg[cur + 1], s),
           NEW kept, kept = Enqueue(box, Item(cur + 1, lg[cur + 1]))
    PROVE  Good(lg, cur + 1, kept, cs, r, rd, an,
                lo \cup ((Pending(box) \cup {cur + 1}) \ Pending(kept)), s)
  <1>. DEFINE n == cur + 1
              rec == ReceivedOf(lg, cur, s)
              rep == Replied(lg, s)
              out == (Seqs(box.pending) \cup {n}) \ Seqs(kept.pending)
  <1>1. /\ cur \in 0 .. Len(lg) /\ box \in Boxes(lg) /\ Len(lg) \in Nat
        /\ Sorted(box, rd, an, lo, rec)
        /\ rep \subseteq rec
        /\ Unreplied(box, cs, r, rep) /\ Called(box, cs, r)
    BY DEF Good
  <1>2. \A x : x \in 1 .. n <=> x \in 1 .. cur \/ x = n
    BY <1>1
  <1>3. ReceivedOf(lg, n, s) = rec \cup {n} /\ n \notin rec /\ n \in 0 .. Len(lg)
    <2>1. n \notin 1 .. cur /\ n \in 0 .. Len(lg)
      BY <1>1
    <2>. QED
      BY <1>2, <2>1 DEF ReceivedOf
  <1>. HIDE DEF n, rec, rep
  <1>4. n \notin Seqs(box.pending) /\ n \notin HeldSeqs(box) /\ n \in 1 .. Len(lg)
    BY <1>1, <1>3 DEF Sorted, n
  <1>5. /\ kept \in Boxes(lg) /\ kept.claims = box.claims
        /\ Seqs(kept.pending) \subseteq Seqs(box.pending) \cup {n}
    BY <1>1, <1>4, EnqueueFacts DEF n
  <1>6. Pending(box) = Seqs(box.pending) /\ Pending(kept) = Seqs(kept.pending)
    BY <1>1, <1>5, PendingIsSeqs
  <1>7. HeldSeqs(kept) = HeldSeqs(box)
    BY <1>5 DEF HeldSeqs
  <1>8. Sorted(kept, rd, an, lo \cup out, rec \cup {n})
    <2>1. n \notin rd /\ n \notin an /\ n \notin lo
      BY <1>1, <1>3 DEF Sorted
    <2>2. Seqs(box.pending) \cap HeldSeqs(box) = {}
      BY <1>1, HeldMember DEF Boxes
    <2>3. Seqs(kept.pending) \cup HeldSeqs(kept) \cup rd \cup an \cup (lo \cup out) = rec \cup {n}
      BY <1>1, <1>5, <1>7 DEF Sorted
    <2>4. (Seqs(kept.pending) \cup HeldSeqs(kept)) \cap (rd \cup an \cup (lo \cup out)) = {}
      BY <1>1, <1>4, <1>5, <1>7, <2>1, <2>2 DEF Sorted
    <2>5. rd \cap an = {} /\ rd \cap (lo \cup out) = {} /\ an \cap (lo \cup out) = {}
      BY <1>1, <2>1 DEF Sorted
    <2>. QED
      BY <2>3, <2>4, <2>5 DEF Sorted
  <1>9. rep \subseteq rec \cup {n} /\ n \notin rep
    BY <1>1, <1>3
  <1>10. Unreplied(kept, cs, r, rep)
    BY <1>1, <1>5, <1>9 DEF Unreplied
  <1>11. Called(kept, cs, r)
    BY <1>1, <1>5 DEF Called
  <1>. QED
    BY <1>3, <1>5, <1>6, <1>8, <1>9, <1>10, <1>11 DEF Good, n, rep

\* The agent's own hook reads what waits.
LEMMA GoodRead ==
    ASSUME NEW lg \in Seq(Messages), NEW s \in Sessions,
           NEW cur, NEW box, NEW cs, NEW r, NEW rd, NEW an, NEW lo,
           Good(lg, cur, box, cs, r, rd, an, lo, s)
    PROVE  Good(lg, cur, Consume(box), cs, r, rd \cup Pending(box), an, lo, s)
  <1>. DEFINE b == Consume(box)
  <1>1. box \in Boxes(lg)
    BY DEF Good
  <1>2. b \in Boxes(lg) /\ Seqs(b.pending) = {} /\ b.claims = box.claims
    BY <1>1, ConsumeFacts
  <1>3. Pending(box) = Seqs(box.pending) /\ HeldSeqs(b) = HeldSeqs(box)
    BY <1>1, <1>2, PendingIsSeqs DEF HeldSeqs
  <1>. HIDE DEF b
  <1>4. Seqs(box.pending) \cap HeldSeqs(box) = {}
    BY <1>1, HeldMember DEF Boxes
  <1>5. Sorted(b, rd \cup Seqs(box.pending), an, lo, ReceivedOf(lg, cur, s))
    BY <1>2, <1>3, <1>4 DEF Good, Sorted
  <1>6. Unreplied(b, cs, r, Replied(lg, s)) /\ Called(b, cs, r)
    BY <1>2 DEF Good, Unreplied, Called
  <1>. QED
    BY <1>2, <1>3, <1>5, <1>6 DEF Good, b

\* A claim is completed, and no call has it any more.
LEMMA GoodCompleted ==
    ASSUME NEW lg \in Seq(Messages), NEW s \in Sessions,
           NEW cur, NEW box, NEW cs, NEW r, NEW rd, NEW an, NEW lo,
           Good(lg, cur, box, cs, r, rd, an, lo, s),
           NEW a \in box.claims, NEW ds \in SUBSET cs, \A c \in ds : c.items # a,
           NEW r2, Keeps(r, r2)
    PROVE  Good(lg, cur, Complete(box, a), ds, r2, rd, an \cup {i.seq : i \in ToSet(a)}, lo, s)
  <1>. DEFINE b == Complete(box, a)
  <1>1. box \in Boxes(lg) /\ a \in Seq(ItemsOf(lg))
    BY DEF Good, Boxes
  <1>2. b \in Boxes(lg) /\ b.pending = box.pending /\ b.claims = box.claims \ {a}
    BY <1>1, CompleteFacts
  <1>. HIDE DEF b
  <1>3. HeldSeqs(b) \cup Seqs(a) = HeldSeqs(box) /\ HeldSeqs(b) \cap Seqs(a) = {}
    BY <1>1, <1>2, WithoutClaim
  <1>4. {i.seq : i \in ToSet(a)} = Seqs(a) /\ Seqs(a) \cap Seqs(box.pending) = {}
    BY <1>1, SeqsToSet DEF Boxes
  <1>5. Sorted(b, rd, an \cup Seqs(a), lo, ReceivedOf(lg, cur, s))
    BY <1>2, <1>3, <1>4 DEF Good, Sorted
  <1>6. Unreplied(b, ds, r2, Replied(lg, s)) /\ Called(b, ds, r2)
    BY <1>2 DEF Good, Unreplied, Called, Keeps
  <1>. QED
    BY <1>2, <1>4, <1>5, <1>6 DEF Good, b

\* The daemon's process starts anew with an empty inbox.
LEMMA GoodRestarted ==
    ASSUME NEW lg \in Seq(Messages), NEW s \in Sessions,
           NEW cur, NEW box, NEW cs, NEW r, NEW rd, NEW an, NEW lo,
           Good(lg, cur, box, cs, r, rd, an, lo, s), NEW r2
    PROVE  Good(lg, cur, EmptyInbox, {}, r2, rd, an, lo \cup Pending(box) \cup Held(box), s)
  <1>1. box \in Boxes(lg)
    BY DEF Good
  <1>2. Pending(box) = Seqs(box.pending) /\ Held(box) = HeldSeqs(box)
    BY <1>1, PendingIsSeqs
  <1>3. /\ EmptyInbox \in Boxes(lg) /\ Seqs(EmptyInbox.pending) = {}
        /\ HeldSeqs(EmptyInbox) = {} /\ EmptyInbox.claims = {}
    BY EmptyFacts
  <1>4. Sorted(EmptyInbox, rd, an, lo \cup Pending(box) \cup Held(box), ReceivedOf(lg, cur, s))
    BY <1>2, <1>3 DEF Good, Sorted
  <1>. QED
    BY <1>3, <1>4 DEF Good, Unreplied, Called

\* The runner takes a claim.
LEMMA GoodClaimed ==
    ASSUME NEW lg \in Seq(Messages), NEW s \in Sessions,
           NEW cur, NEW box, NEW cs, NEW r, NEW rd, NEW an, NEW lo,
           Good(lg, cur, box, cs, r, rd, an, lo, s), Eligible(box) # {},
           NEW r2, r2.items = Claimed(box)
    PROVE  Good(lg, cur, Claim(box), cs, r2, rd, an, lo, s)
  <1>. DEFINE b == Claim(box)
              a == Claimed(box)
              rep == Replied(lg, s)
  <1>1. /\ box \in Boxes(lg) /\ Called(box, cs, r) /\ Unreplied(box, cs, r, rep)
        /\ Sorted(box, rd, an, lo, ReceivedOf(lg, cur, s))
    BY DEF Good
  <1>2. /\ a # <<>> /\ b \in Boxes(lg) /\ b.claims = box.claims \cup {a}
        /\ Seqs(a) \cup Seqs(b.pending) = Seqs(box.pending)
        /\ Seqs(a) \cap Seqs(b.pending) = {}
    BY <1>1, ClaimFacts
  <1>. HIDE DEF a, b, rep
  <1>3. HeldSeqs(b) = HeldSeqs(box) \cup Seqs(a)
    BY <1>2, HeldMember
  <1>4. Sorted(b, rd, an, lo, ReceivedOf(lg, cur, s))
    BY <1>1, <1>2, <1>3 DEF Sorted
  <1>5. a \in b.claims /\ a \in Seq(ItemsOf(lg))
    BY <1>2 DEF Boxes
  <1>6. Seqs(a) # {}
    <2>1. 1 \in 1 .. Len(a)
      BY <1>2, <1>5
    <2>. QED
      BY <2>1, SeqsMember
  <1>7. a \notin box.claims
    <2>1. \A c \in box.claims : Seqs(c) \cap Seqs(box.pending) = {}
      BY <1>1 DEF Boxes
    <2>. QED
      BY <1>2, <1>6, <2>1
  <1>8. Called(b, cs, r2)
    BY <1>1, <1>2, <1>7 DEF Called, a
  <1>9. Unreplied(b, cs, r2, rep)
    BY <1>1, <1>2 DEF Unreplied, a
  <1>. QED
    BY <1>2, <1>4, <1>8, <1>9 DEF Good, b, rep

\* The claim goes back.
LEMMA GoodRequeued ==
    ASSUME NEW lg \in Seq(Messages), NEW s \in Sessions,
           NEW cur, NEW box, NEW cs, NEW r, NEW rd, NEW an, NEW lo,
           Good(lg, cur, box, cs, r, rd, an, lo, s), Holding(r), r.items \in box.claims,
           NEW r2, ~Holding(r2)
    PROVE  Good(lg, cur, Requeue(box, r.items), cs, r2, rd, an, lo, s)
  <1>. DEFINE a == r.items
              b == Requeue(box, a)
              rep == Replied(lg, s)
  <1>1. /\ box \in Boxes(lg) /\ Called(box, cs, r) /\ Unreplied(box, cs, r, rep)
        /\ Sorted(box, rd, an, lo, ReceivedOf(lg, cur, s))
    BY DEF Good
  <1>2. /\ b \in Boxes(lg) /\ b.claims = box.claims \ {a}
        /\ Seqs(b.pending) = Seqs(a) \cup Seqs(box.pending)
    BY <1>1, RequeueFacts
  <1>. HIDE DEF b, rep
  <1>3. HeldSeqs(b) \cup Seqs(a) = HeldSeqs(box) /\ HeldSeqs(b) \cap Seqs(a) = {}
    BY <1>1, <1>2, WithoutClaim
  <1>4. Sorted(b, rd, an, lo, ReceivedOf(lg, cur, s))
    BY <1>1, <1>2, <1>3 DEF Sorted
  <1>5. Called(b, cs, r2)
    BY <1>1, <1>2 DEF Called
  <1>6. Unreplied(b, cs, r2, rep)
    BY <1>1, <1>2 DEF Unreplied
  <1>. QED
    BY <1>2, <1>4, <1>5, <1>6 DEF Good, b, rep

\* The runner asks the daemon to complete its claim with a reply.
LEMMA GoodCall ==
    ASSUME NEW lg \in Seq(Messages), NEW s \in Sessions,
           NEW cur, NEW box, NEW cs, NEW r, NEW rd, NEW an, NEW lo,
           Good(lg, cur, box, cs, r, rd, an, lo, s), Holding(r), r.items \in box.claims,
           NEW c, DOMAIN c = {"items", "outcome", "sent"}, c.items = r.items,
           NEW r2, ~Holding(r2)
    PROVE  Good(lg, cur, box, cs \cup {c}, r2, rd, an, lo, s)
  <1>1. Called(box, cs \cup {c}, r2)
    BY DEF Good, Called
  <1>2. Unreplied(box, cs \cup {c}, r2, Replied(lg, s))
    BY DEF Good, Unreplied
  <1>. QED
    BY <1>1, <1>2 DEF Good
-----------------------------------------------------------------------------
(***************************************************************************)
(* The runner's operators: of a runner only its mode and its items count.  *)
(***************************************************************************)
RunnerOK(r) == {"mode", "items"} \subseteq DOMAIN r

LEMMA DownFacts ==
  RunnerOK(Down) /\ ~Holding(Down) /\ RunnerOK([Down EXCEPT !.mode = "idle"])
                 /\ ~Holding([Down EXCEPT !.mode = "idle"])
  BY DEF RunnerOK, Down, Holding

LEMMA ScheduledFacts ==
    ASSUME NEW r, RunnerOK(r), NEW d
    PROVE  /\ RunnerOK(Scheduled(r, d))
           /\ Scheduled(r, d).mode = r.mode /\ Scheduled(r, d).items = r.items
  <1>1. CASE r.stopped
    BY <1>1 DEF Scheduled
  <1>2. CASE ~r.stopped /\ Running(r)
    <2>. DEFINE e == IF r.delay = None THEN d ELSE Min({r.delay, d})
    <2>1. Scheduled(r, d) = [r EXCEPT !.delay = e]
      BY <1>2 DEF Scheduled
    <2>. HIDE DEF e
    <2>. QED
      BY <2>1 DEF RunnerOK
  <1>3. CASE ~r.stopped /\ ~Running(r)
    <2>1. Scheduled(r, d) = [r EXCEPT !.timer = d]
      BY <1>3 DEF Scheduled
    <2>. QED
      BY <2>1 DEF RunnerOK
  <1>. QED
    BY <1>1, <1>2, <1>3

LEMMA DrainedFacts ==
    ASSUME NEW r, RunnerOK(r)
    PROVE  RunnerOK(Drained(r)) /\ ~Holding(Drained(r))
  <1>. DEFINE idle == [r EXCEPT !.mode = "idle", !.items = <<>>, !.delay = None]
  <1>1. RunnerOK(idle) /\ idle.mode = "idle"
    BY DEF RunnerOK
  <1>2. Drained(r) = idle \/ Drained(r) = Scheduled(idle, r.delay)
    BY DEF Drained
  <1>. HIDE DEF idle
  <1>. QED
    BY <1>1, <1>2, ScheduledFacts DEF Holding

LEMMA TryAcquireFacts ==
    ASSUME NEW r, RunnerOK(r)
    PROVE  RunnerOK(TryAcquire(r)) /\ TryAcquire(r).items = r.items
  BY DEF TryAcquire, RunnerOK

LEMMA AfterTurnFacts ==
    ASSUME NEW r, RunnerOK(r), r.mode = "turn", NEW outcome
    PROVE  RunnerOK(AfterTurn(r, outcome)) /\ Keeps(r, AfterTurn(r, outcome))
  <1>. DEFINE f == Min({r.failures + 1, MaxFailures})
              u == [r EXCEPT !.failures = f, !.stamps = IF @ = <<>> THEN @ ELSE Front(@)]
  <1>1. RunnerOK(u) /\ u.items = r.items
    BY DEF RunnerOK
  <1>2. \/ AfterTurn(r, outcome) = [r EXCEPT !.mode = "requeueing"]
        \/ AfterTurn(r, outcome) = [u EXCEPT !.mode = "requeueing"]
        \/ AfterTurn(r, outcome) = [u EXCEPT !.mode = "completing", !.outcome = "blocked"]
        \/ AfterTurn(r, outcome) = [r EXCEPT !.mode = "completing", !.failures = 0,
                !.outcome = IF outcome = "failed" THEN "blocked" ELSE outcome]
    BY DEF AfterTurn
  <1>. HIDE DEF u
  <1>. QED
    BY <1>1, <1>2 DEF RunnerOK, Keeps, Holding

LEMMA OlderFacts ==
    ASSUME NEW r, RunnerOK(r)
    PROVE  RunnerOK(Older(r)) /\ Keeps(r, Older(r))
  BY DEF Older, RunnerOK, Keeps, Holding

LEMMA AnsweredFacts ==
    ASSUME NEW r, RunnerOK(r), NEW items
    PROVE  RunnerOK(Answered(r, items)) /\ Keeps(r, Answered(r, items))
  BY DEF Answered, RunnerOK, Keeps, Holding
-----------------------------------------------------------------------------
(***************************************************************************)
(* The invariant.                                                          *)
(***************************************************************************)
Shape ==
    /\ log \in Seq(Messages)
    /\ DOMAIN cursor = Sessions /\ DOMAIN inbox = Sessions /\ DOMAIN calls = Sessions
    /\ DOMAIN runner = Sessions /\ DOMAIN read = Sessions
    /\ DOMAIN answered = Sessions /\ DOMAIN lost = Sessions
    /\ \A s \in Sessions : RunnerOK(runner[s])

GoodAt(s) ==
    Good(log, cursor[s], inbox[s], calls[s], runner[s], read[s], answered[s], lost[s], s)

RInv ==
    /\ Shape
    /\ \A s \in Sessions : GoodAt(s)
    /\ AnsweredOnce

\* Nothing of the other sessions changes.
OthersRest(s) ==
    \A t \in Sessions \ {s} :
        /\ cursor'[t] = cursor[t] /\ inbox'[t] = inbox[t] /\ calls'[t] = calls[t]
        /\ runner'[t] = runner[t] /\ read'[t] = read[t]
        /\ answered'[t] = answered[t] /\ lost'[t] = lost[t]

\* A step of one session that sends nothing.
LEMMA StepOfOne ==
    ASSUME RInv, NEW s \in Sessions, Shape', OthersRest(s), log' = log, GoodAt(s)'
    PROVE  RInv'
  <1>1. ASSUME NEW t \in Sessions \ {s}
        PROVE  GoodAt(t)'
    BY <1>1 DEF RInv, GoodAt, OthersRest
  <1>2. AnsweredOnce'
    BY DEF RInv, AnsweredOnce, Events
  <1>. QED
    BY <1>1, <1>2 DEF RInv

\* A step of runners only, that leaves none of them a claim it did not have.
LEMMA StepOfRunners ==
    ASSUME RInv, UNCHANGED <<log, cursor, inbox, calls, read, answered, lost>>,
           DOMAIN runner' = Sessions,
           \A t \in Sessions : RunnerOK(runner'[t]) /\ Keeps(runner[t], runner'[t])
    PROVE  RInv'
  <1>1. Shape'
    BY DEF RInv, Shape
  <1>2. ASSUME NEW t \in Sessions
        PROVE  GoodAt(t)'
    <2>1. GoodAt(t) /\ calls[t] \in SUBSET calls[t] /\ Keeps(runner[t], runner'[t])
      BY DEF RInv
    <2>2. Good(log, cursor[t], inbox[t], calls[t], runner'[t], read[t], answered[t], lost[t], t)
      BY <2>1, GoodKeeps DEF GoodAt
    <2>. QED
      BY <2>2 DEF GoodAt
  <1>3. AnsweredOnce'
    BY DEF RInv, AnsweredOnce, Events
  <1>. QED
    BY <1>1, <1>2, <1>3 DEF RInv

\* The same for a step of one of them.
LEMMA StepOfRunner ==
    ASSUME RInv, UNCHANGED <<log, cursor, inbox, calls, read, answered, lost>>,
           NEW s \in Sessions, NEW r2, runner' = [runner EXCEPT ![s] = r2],
           RunnerOK(r2), Keeps(runner[s], r2)
    PROVE  RInv'
  <1>1. DOMAIN runner' = Sessions /\ \A t \in Sessions : RunnerOK(runner[t])
    BY DEF RInv, Shape
  <1>2. \A t \in Sessions : runner'[t] = IF t = s THEN r2 ELSE runner[t]
    BY DEF RInv, Shape
  <1>3. \A t \in Sessions : RunnerOK(runner'[t]) /\ Keeps(runner[t], runner'[t])
    BY <1>1, <1>2 DEF Keeps
  <1>. QED
    BY <1>1, <1>3, StepOfRunners

LEMMA ExitsKeeps ==
    ASSUME RInv, UNCHANGED <<log, cursor, inbox, calls, read, answered, lost>>,
           NEW s \in Sessions, Exits(s)
    PROVE  RInv'
  <1>1. runner' = [runner EXCEPT ![s] = Down] /\ RunnerOK(Down) /\ Keeps(runner[s], Down)
    BY DownFacts DEF Exits, Keeps
  <1>. QED
    BY <1>1, StepOfRunner
-----------------------------------------------------------------------------
(***************************************************************************)
(* The actions.                                                            *)
(***************************************************************************)
LEMMA InitInvariant ==
    ASSUME RunnerInit
    PROVE  RInv
  <1>1. Shape
    BY DownFacts DEF RunnerInit, Shape
  <1>2. ASSUME NEW s \in Sessions
        PROVE  Good(<<>>, 0, EmptyInbox, {}, Down, {}, {}, {}, s)
    <2>1. Len(<<>>) = 0
      OBVIOUS
    <2>2. ReceivedOf(<<>>, 0, s) = {} /\ Replied(<<>>, s) = {}
      BY <2>1 DEF ReceivedOf, Replied
    <2>3. /\ EmptyInbox \in Boxes(<<>>) /\ Seqs(EmptyInbox.pending) = {}
          /\ HeldSeqs(EmptyInbox) = {} /\ EmptyInbox.claims = {}
      BY EmptyFacts
    <2>. QED
      BY <2>1, <2>2, <2>3, DownFacts DEF Good, Sorted, Unreplied, Called
  <1>3. \A s \in Sessions : GoodAt(s)
    BY <1>2 DEF GoodAt, RunnerInit
  <1>4. AnsweredOnce
    BY DEF RunnerInit, AnsweredOnce, Events
  <1>. QED
    BY <1>1, <1>3, <1>4 DEF RInv

LEMMA OutsideSendsInvariant ==
    ASSUME RInv, NEW from \in Sessions, NEW to \in Sessions, NEW depth \in {0, MaxDepth},
           OutsideSends(from, to, depth)
    PROVE  RInv'
  <1>. DEFINE m == Message(from, to, Len(log) + 1, depth, FALSE, {})
  <1>1. log \in Seq(Messages) /\ log' = Append(log, m)
    BY DEF RInv, Shape, OutsideSends
  <1>2. m \in Messages /\ m.answers = {}
    BY <1>1, InboxAssumption DEF Message, Messages
  <1>. HIDE DEF m
  <1>3. Shape'
    BY <1>1, <1>2, ItemsGrow DEF RInv, Shape, OutsideSends
  <1>4. ASSUME NEW s \in Sessions
        PROVE  GoodAt(s)'
    <2>1. Good(Append(log, m), cursor[s], inbox[s], calls[s], runner[s], read[s], answered[s], lost[s], s)
      BY <1>1, <1>2, GoodAppend DEF RInv, GoodAt
    <2>. QED
      BY <1>1, <2>1 DEF GoodAt, OutsideSends
  <1>5. AnsweredOnce'
    <2>1. /\ \A n \in Events : log'[n] = log[n]
          /\ \A n \in Events' : n \in Events \/ log'[n].answers = {}
      BY <1>1, <1>2, ItemsGrow DEF Events
    <2>. QED
      BY <2>1 DEF RInv, AnsweredOnce
  <1>. QED
    BY <1>3, <1>4, <1>5 DEF RInv

LEMMA ReceiveInvariant ==
    ASSUME RInv, NEW s \in Sessions, Receive(s)
    PROVE  RInv'
  <1>. DEFINE n == cursor[s] + 1
              e == log[n]
              kept == Enqueue(inbox[s], Item(n, e))
              more == lost[s] \cup ((Pending(inbox[s]) \cup {n}) \ Pending(kept))
  <1>1. log \in Seq(Messages) /\ n \in 1 .. Len(log) /\ GoodAt(s)
    BY DEF RInv, Shape, Receive, Events
  <1>2. Shape' /\ OthersRest(s) /\ log' = log
    BY DEF RInv, Shape, Receive, OthersRest
  <1>3. /\ cursor'[s] = n /\ runner'[s] = runner[s] /\ calls'[s] = calls[s]
        /\ read'[s] = read[s] /\ answered'[s] = answered[s]
    BY DEF RInv, Shape, Receive
  <1>4. CASE RoutedTo(e, s)
    <2>1. inbox'[s] = kept /\ lost'[s] = more
      BY <1>4 DEF RInv, Shape, Receive
    <2>2. Good(log, n, kept, calls[s], runner[s], read[s], answered[s], more, s)
      BY <1>1, <1>4, GoodEnqueued DEF GoodAt
    <2>3. GoodAt(s)'
      BY <1>2, <1>3, <2>1, <2>2 DEF GoodAt
    <2>. QED
      BY <1>2, <2>3, StepOfOne
  <1>5. CASE ~RoutedTo(e, s)
    <2>1. inbox'[s] = inbox[s] /\ lost'[s] = lost[s]
      BY <1>5 DEF Receive
    <2>2. Good(log, n, inbox[s], calls[s], runner[s], read[s], answered[s], lost[s], s)
      BY <1>1, <1>5, GoodPassed DEF GoodAt
    <2>3. GoodAt(s)'
      BY <1>2, <1>3, <2>1, <2>2 DEF GoodAt
    <2>. QED
      BY <1>2, <2>3, StepOfOne
  <1>. QED
    BY <1>4, <1>5

LEMMA HookReadsInvariant ==
    ASSUME RInv, NEW s \in Sessions, HookReads(s)
    PROVE  RInv'
  <1>1. Shape' /\ OthersRest(s) /\ log' = log
    BY DEF RInv, Shape, HookReads, OthersRest
  <1>2. /\ inbox'[s] = Consume(inbox[s]) /\ read'[s] = read[s] \cup Pending(inbox[s])
        /\ cursor'[s] = cursor[s] /\ runner'[s] = runner[s] /\ calls'[s] = calls[s]
        /\ answered'[s] = answered[s] /\ lost'[s] = lost[s]
    BY DEF RInv, Shape, HookReads
  <1>3. log \in Seq(Messages) /\ GoodAt(s)
    BY DEF RInv, Shape
  <1>4. Good(log, cursor[s], Consume(inbox[s]), calls[s], runner[s],
             read[s] \cup Pending(inbox[s]), answered[s], lost[s], s)
    BY <1>3, GoodRead DEF GoodAt
  <1>5. GoodAt(s)'
    BY <1>1, <1>2, <1>4 DEF GoodAt
  <1>. QED
    BY <1>1, <1>5, StepOfOne

LEMMA DaemonRestartsInvariant ==
    ASSUME RInv, NEW s \in Sessions, DaemonRestarts(s)
    PROVE  RInv'
  <1>1. Shape' /\ OthersRest(s) /\ log' = log
    BY DownFacts DEF RInv, Shape, DaemonRestarts, OthersRest
  <1>2. /\ inbox'[s] = EmptyInbox /\ lost'[s] = lost[s] \cup Pending(inbox[s]) \cup Held(inbox[s])
        /\ calls'[s] = {} /\ cursor'[s] = cursor[s]
        /\ read'[s] = read[s] /\ answered'[s] = answered[s]
    BY DEF RInv, Shape, DaemonRestarts
  <1>3. log \in Seq(Messages) /\ GoodAt(s)
    BY DEF RInv, Shape
  <1>4. Good(log, cursor[s], EmptyInbox, {}, runner'[s], read[s], answered[s],
             lost[s] \cup Pending(inbox[s]) \cup Held(inbox[s]), s)
    BY <1>3, GoodRestarted DEF GoodAt
  <1>5. GoodAt(s)'
    BY <1>1, <1>2, <1>4 DEF GoodAt
  <1>. QED
    BY <1>1, <1>5, StepOfOne

\* The depth of a reply to what a runner holds.
LEMMA DepthOfReply ==
    ASSUME NEW lg \in Seq(Messages), NEW box \in Boxes(lg), NEW a \in box.claims
    PROVE  1 + Max({i.depth : i \in ToSet(a)}) \in 0 .. MaxDepth
  <1>. DEFINE D == {i.depth : i \in ToSet(a)}
              N == {d + 1 : d \in D}
  <1>1. a \in Seq(ItemsOf(lg)) /\ a # <<>> /\ \A k \in 1 .. Len(a) : a[k].wake
    BY DEF Boxes
  <1>2. \A i \in ToSet(a) : i \in ItemsOf(lg) /\ i.wake
    BY <1>1 DEF ToSet
  <1>3. \A d \in D : d \in 0 .. MaxDepth /\ d < MaxDepth
    BY <1>2, ItemFacts
  <1>4. D # {}
    <2>1. 1 \in 1 .. Len(a)
      BY <1>1
    <2>2. a[1] \in ToSet(a)
      BY <1>1, <2>1 DEF ToSet
    <2>. QED
      BY <2>2
  <1>. HIDE DEF D
  <1>5. N \in SUBSET (1 .. MaxDepth) /\ N # {} /\ MaxDepth \in Nat
    <2>1. MaxDepth \in Nat
      BY InboxAssumption
    <2>2. \A d \in D : d + 1 \in 1 .. MaxDepth
      BY <1>3, <2>1
    <2>. QED
      BY <1>4, <2>1, <2>2
  <1>6. PICK x \in N : \A y \in N : y <= x
    BY <1>5, LastExists
  <1>7. PICK d \in D : x = d + 1
    OBVIOUS
  <1>8. \A f \in D : d >= f
    <2>1. \A f \in D : f + 1 \in N /\ f \in Int
      BY <1>3
    <2>. HIDE DEF N
    <2>2. \A f \in D : f + 1 <= d + 1 /\ f \in Int /\ d \in Int
      BY <1>6, <1>7, <2>1
    <2>. QED
      BY <2>2
  <1>9. Max(D) \in D
    BY <1>8 DEF Max
  <1>10. 1 + Max(D) \in 0 .. MaxDepth
    BY <1>3, <1>9, InboxAssumption
  <1>. QED
    BY <1>10 DEF D

LEMMA ReplyAppliedInvariant ==
    ASSUME RInv, NEW s \in Sessions, NEW c \in calls[s], ReplyApplied(s, c)
    PROVE  RInv'
  <1>. DEFINE a == c.items
              m == ReplyTo(s, c)
              ds == (calls[s] \ {c}) \cup {[c EXCEPT !.sent = TRUE]}
  <1>1. /\ log \in Seq(Messages) /\ GoodAt(s) /\ log' = Append(log, m) /\ ~c.sent
        /\ inbox[s] \in Boxes(log) /\ a \in inbox[s].claims
    BY DEF RInv, Shape, GoodAt, Good, Called, ReplyApplied
  <1>2. a \in Seq(ItemsOf(log)) /\ a # <<>>
    BY <1>1 DEF Boxes
  <1>3. m \in Messages /\ m.from = s /\ m.answers = Seqs(a)
    <2>1. 1 \in 1 .. Len(a) /\ a[1] \in ItemsOf(log)
      BY <1>2
    <2>2. a[1].from \in Sessions /\ a[1].conversation \in Nat
      BY <1>1, <2>1, ItemFacts
    <2>3. 1 + Max({i.depth : i \in ToSet(a)}) \in 0 .. MaxDepth
      BY <1>1, DepthOfReply
    <2>4. {i.seq : i \in ToSet(a)} = Seqs(a)
      BY <1>2, SeqsToSet
    <2>5. Seqs(a) \in SUBSET Nat
      BY <1>1, <1>2, SeqsInLog
    <2>. DEFINE d == 1 + Max({i.depth : i \in ToSet(a)})
    <2>6. m = [from |-> s, to |-> a[1].from, conversation |-> a[1].conversation,
               depth |-> d, terminal |-> (c.outcome = "blocked"), answers |-> Seqs(a)]
      BY <2>4 DEF ReplyTo, Message
    <2>. HIDE DEF d, a, m
    <2>7. d \in 0 .. MaxDepth
      BY <2>3 DEF d, a
    <2>. QED
      BY <2>2, <2>5, <2>6, <2>7 DEF Messages
  <1>. HIDE DEF m
  <1>4. Shape'
    BY <1>1, <1>3, ItemsGrow DEF RInv, Shape, ReplyApplied
  <1>5. /\ Good(Append(log, m), cursor[s], inbox[s], ds, runner[s], read[s], answered[s], lost[s], s)
        /\ Seqs(a) \cap Replied(log, s) = {}
    BY <1>1, <1>3, GoodReply DEF GoodAt
  <1>6. /\ UNCHANGED <<cursor, inbox, runner, read, answered, lost>>
        /\ calls'[s] = ds /\ \A t \in Sessions \ {s} : calls'[t] = calls[t]
    BY DEF RInv, Shape, ReplyApplied
  <1>. HIDE DEF ds, a
  <1>7. GoodAt(s)'
    BY <1>1, <1>5, <1>6 DEF GoodAt
  <1>8. ASSUME NEW t \in Sessions \ {s}
        PROVE  GoodAt(t)'
    <2>1. Good(Append(log, m), cursor[t], inbox[t], calls[t], runner[t], read[t], answered[t], lost[t], t)
      BY <1>1, <1>3, GoodAppend DEF RInv, GoodAt
    <2>. QED
      BY <1>1, <1>6, <2>1 DEF GoodAt
  <1>9. AnsweredOnce'
    <2>1. /\ \A n \in Events : log'[n] = log[n]
          /\ \A n \in Events' : n \in Events \/ log'[n] = m
          /\ \A n, k \in Events' : n \notin Events /\ k \notin Events => n = k
      BY <1>1, <1>3, ItemsGrow DEF Events
    <2>2. \A n \in Events : log[n].from = s => log[n].answers \subseteq Replied(log, s)
      BY <1>1, RepliedMember DEF Events
    <2>3. \A n \in Events : log[n].from = m.from => log[n].answers \cap m.answers = {}
      BY <1>3, <1>5, <2>2
    <2>. QED
      BY <2>1, <2>3 DEF RInv, AnsweredOnce
  <1>. QED
    BY <1>4, <1>7, <1>8, <1>9 DEF RInv

LEMMA ReplyAcknowledgedInvariant ==
    ASSUME RInv, NEW s \in Sessions, NEW c \in calls[s], ReplyAcknowledged(s, c)
    PROVE  RInv'
  <1>. DEFINE a == c.items
              r == runner[s]
              r2 == Answered(r, a)
              ds == calls[s] \ {c}
              an2 == answered[s] \cup {i.seq : i \in ToSet(a)}
  <1>1. /\ log \in Seq(Messages) /\ GoodAt(s) /\ RunnerOK(r)
        /\ a \in inbox[s].claims /\ \A d \in ds : d.items # a
    BY DEF RInv, Shape, GoodAt, Good, Called
  <1>2. RunnerOK(r2) /\ Keeps(r, r2)
    BY <1>1, AnsweredFacts
  <1>. HIDE DEF r2
  <1>3. Shape' /\ OthersRest(s) /\ log' = log
    BY <1>2 DEF RInv, Shape, ReplyAcknowledged, OthersRest, r2
  <1>4. /\ inbox'[s] = Complete(inbox[s], a) /\ answered'[s] = an2
        /\ calls'[s] = ds /\ runner'[s] = r2 /\ cursor'[s] = cursor[s]
        /\ read'[s] = read[s] /\ lost'[s] = lost[s]
    BY DEF RInv, Shape, ReplyAcknowledged, r2
  <1>5. ds \in SUBSET calls[s]
    OBVIOUS
  <1>. HIDE DEF ds, r
  <1>6. Good(log, cursor[s], Complete(inbox[s], a), ds, r2, read[s], an2, lost[s], s)
    BY <1>1, <1>2, <1>5, GoodCompleted DEF GoodAt, r
  <1>7. GoodAt(s)'
    BY <1>3, <1>4, <1>6 DEF GoodAt
  <1>. QED
    BY <1>3, <1>7, StepOfOne

LEMMA ReplyFailsInvariant ==
    ASSUME RInv, NEW s \in Sessions, NEW c \in calls[s], ReplyFails(s, c)
    PROVE  RInv'
  <1>1. /\ UNCHANGED <<log, cursor, read, answered, lost>>
        /\ DOMAIN calls' = Sessions /\ calls'[s] = calls[s] \ {c}
        /\ \A t \in Sessions \ {s} : calls'[t] = calls[t]
        /\ DOMAIN inbox' = Sessions /\ \A t \in Sessions : inbox'[t] = inbox[t]
    BY DEF RInv, Shape, ReplyFails, Unanswered
  <1>2. /\ DOMAIN runner' = Sessions
        /\ \A t \in Sessions \ {s} : runner'[t] = runner[t]
        /\ runner'[s] = runner[s] \/ runner'[s] = Down
    BY DEF RInv, Shape, ReplyFails, Exits
  <1>3. RunnerOK(runner'[s]) /\ Keeps(runner[s], runner'[s])
    BY <1>2, DownFacts DEF RInv, Shape, Keeps
  <1>4. Shape' /\ OthersRest(s)
    BY <1>1, <1>2, <1>3 DEF RInv, Shape, OthersRest
  <1>5. Good(log, cursor[s], inbox[s], calls[s] \ {c}, runner'[s], read[s], answered[s], lost[s], s)
    <2>1. calls[s] \ {c} \in SUBSET calls[s] /\ GoodAt(s)
      BY DEF RInv
    <2>. QED
      BY <1>3, <2>1, GoodKeeps DEF GoodAt
  <1>6. GoodAt(s)'
    BY <1>1, <1>5 DEF GoodAt
  <1>. QED
    BY <1>1, <1>4, <1>6, StepOfOne

LEMMA DrainClaimsInvariant ==
    ASSUME RInv, NEW s \in Sessions, DrainClaims(s)
    PROVE  RInv'
  <1>. DEFINE a == Claimed(inbox[s])
              r1 == [runner[s] EXCEPT !.items = a]
              r2 == TryAcquire(r1)
  <1>1. log \in Seq(Messages) /\ GoodAt(s) /\ RunnerOK(runner[s]) /\ Eligible(inbox[s]) # {}
    BY DEF RInv, Shape, DrainClaims
  <1>2. RunnerOK(r1) /\ r1.items = a
    BY <1>1 DEF RunnerOK
  <1>. HIDE DEF r1
  <1>3. RunnerOK(r2) /\ r2.items = a
    BY <1>2, TryAcquireFacts
  <1>. HIDE DEF r2
  <1>4. Shape' /\ OthersRest(s) /\ log' = log
    BY <1>3 DEF RInv, Shape, DrainClaims, OthersRest, r1, r2
  <1>5. /\ inbox'[s] = Claim(inbox[s]) /\ runner'[s] = r2
        /\ calls'[s] = calls[s] /\ cursor'[s] = cursor[s]
        /\ read'[s] = read[s] /\ answered'[s] = answered[s] /\ lost'[s] = lost[s]
    BY DEF RInv, Shape, DrainClaims, r1, r2
  <1>6. Good(log, cursor[s], Claim(inbox[s]), calls[s], r2, read[s], answered[s], lost[s], s)
    BY <1>1, <1>3, GoodClaimed DEF GoodAt
  <1>7. GoodAt(s)'
    BY <1>4, <1>5, <1>6 DEF GoodAt
  <1>. QED
    BY <1>4, <1>7, StepOfOne

LEMMA RequeuesInvariant ==
    ASSUME RInv, NEW s \in Sessions, Requeues(s)
    PROVE  RInv'
  <1>. DEFINE r == runner[s]
              r2 == Drained(Scheduled(r, RetryAfter(r)))
  <1>1. log \in Seq(Messages) /\ GoodAt(s) /\ RunnerOK(r) /\ Holding(r)
    BY DEF RInv, Shape, Requeues, Holding
  <1>2. CASE r.items \in inbox[s].claims
    <2>1. RunnerOK(r2) /\ ~Holding(r2)
      BY <1>1, ScheduledFacts, DrainedFacts
    <2>. HIDE DEF r2
    <2>2. Shape' /\ OthersRest(s) /\ log' = log
      BY <1>2, <2>1 DEF RInv, Shape, Requeues, OthersRest, r2
    <2>3. /\ inbox'[s] = Requeue(inbox[s], r.items) /\ runner'[s] = r2
          /\ calls'[s] = calls[s] /\ cursor'[s] = cursor[s]
          /\ read'[s] = read[s] /\ answered'[s] = answered[s] /\ lost'[s] = lost[s]
      BY <1>2 DEF RInv, Shape, Requeues, r2
    <2>4. Good(log, cursor[s], Requeue(inbox[s], r.items), calls[s], r2, read[s], answered[s], lost[s], s)
      BY <1>1, <1>2, <2>1, GoodRequeued DEF GoodAt
    <2>5. GoodAt(s)'
      BY <2>2, <2>3, <2>4 DEF GoodAt
    <2>. QED
      BY <2>2, <2>5, StepOfOne
  <1>3. CASE r.items \notin inbox[s].claims
    <2>1. Requeue(inbox[s], r.items) = inbox[s]
      BY <1>3 DEF Requeue
    <2>2. Shape' /\ OthersRest(s) /\ log' = log
      BY <1>3, DownFacts DEF RInv, Shape, Requeues, Exits, OthersRest
    <2>3. /\ inbox'[s] = inbox[s] /\ runner'[s] = Down
          /\ calls'[s] = calls[s] /\ cursor'[s] = cursor[s]
          /\ read'[s] = read[s] /\ answered'[s] = answered[s] /\ lost'[s] = lost[s]
      BY <1>3, <2>1 DEF RInv, Shape, Requeues, Exits
    <2>4. calls[s] \in SUBSET calls[s] /\ Keeps(r, Down)
      BY DownFacts DEF Keeps
    <2>5. Good(log, cursor[s], inbox[s], calls[s], Down, read[s], answered[s], lost[s], s)
      BY <1>1, <2>4, GoodKeeps DEF GoodAt
    <2>6. GoodAt(s)'
      BY <2>2, <2>3, <2>5 DEF GoodAt
    <2>. QED
      BY <2>2, <2>6, StepOfOne
  <1>. QED
    BY <1>2, <1>3

LEMMA CompletesInvariant ==
    ASSUME RInv, NEW s \in Sessions, Completes(s)
    PROVE  RInv'
  <1>. DEFINE r == runner[s]
              c == [items |-> r.items, outcome |-> r.outcome, sent |-> FALSE]
              rd == [r EXCEPT !.mode = "draining", !.items = <<>>]
              ra == [r EXCEPT !.mode = "awaiting"]
              an2 == answered[s] \cup {i.seq : i \in ToSet(r.items)}
  <1>1. log \in Seq(Messages) /\ GoodAt(s) /\ RunnerOK(r) /\ Holding(r)
    BY DEF RInv, Shape, Completes, Holding
  <1>2. /\ RunnerOK(rd) /\ ~Holding(rd) /\ Keeps(r, rd)
        /\ RunnerOK(ra) /\ ~Holding(ra)
    BY <1>1 DEF RunnerOK, Holding, Keeps
  <1>3. CASE Refuses(inbox[s], c)
    BY <1>3, ExitsKeeps DEF Completes
  <1>4. CASE ~Refuses(inbox[s], c) /\ c.outcome = "no_action"
    <2>1. r.items \in inbox[s].claims
      BY <1>4 DEF Refuses
    <2>. HIDE DEF rd
    <2>2. /\ inbox' = [inbox EXCEPT ![s] = Complete(@, r.items)]
          /\ answered' = [answered EXCEPT ![s] = an2]
          /\ runner' = [runner EXCEPT ![s] = rd]
          /\ UNCHANGED <<log, cursor, read, lost, calls>>
      BY <1>4 DEF Completes, rd
    <2>3. Shape' /\ OthersRest(s)
      BY <1>2, <2>2 DEF RInv, Shape, OthersRest
    <2>4. /\ inbox'[s] = Complete(inbox[s], r.items) /\ answered'[s] = an2 /\ runner'[s] = rd
      BY <2>2 DEF RInv, Shape
    <2>5. calls[s] \in SUBSET calls[s] /\ \A d \in calls[s] : d.items # r.items
      BY <1>1, <2>1 DEF GoodAt, Good, Called
    <2>6. Good(log, cursor[s], Complete(inbox[s], r.items), calls[s], rd, read[s], an2, lost[s], s)
      BY <1>1, <1>2, <2>1, <2>5, GoodCompleted DEF GoodAt
    <2>7. GoodAt(s)'
      BY <2>2, <2>4, <2>6 DEF GoodAt
    <2>. QED
      BY <2>2, <2>3, <2>7, StepOfOne
  <1>5. CASE ~Refuses(inbox[s], c) /\ c.outcome # "no_action"
    <2>0. c.items = r.items /\ DOMAIN c = {"items", "outcome", "sent"}
      OBVIOUS
    <2>1. r.items \in inbox[s].claims
      <3>1. c.items \in inbox[s].claims
        BY <1>5 DEF Refuses
      <3>. QED
        BY <2>0, <3>1
    <2>. HIDE DEF ra, c
    <2>2. /\ calls' = [calls EXCEPT ![s] = @ \cup {c}]
          /\ runner' = [runner EXCEPT ![s] = ra]
          /\ UNCHANGED <<log, cursor, inbox, answered, read, lost>>
      BY <1>5 DEF Completes, ra, c
    <2>3. Shape' /\ OthersRest(s)
      BY <1>2, <2>2 DEF RInv, Shape, OthersRest
    <2>4. calls'[s] = calls[s] \cup {c} /\ runner'[s] = ra
      BY <2>2 DEF RInv, Shape
    <2>5. Good(log, cursor[s], inbox[s], calls[s] \cup {c}, ra, read[s], answered[s], lost[s], s)
      BY <1>1, <1>2, <2>0, <2>1, GoodCall DEF GoodAt
    <2>6. GoodAt(s)'
      BY <2>2, <2>4, <2>5 DEF GoodAt
    <2>. QED
      BY <2>2, <2>3, <2>6, StepOfOne
  <1>. QED
    BY <1>3, <1>4, <1>5

\* The actions that touch nothing but the runner, its subscription and the counters.
LEMMA RunnerOnlyInvariant ==
    ASSUME RInv, NEW s \in Sessions,
           \/ Starts(s) \/ Connects(s) \/ WakeArrives(s) \/ ConnectionLost(s) \/ TimerFires(s)
           \/ DrainEnds(s) \/ (\E outcome \in Outcomes : TurnEnds(s, outcome))
           \/ Stops(s) \/ StopEnds(s) \/ Dies(s)
    PROVE  RInv'
  <1>. DEFINE r == runner[s]
  <1>1. RunnerOK(r)
    BY DEF RInv, Shape
  <1>2. CASE Starts(s)
    <2>. DEFINE r2 == [Down EXCEPT !.mode = "idle"]
    <2>1. RunnerOK(r2) /\ Keeps(r, r2)
      BY DownFacts DEF Keeps
    <2>. HIDE DEF r2
    <2>. QED
      BY <1>2, <2>1, StepOfRunner DEF Starts, r2
  <1>3. CASE Connects(s) \/ WakeArrives(s)
    <2>. DEFINE r2 == Scheduled(r, 0)
    <2>1. RunnerOK(r2) /\ Keeps(r, r2)
      BY <1>1, ScheduledFacts DEF Keeps, Holding
    <2>2. runner' = [runner EXCEPT ![s] = r2]
      BY <1>3 DEF Connects, WakeArrives
    <2>. HIDE DEF r2
    <2>. QED
      BY <1>3, <2>1, <2>2, StepOfRunner DEF Connects, WakeArrives
  <1>4. CASE ConnectionLost(s)
    <2>1. \A t \in Sessions : RunnerOK(runner'[t]) /\ Keeps(runner[t], runner'[t])
      BY <1>4 DEF RInv, Shape, ConnectionLost, Keeps
    <2>2. DOMAIN runner' = Sessions
      BY <1>4 DEF RInv, Shape, ConnectionLost
    <2>. QED
      BY <1>4, <2>1, <2>2, StepOfRunners DEF ConnectionLost
  <1>5. CASE TimerFires(s)
    <2>. DEFINE r2 == [r EXCEPT !.timer = None, !.mode = "draining"]
    <2>1. RunnerOK(r2) /\ Keeps(r, r2)
      BY <1>1 DEF RunnerOK, Keeps, Holding
    <2>2. runner' = [runner EXCEPT ![s] = r2]
      BY <1>5 DEF TimerFires, RInv, Shape
    <2>. HIDE DEF r2
    <2>. QED
      BY <1>5, <2>1, <2>2, StepOfRunner DEF TimerFires
  <1>6. CASE DrainEnds(s)
    <2>. DEFINE r2 == Drained(r)
    <2>1. RunnerOK(r2) /\ Keeps(r, r2)
      BY <1>1, DrainedFacts DEF Keeps
    <2>2. runner' = [runner EXCEPT ![s] = r2]
      BY <1>6 DEF DrainEnds
    <2>. HIDE DEF r2
    <2>. QED
      BY <1>6, <2>1, <2>2, StepOfRunner DEF DrainEnds
  <1>7. ASSUME NEW outcome \in Outcomes, TurnEnds(s, outcome)
        PROVE  RInv'
    <2>. DEFINE r2 == AfterTurn(r, outcome)
    <2>1. RunnerOK(r2) /\ Keeps(r, r2)
      BY <1>1, <1>7, AfterTurnFacts DEF TurnEnds
    <2>2. runner' = [runner EXCEPT ![s] = r2]
      BY <1>7 DEF TurnEnds
    <2>. HIDE DEF r2
    <2>. QED
      BY <1>7, <2>1, <2>2, StepOfRunner DEF TurnEnds
  <1>8. CASE Stops(s)
    <2>. DEFINE r2 == [r EXCEPT !.stopped = TRUE, !.timer = None]
    <2>1. RunnerOK(r2) /\ Keeps(r, r2)
      BY <1>1 DEF RunnerOK, Keeps, Holding
    <2>2. runner' = [runner EXCEPT ![s] = r2]
      BY <1>8 DEF Stops, RInv, Shape
    <2>. HIDE DEF r2
    <2>. QED
      BY <1>8, <2>1, <2>2, StepOfRunner DEF Stops
  <1>9. CASE StopEnds(s) \/ Dies(s)
    BY <1>9, ExitsKeeps DEF StopEnds, Dies
  <1>. QED
    BY <1>2, <1>3, <1>4, <1>5, <1>6, <1>7, <1>8, <1>9

LEMMA TickInvariant ==
    ASSUME RInv, Tick
    PROVE  RInv'
  <1>1. \A t \in Sessions : RunnerOK(Older(runner[t])) /\ Keeps(runner[t], Older(runner[t]))
    BY OlderFacts DEF RInv, Shape
  <1>2. DOMAIN runner' = Sessions /\ \A t \in Sessions : runner'[t] = Older(runner[t])
    BY DEF Tick
  <1>. QED
    BY <1>1, <1>2, StepOfRunners DEF Tick

LEMMA StepInvariant ==
    ASSUME RInv, [RunnerNext]_vars
    PROVE  RInv'
  <1>1. ASSUME NEW s \in Sessions, DaemonStep(s)
        PROVE  RInv'
    BY <1>1, ReceiveInvariant, ReplyAppliedInvariant, ReplyAcknowledgedInvariant DEF DaemonStep
  <1>2. ASSUME NEW s \in Sessions, RunnerStep(s)
        PROVE  RInv'
    BY <1>2, RunnerOnlyInvariant, DrainClaimsInvariant, RequeuesInvariant, CompletesInvariant
       DEF RunnerStep
  <1>3. ASSUME NEW s \in Sessions, UserStep(s)
        PROVE  RInv'
    BY <1>3, OutsideSendsInvariant, HookReadsInvariant, RunnerOnlyInvariant DEF UserStep
  <1>4. ASSUME NEW s \in Sessions, FaultStep(s)
        PROVE  RInv'
    BY <1>4, RunnerOnlyInvariant, DaemonRestartsInvariant, ReplyFailsInvariant DEF FaultStep
  <1>5. ASSUME UNCHANGED vars
        PROVE  RInv'
    <2>1. DOMAIN runner' = Sessions
          /\ \A t \in Sessions : RunnerOK(runner'[t]) /\ Keeps(runner[t], runner'[t])
      BY <1>5 DEF vars, RInv, Shape, Keeps
    <2>. QED
      BY <1>5, <2>1, StepOfRunners DEF vars
  <1>. QED
    BY <1>1, <1>2, <1>3, <1>4, <1>5, TickInvariant DEF RunnerNext
-----------------------------------------------------------------------------
(***************************************************************************)
(* What it says in the words of the model.                                 *)
(***************************************************************************)
\* An inbox has as many items as messages, and no item is in two claims.
LEMMA ListsAreSets ==
    ASSUME NEW lg \in Seq(Messages), NEW box \in Boxes(lg)
    PROVE  /\ Cardinality(Pending(box)) = Len(box.pending)
           /\ \A a, b \in box.claims : a # b => ToSet(a) \cap ToSet(b) = {}
  <1>. DEFINE q == box.pending
              n == Len(q)
              f == [k \in 1 .. n |-> q[k].seq]
  <1>1. q \in Seq(ItemsOf(lg)) /\ n \in Nat /\ Distinct(q)
    BY DEF Boxes
  <1>2. \A k \in 1 .. n : q[k] \in ItemsOf(lg)
    BY <1>1
  <1>3. Cardinality(Pending(box)) = n
    <2>1. Pending(box) = Seqs(q)
      BY PendingIsSeqs
    <2>. HIDE DEF q, n
    <2>2. f \in [1 .. n -> Seqs(q)]
      BY SeqsMember DEF n
    <2>3. \A x \in Seqs(q) : \E k \in 1 .. n : f[k] = x
      BY SeqsMember DEF n
    <2>4. \A j, k \in 1 .. n : f[j] = f[k] => j = k
      BY <1>1, <1>2, SameSeqSameItem DEF Distinct, n
    <2>. HIDE DEF f
    <2>5. f \in Bijection(1 .. n, Seqs(q))
      BY <2>2, <2>3, <2>4 DEF Bijection, Injection, Surjection, IsInjective
    <2>6. IsFiniteSet(1 .. n) /\ Cardinality(1 .. n) = n
      BY <1>1, IntervalCard
    <2>7. ExistsBijection(1 .. n, Seqs(q))
      BY <2>5 DEF ExistsBijection
    <2>8. Cardinality(1 .. n) = Cardinality(Seqs(q))
      BY <2>6, <2>7, FS_Bijection
    <2>. QED
      BY <2>1, <2>6, <2>8
  <1>4. ASSUME NEW a \in box.claims, NEW b \in box.claims, a # b
        PROVE  ToSet(a) \cap ToSet(b) = {}
    <2>1. a \in Seq(ItemsOf(lg)) /\ b \in Seq(ItemsOf(lg)) /\ Seqs(a) \cap Seqs(b) = {}
      BY <1>4 DEF Boxes
    <2>2. \A i \in ToSet(a) : i.seq \in Seqs(a)
      BY <2>1, SeqsToSet
    <2>3. \A i \in ToSet(b) : i.seq \in Seqs(b)
      BY <2>1, SeqsToSet
    <2>. QED
      BY <2>1, <2>2, <2>3
  <1>. QED
    BY <1>3, <1>4

LEMMA PlacesFollow ==
    ASSUME RInv
    PROVE  InOnePlace
  <1>. SUFFICES ASSUME NEW s \in Sessions
       PROVE LET places == <<Pending(inbox[s]), Held(inbox[s]), read[s], answered[s], lost[s]>>
             IN /\ UNION ToSet(places) = Received(s)
                /\ \A i, j \in DOMAIN places : i # j => places[i] \cap places[j] = {}
                /\ Cardinality(Pending(inbox[s])) = Len(inbox[s].pending)
                /\ \A a, b \in inbox[s].claims : a # b => ToSet(a) \cap ToSet(b) = {}
    BY DEF InOnePlace
  <1>. DEFINE A == Pending(inbox[s])
              B == Held(inbox[s])
              places == <<A, B, read[s], answered[s], lost[s]>>
  <1>1. log \in Seq(Messages) /\ inbox[s] \in Boxes(log)
        /\ Sorted(inbox[s], read[s], answered[s], lost[s], ReceivedOf(log, cursor[s], s))
    BY DEF RInv, Shape, GoodAt, Good
  <1>2. A = Seqs(inbox[s].pending) /\ B = HeldSeqs(inbox[s])
    BY <1>1, PendingIsSeqs
  <1>3. A \cap B = {}
    BY <1>1, <1>2, HeldMember DEF Boxes
  <1>4. Received(s) = ReceivedOf(log, cursor[s], s)
    BY DEF Received, ReceivedOf
  <1>5. /\ A \cup B \cup read[s] \cup answered[s] \cup lost[s] = Received(s)
        /\ (A \cup B) \cap (read[s] \cup answered[s] \cup lost[s]) = {}
        /\ read[s] \cap answered[s] = {} /\ read[s] \cap lost[s] = {}
        /\ answered[s] \cap lost[s] = {}
    BY <1>1, <1>2, <1>4 DEF Sorted
  <1>6. /\ Cardinality(A) = Len(inbox[s].pending)
        /\ \A a, b \in inbox[s].claims : a # b => ToSet(a) \cap ToSet(b) = {}
    BY <1>1, ListsAreSets
  <1>. HIDE DEF A, B
  <1>7. DOMAIN places = 1 .. 5 /\ places[1] = A /\ places[2] = B /\ places[3] = read[s]
        /\ places[4] = answered[s] /\ places[5] = lost[s]
    OBVIOUS
  <1>8. UNION ToSet(places) = Received(s)
    <2>1. ToSet(places) = {A, B, read[s], answered[s], lost[s]}
      BY <1>7 DEF ToSet
    <2>. QED
      BY <1>5, <2>1
  <1>9. \A i, j \in DOMAIN places : i # j => places[i] \cap places[j] = {}
    <2>1. \A i \in DOMAIN places : i = 1 \/ i = 2 \/ i = 3 \/ i = 4 \/ i = 5
      BY <1>7
    <2>. QED
      BY <1>3, <1>5, <1>7, <2>1
  <1>. QED
    BY <1>6, <1>8, <1>9 DEF A, B

LEMMA DepthsFollow ==
    ASSUME RInv
    PROVE  RepliesFit
  <1>1. log \in Seq(Messages)
    BY DEF RInv, Shape
  <1>2. ASSUME NEW s \in Sessions, NEW a \in inbox[s].claims, NEW i \in ToSet(a)
        PROVE  i.depth < MaxDepth
    <2>1. a \in Seq(ItemsOf(log)) /\ \A k \in 1 .. Len(a) : a[k].wake
      BY DEF RInv, GoodAt, Good, Boxes
    <2>2. PICK k \in 1 .. Len(a) : i = a[k]
      BY <2>1 DEF ToSet
    <2>3. i \in ItemsOf(log) /\ i.wake
      BY <2>1, <2>2
    <2>. QED
      BY <1>1, <2>3, ItemFacts
  <1>3. ASSUME NEW n \in Events
        PROVE  log[n].depth <= MaxDepth
    <2>1. log[n] \in Messages
      BY <1>1 DEF Events
    <2>. QED
      BY <2>1, InboxAssumption DEF Messages
  <1>. QED
    BY <1>2, <1>3 DEF RepliesFit
-----------------------------------------------------------------------------
(***************************************************************************)
(* The theorems.                                                           *)
(***************************************************************************)
\* The invariant holds, whatever calls fail and whoever dies: of every session (Good), of
\* what a reply is about, and of the shapes of all that a daemon and a runner keep.
THEOREM RunnerInvariance == RunnerSpec => []RInv
  <1>1. RunnerInit => RInv
    BY InitInvariant
  <1>2. RInv /\ [RunnerNext]_vars => RInv'
    BY StepInvariant
  <1>. QED
    BY <1>1, <1>2, PTL DEF RunnerSpec

\* A message that a daemon has received for its agent waits, or is in one claim, or was
\* read, or answered, or is lost, and never in two of these places (inbox.ts).
THEOREM MessagesAreInOnePlace == RunnerSpec => []InOnePlace
  <1>1. RInv => InOnePlace
    BY PlacesFollow
  <1>. QED
    BY <1>1, RunnerInvariance, PTL

\* No message gets two automatic replies (completeRunnerClaim, drain).
THEOREM OneReplyEach == RunnerSpec => []AnsweredOnce
  <1>1. RInv => AnsweredOnce
    BY DEF RInv
  <1>. QED
    BY <1>1, RunnerInvariance, PTL

\* What a runner may claim can be answered within MAX_AUTOMATION_DEPTH, and no message is
\* beyond it (shouldWake, the check in completeRunnerClaim).
THEOREM ConversationsEnd == RunnerSpec => []RepliesFit
  <1>1. RInv => RepliesFit
    BY DepthsFollow
  <1>. QED
    BY <1>1, RunnerInvariance, PTL
=============================================================================
