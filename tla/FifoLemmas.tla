----------------------------- MODULE FifoLemmas -----------------------------
(***************************************************************************)
(* What the functions of fifo.c do to a ring, for every size and every set *)
(* of bytes: the facts that the proofs about one ring (FifoProofs) and     *)
(* about the server's two threads (SidServerProofs) rest on.               *)
(***************************************************************************)
EXTENDS Fifo, SequenceTheorems, TLAPS

(* Indices stay below twice the size, so wrapping is one subtraction: the  *)
(* form of "%" the solvers can reason about.                               *)
Wrap(n, i) == IF i < n THEN i ELSE i - n

LEMMA WrapLemma ==
  ASSUME NEW n \in Nat \ {0}, NEW i \in 0 .. 2 * n - 1
  PROVE  /\ i % n = Wrap(n, i)
         /\ i % n \in 0 .. n - 1
  BY DEF Wrap

(* Two offsets below the size name the same slot only if they are equal.   *)
LEMMA SlotLemma ==
  ASSUME NEW n \in Nat \ {0}, NEW a \in 0 .. n - 1,
         NEW i \in 0 .. n - 1, NEW j \in 0 .. n - 1
  PROVE  /\ (a + i) % n \in 0 .. n - 1
         /\ (a + i) % n = (a + j) % n => i = j
  <1>1. a + i \in 0 .. 2 * n - 1
    OBVIOUS
  <1>2. a + j \in 0 .. 2 * n - 1
    OBVIOUS
  <1>3. (a + i) % n = Wrap(n, a + i)
    BY <1>1, WrapLemma
  <1>4. (a + j) % n = Wrap(n, a + j)
    BY <1>2, WrapLemma
  <1>5. Wrap(n, a + i) \in 0 .. n - 1
    BY DEF Wrap
  <1>6. Wrap(n, a + i) = Wrap(n, a + j) => i = j
    BY DEF Wrap
  <1>7. QED
    BY <1>3, <1>4, <1>5, <1>6

(* Stepping an index after wrapping it, or wrapping after stepping it, is  *)
(* the same.                                                               *)
LEMMA StepLemma ==
  ASSUME NEW n \in Nat \ {0}, NEW a \in 0 .. n - 1, NEW i \in 0 .. n - 1
  PROVE  /\ (((a + i) % n) + 1) % n = (a + (i + 1)) % n
         /\ (((a + 1) % n) + i) % n = (a + (i + 1)) % n
         /\ (a + 1) % n \in 0 .. n - 1
  <1>1. /\ a + i \in 0 .. 2 * n - 1
        /\ a + 1 \in 0 .. 2 * n - 1
        /\ a + (i + 1) \in 0 .. 2 * n - 1
    OBVIOUS
  <1>2. /\ (a + i) % n = Wrap(n, a + i)
        /\ (a + 1) % n = Wrap(n, a + 1)
        /\ (a + (i + 1)) % n = Wrap(n, a + (i + 1))
    BY <1>1, WrapLemma
  <1>3. /\ Wrap(n, a + i) \in 0 .. n - 1
        /\ Wrap(n, a + 1) \in 0 .. n - 1
    BY DEF Wrap
  <1>4. /\ Wrap(n, a + i) + 1 \in 0 .. 2 * n - 1
        /\ Wrap(n, a + 1) + i \in 0 .. 2 * n - 1
    BY <1>3
  <1>5. /\ (Wrap(n, a + i) + 1) % n = Wrap(n, Wrap(n, a + i) + 1)
        /\ (Wrap(n, a + 1) + i) % n = Wrap(n, Wrap(n, a + 1) + i)
    BY <1>4, WrapLemma
  <1>6. /\ Wrap(n, Wrap(n, a + i) + 1) = Wrap(n, a + (i + 1))
        /\ Wrap(n, Wrap(n, a + 1) + i) = Wrap(n, a + (i + 1))
    BY DEF Wrap
  <1>7. QED
    BY <1>2, <1>3, <1>5, <1>6

(* The parts of a ring.                                                    *)
LEMMA FIFOShape ==
  ASSUME NEW n \in Nat \ {0}, NEW f \in FIFO(n)
  PROVE  /\ f = [ fifo_buf   |-> f.fifo_buf,
                  fifo_size  |-> n,
                  fifo_count |-> f.fifo_count,
                  fifo_first |-> f.fifo_first,
                  fifo_last  |-> f.fifo_last ]
         /\ f.fifo_buf \in [ 0 .. n - 1 -> Byte \cup {Junk} ]
         /\ f.fifo_size = n
         /\ f.fifo_count \in 0 .. n
         /\ f.fifo_first \in 0 .. n - 1
         /\ f.fifo_last \in 0 .. n - 1
         /\ f.fifo_last = (f.fifo_first + f.fifo_count) % n
  BY DEF FIFO

LEMMA FIFOBytes ==
  ASSUME NEW n \in Nat \ {0}, NEW f \in FIFO(n), NEW i \in 0 .. f.fifo_count - 1
  PROVE  At(f, i) \in Byte
  BY DEF FIFO

(* writeFIFO on a ring with room appends the byte and disturbs no other.   *)
LEMMA WriteLemma ==
  ASSUME NEW n \in Nat \ {0}, NEW f \in FIFO(n), NEW b \in Byte,
         f.fifo_count < n
  PROVE  /\ WriteFIFO(f, b) \in FIFO(n)
         /\ WriteFIFO(f, b).fifo_count = f.fifo_count + 1
         /\ At(WriteFIFO(f, b), f.fifo_count) = b
         /\ \A i \in 0 .. f.fifo_count - 1 : At(WriteFIFO(f, b), i) = At(f, i)
  <1> DEFINE buf == f.fifo_buf
             count == f.fifo_count
             first == f.fifo_first
             last == f.fifo_last
             g == WriteFIFO(f, b)
  <1>1. buf \in [ 0 .. n - 1 -> Byte \cup {Junk} ]
    BY FIFOShape
  <1>2. count \in 0 .. n - 1 /\ first \in 0 .. n - 1 /\ last \in 0 .. n - 1
    BY FIFOShape
  <1>3. last = (first + count) % n
    BY FIFOShape
  <1>4. g = [ fifo_buf   |-> [ buf EXCEPT ![last] = b ],
              fifo_size  |-> n,
              fifo_count |-> count + 1,
              fifo_first |-> first,
              fifo_last  |-> (last + 1) % n ]
    <2>1. ~IsFIFOFull(f)
      BY FIFOShape DEF IsFIFOFull
    <2>2. g = [ f EXCEPT !.fifo_buf = [ buf EXCEPT ![last] = b ],
                         !.fifo_last = (last + 1) % n,
                         !.fifo_count = count + 1 ]
      BY <2>1, FIFOShape DEF WriteFIFO, Advance
    <2>3. QED
      BY <2>2, FIFOShape
  <1>5. ASSUME NEW i \in 0 .. n - 1
        PROVE  At(g, i) = IF i = count THEN b ELSE At(f, i)
    <2>1. At(f, i) = buf[(first + i) % n]
      BY FIFOShape DEF At
    <2>2. At(g, i) = [ buf EXCEPT ![last] = b ][(first + i) % n]
      BY <1>4 DEF At
    <2> HIDE DEF buf, count, first, last, g
    <2>3. (first + i) % n \in 0 .. n - 1
      BY <1>2, SlotLemma
    <2>4. (first + i) % n = (first + count) % n <=> i = count
      <3>1. (first + i) % n = (first + count) % n => i = count
        BY <1>2, SlotLemma
      <3>2. QED
        BY <3>1
    <2>5. QED
      BY <1>1, <1>3, <2>1, <2>2, <2>3, <2>4
  <1>6. (last + 1) % n \in 0 .. n - 1
    BY <1>2, StepLemma
  <1>7. (last + 1) % n = (first + (count + 1)) % n
    <2> HIDE DEF buf, count, first, last, g
    <2>1. ((first + count) % n) + 1 = last + 1
      BY <1>3
    <2>2. (((first + count) % n) + 1) % n = (first + (count + 1)) % n
      BY <1>2, StepLemma
    <2>3. QED
      BY <2>1, <2>2
  <1>8. g \in FIFO(n)
    <2>1. \A i \in 0 .. (count + 1) - 1 : At(g, i) \in Byte
      <3> SUFFICES ASSUME NEW i \in 0 .. (count + 1) - 1
                   PROVE  At(g, i) \in Byte
        OBVIOUS
      <3>1. i \in 0 .. n - 1 /\ (i # count => i \in 0 .. count - 1)
        BY <1>2
      <3>2. QED
        BY <1>5, <3>1, FIFOBytes
    <2>2. [ buf EXCEPT ![last] = b ] \in [ 0 .. n - 1 -> Byte \cup {Junk} ]
      BY <1>1
    <2>3. count + 1 \in 0 .. n
      BY <1>2
    <2> HIDE DEF buf, count, first, last, g
    <2>4. /\ g \in [ fifo_buf   : [ 0 .. n - 1 -> Byte \cup {Junk} ],
                     fifo_size  : {n},
                     fifo_count : 0 .. n,
                     fifo_first : 0 .. n - 1,
                     fifo_last  : 0 .. n - 1 ]
          /\ g.fifo_last = (g.fifo_first + g.fifo_count) % n
          /\ g.fifo_count = count + 1
      BY <1>2, <1>4, <1>6, <1>7, <2>2, <2>3
    <2>5. QED
      BY <2>1, <2>4 DEF FIFO
  <1>9. g.fifo_count = count + 1
    BY <1>4
  <1>10. /\ At(g, count) = b
         /\ \A i \in 0 .. count - 1 : At(g, i) = At(f, i)
    BY <1>2, <1>5
  <1>11. QED
    BY <1>8, <1>9, <1>10

(* readFIFO on a ring that holds something gives its front byte and drops  *)
(* it.                                                                     *)
LEMMA ReadLemma ==
  ASSUME NEW n \in Nat \ {0}, NEW f \in FIFO(n), f.fifo_count > 0
  PROVE  /\ ReadFIFO(f) \in FIFO(n)
         /\ ReadFIFO(f).fifo_count = f.fifo_count - 1
         /\ \A i \in 0 .. f.fifo_count - 2 : At(ReadFIFO(f), i) = At(f, i + 1)
         /\ ReadResult(f) = At(f, 0)
  <1> DEFINE buf == f.fifo_buf
             count == f.fifo_count
             first == f.fifo_first
             last == f.fifo_last
             g == ReadFIFO(f)
  <1>1. buf \in [ 0 .. n - 1 -> Byte \cup {Junk} ]
    BY FIFOShape
  <1>2. count \in 1 .. n /\ first \in 0 .. n - 1 /\ last \in 0 .. n - 1
    BY FIFOShape
  <1>3. last = (first + count) % n
    BY FIFOShape
  <1>4. ~IsFIFOEmpty(f)
    BY FIFOShape DEF IsFIFOEmpty
  <1>5. g = [ fifo_buf   |-> buf,
              fifo_size  |-> n,
              fifo_count |-> count - 1,
              fifo_first |-> (first + 1) % n,
              fifo_last  |-> last ]
    <2>1. g = [ f EXCEPT !.fifo_first = (first + 1) % n,
                         !.fifo_count = count - 1 ]
      BY <1>4, FIFOShape DEF ReadFIFO, Advance
    <2>2. QED
      BY <2>1, FIFOShape
  <1>6. ASSUME NEW i \in 0 .. n - 1
        PROVE  (((first + 1) % n) + i) % n = (first + (i + 1)) % n
    BY <1>2, StepLemma
  <1>7. ASSUME NEW i \in 0 .. count - 2
        PROVE  At(g, i) = At(f, i + 1)
    <2>1. At(f, i + 1) = buf[(first + (i + 1)) % n]
      BY FIFOShape DEF At
    <2>2. At(g, i) = buf[(((first + 1) % n) + i) % n]
      BY <1>5 DEF At
    <2>3. i \in 0 .. n - 1
      BY <1>2
    <2>4. QED
      BY <1>6, <2>1, <2>2, <2>3
  <1>8. (first + 1) % n \in 0 .. n - 1
    BY <1>2, StepLemma
  <1>9. last = (((first + 1) % n) + (count - 1)) % n
    <2>1. count - 1 \in 0 .. n - 1 /\ (count - 1) + 1 = count
      BY <1>2
    <2>2. QED
      BY <1>3, <1>6, <2>1
  <1>10. g \in FIFO(n)
    <2>1. \A i \in 0 .. (count - 1) - 1 : At(g, i) \in Byte
      <3> SUFFICES ASSUME NEW i \in 0 .. (count - 1) - 1
                   PROVE  At(g, i) \in Byte
        OBVIOUS
      <3>1. i \in 0 .. count - 2 /\ i + 1 \in 0 .. count - 1
        BY <1>2
      <3>2. QED
        BY <1>7, <3>1, FIFOBytes
    <2>2. count - 1 \in 0 .. n
      BY <1>2
    <2> HIDE DEF buf, count, first, last, g
    <2>3. /\ g \in [ fifo_buf   : [ 0 .. n - 1 -> Byte \cup {Junk} ],
                     fifo_size  : {n},
                     fifo_count : 0 .. n,
                     fifo_first : 0 .. n - 1,
                     fifo_last  : 0 .. n - 1 ]
          /\ g.fifo_last = (g.fifo_first + g.fifo_count) % n
          /\ g.fifo_count = count - 1
      BY <1>1, <1>2, <1>5, <1>8, <1>9, <2>2
    <2>4. QED
      BY <2>1, <2>3 DEF FIFO
  <1>11. ReadResult(f) = At(f, 0)
    <2>1. (first + 0) % n = first
      <3>1. first + 0 = first /\ first \in 0 .. 2 * n - 1
        BY <1>2
      <3>2. first % n = Wrap(n, first)
        BY <3>1, WrapLemma
      <3>3. Wrap(n, first) = first
        BY <1>2 DEF Wrap
      <3>4. QED
        BY <3>1, <3>2, <3>3
    <2>2. At(f, 0) = buf[first]
      BY <2>1, FIFOShape DEF At
    <2>3. QED
      BY <1>4, <2>2 DEF ReadResult
  <1>12. g.fifo_count = count - 1
    BY <1>5
  <1>13. QED
    BY <1>7, <1>10, <1>11, <1>12

(* initFIFO and resetFIFO give an empty ring.                              *)
LEMMA InitLemma ==
  ASSUME NEW n \in Nat \ {0}
  PROVE  InitFIFO(n) \in FIFO(n) /\ InitFIFO(n).fifo_count = 0
  <1>1. (0 + 0) % n = 0
    BY WrapLemma DEF Wrap
  <1>2. QED
    BY <1>1 DEF InitFIFO, FIFO

LEMMA ResetLemma ==
  ASSUME NEW n \in Nat \ {0}, NEW f \in FIFO(n)
  PROVE  ResetFIFO(f) \in FIFO(n) /\ ResetFIFO(f).fifo_count = 0
  <1>1. (0 + 0) % n = 0
    BY WrapLemma DEF Wrap
  <1>2. ResetFIFO(f) = [ fifo_buf   |-> f.fifo_buf,
                         fifo_size  |-> n,
                         fifo_count |-> 0,
                         fifo_first |-> 0,
                         fifo_last  |-> 0 ]
    <2>1. ResetFIFO(f) = [ f EXCEPT !.fifo_count = 0, !.fifo_first = 0,
                                    !.fifo_last = 0 ]
      BY DEF ResetFIFO
    <2>2. f \in [ fifo_buf   : [ 0 .. n - 1 -> Byte \cup {Junk} ],
                  fifo_size  : {n},
                  fifo_count : 0 .. n,
                  fifo_first : 0 .. n - 1,
                  fifo_last  : 0 .. n - 1 ]
      BY DEF FIFO
    <2>3. QED
      BY <2>1, <2>2
  <1>3. QED
    <2>1. f.fifo_buf \in [ 0 .. n - 1 -> Byte \cup {Junk} ]
      BY FIFOShape
    <2>2. QED
      BY <1>1, <1>2, <2>1 DEF FIFO

-----------------------------------------------------------------------------
(* The ring seen as a sequence.                                            *)
LEMMA ContentsLemma ==
  ASSUME NEW n \in Nat \ {0}, NEW f \in FIFO(n)
  PROVE  /\ Contents(f) \in Seq(Byte)
         /\ Len(Contents(f)) = f.fifo_count
         /\ \A i \in 1 .. f.fifo_count : Contents(f)[i] = At(f, i - 1)
  <1>1. f.fifo_count \in Nat
    BY FIFOShape
  <1>2. ASSUME NEW i \in 1 .. f.fifo_count
        PROVE  At(f, i - 1) \in Byte
    <2>1. i - 1 \in 0 .. f.fifo_count - 1
      BY <1>1
    <2>2. QED
      BY <2>1, FIFOBytes
  <1>3. Contents(f) \in [ 1 .. f.fifo_count -> Byte ]
    BY <1>2 DEF Contents
  <1>4. Contents(f) \in Seq(Byte)
    BY <1>1, <1>3, SeqDef
  <1>5. Len(Contents(f)) = f.fifo_count
    BY <1>1, <1>3, <1>4, LenProperties
  <1>6. QED
    BY <1>4, <1>5 DEF Contents

LEMMA AppendLemma ==
  ASSUME NEW n \in Nat \ {0}, NEW f \in FIFO(n), NEW b \in Byte,
         f.fifo_count < n
  PROVE  Contents(WriteFIFO(f, b)) = Append(Contents(f), b)
  <1> DEFINE g == WriteFIFO(f, b)
             s == Append(Contents(f), b)
  <1>1. f.fifo_count \in Nat
    BY FIFOShape
  <1>2. /\ g \in FIFO(n)
        /\ g.fifo_count = f.fifo_count + 1
        /\ At(g, f.fifo_count) = b
        /\ \A i \in 0 .. f.fifo_count - 1 : At(g, i) = At(f, i)
    BY WriteLemma
  <1> HIDE DEF g
  <1>3. /\ Contents(g) \in Seq(Byte)
        /\ Len(Contents(g)) = f.fifo_count + 1
        /\ \A i \in 1 .. f.fifo_count + 1 : Contents(g)[i] = At(g, i - 1)
    BY <1>2, ContentsLemma
  <1>4. /\ Contents(f) \in Seq(Byte)
        /\ Len(Contents(f)) = f.fifo_count
        /\ \A i \in 1 .. f.fifo_count : Contents(f)[i] = At(f, i - 1)
    BY ContentsLemma
  <1>5. /\ s \in Seq(Byte)
        /\ Len(s) = f.fifo_count + 1
        /\ \A i \in 1 .. f.fifo_count : s[i] = Contents(f)[i]
        /\ s[f.fifo_count + 1] = b
    BY <1>4, AppendProperties
  <1>6. ASSUME NEW i \in 1 .. f.fifo_count + 1
        PROVE  Contents(g)[i] = s[i]
    <2>1. CASE i = f.fifo_count + 1
      BY <1>1, <1>2, <1>3, <1>5, <2>1
    <2>2. CASE i # f.fifo_count + 1
      <3>1. i \in 1 .. f.fifo_count /\ i - 1 \in 0 .. f.fifo_count - 1
        BY <1>1, <2>2
      <3>2. QED
        BY <1>2, <1>3, <1>4, <1>5, <3>1
    <2>3. QED
      BY <2>1, <2>2
  <1> HIDE DEF s
  <1>7. Contents(g) = s
    BY <1>3, <1>5, <1>6, SeqEqual
  <1>8. QED
    BY <1>7 DEF g, s

LEMMA TailLemma ==
  ASSUME NEW n \in Nat \ {0}, NEW f \in FIFO(n), f.fifo_count > 0
  PROVE  /\ Contents(f) # << >>
         /\ ReadResult(f) = Head(Contents(f))
         /\ Contents(ReadFIFO(f)) = Tail(Contents(f))
  <1> DEFINE g == ReadFIFO(f)
             s == Tail(Contents(f))
  <1>1. f.fifo_count \in Nat
    BY FIFOShape
  <1>2. /\ g \in FIFO(n)
        /\ g.fifo_count = f.fifo_count - 1
        /\ \A i \in 0 .. f.fifo_count - 2 : At(g, i) = At(f, i + 1)
        /\ ReadResult(f) = At(f, 0)
    BY ReadLemma
  <1> HIDE DEF g
  <1>3. /\ Contents(g) \in Seq(Byte)
        /\ Len(Contents(g)) = f.fifo_count - 1
        /\ \A i \in 1 .. f.fifo_count - 1 : Contents(g)[i] = At(g, i - 1)
    BY <1>2, ContentsLemma
  <1>4. /\ Contents(f) \in Seq(Byte)
        /\ Len(Contents(f)) = f.fifo_count
        /\ \A i \in 1 .. f.fifo_count : Contents(f)[i] = At(f, i - 1)
    BY ContentsLemma
  <1>5. Contents(f) # << >>
    BY <1>1, <1>4, EmptySeq
  <1>6. Head(Contents(f)) = At(f, 0)
    BY <1>1, <1>4, <1>5, HeadTailProperties
  <1>7. /\ s \in Seq(Byte)
        /\ Len(s) = f.fifo_count - 1
        /\ \A i \in 1 .. f.fifo_count - 1 : s[i] = Contents(f)[i + 1]
    BY <1>4, <1>5, HeadTailProperties
  <1>8. ASSUME NEW i \in 1 .. f.fifo_count - 1
        PROVE  Contents(g)[i] = s[i]
    <2>1. i - 1 \in 0 .. f.fifo_count - 2 /\ i + 1 \in 1 .. f.fifo_count
      BY <1>1
    <2>2. (i - 1) + 1 = (i + 1) - 1
      OBVIOUS
    <2>3. QED
      BY <1>2, <1>3, <1>4, <1>7, <2>1, <2>2
  <1> HIDE DEF s
  <1>9. Contents(g) = s
    BY <1>3, <1>7, <1>8, SeqEqual
  <1>10. QED
    BY <1>2, <1>5, <1>6, <1>9 DEF g, s
=============================================================================
