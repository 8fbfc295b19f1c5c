------------------------------ MODULE CameraProofs ------------------------------
(***************************************************************************)
(* Theorems about the camera example and its image kernels.                *)
(*                                                                         *)
(* The three kernels run the same loop.  Its invariant says which of two   *)
(* transfers may be in the DMA's queue at each place of the loop, and what *)
(* the buffers hold that they, or the cores, are going to read.  What is   *)
(* said of a kernel's numbers is in one lemma (BufferLemma); the steps use *)
(* that and not the numbers.                                               *)
(***************************************************************************)
EXTENDS CameraTest, SequenceTheorems, TLAPS

Stages == {"demosaic", "histogram", "norm"}
LastTile == K.tiles - 1

\* The transfers of tile t.
In(t) == [dir |-> "in", ext |-> Needs(t).from, loc |-> InLoc(t), size |-> InSize(t)]
Out(t) == [dir |-> "out", ext |-> t * K.out, loc |-> OutLoc(t), size |-> K.out]

\* At most these two transfers are left, in this order.
Queues(x, y) == {<<>>, <<x>>, <<y>>, <<x, y>>}
Left(x, y) == dma \in Queues(x, y)

\* Only tiles that exist are read, and only results of earlier ones written.
DmaInv ==
    /\ pc \in {"prolog", "epilog"} => ~Pending("in")
    /\ pc \in {"fetch", "call", "store"} /\ tile = 0 => ~Pending("out")
    /\ pc \in {"call", "store"} /\ tile = LastTile => ~Pending("in")
    /\ K.out = 0 => ~Pending("out")
    /\ pc = "prolog" => dma = <<>>
    /\ pc = "fetch" => Left(In(tile), Out(tile - 1))
    /\ pc \in {"call", "store"} => Left(Out(tile - 1), In(tile + 1))
    /\ pc = "epilog" => dma \in {<<>>, <<Out(tile)>>}

\* The loop's variables, as the tile table has them.
LoopInv ==
    /\ ordered \in BOOLEAN /\ stage \in Stages \cup {"idle", "done"}
    /\ pc \in {"prolog", "fetch", "call", "store", "epilog"}
    /\ stage \notin Stages => pc = "prolog"
    /\ pc # "prolog" => tile \in 0..LastTile
    /\ pc \in {"fetch", "call", "store"} =>
          /\ cOut = tile * K.out /\ scOut = K.out
          /\ spOut = (IF tile = 0 THEN 0 ELSE K.out)
          /\ nIn = Needs(IF pc = "fetch" \/ tile = LastTile THEN tile ELSE tile + 1).from
    /\ pc = "epilog" =>
          tile = LastTile /\ cOut = tile * K.out /\ nIn = Needs(tile).from

Holds(loc, content) == loc \in DOMAIN l1 /\ l1[loc] = content

\* The results that the loop has to show for itself where it is.
Produced ==
    IF pc = "epilog" \/ (pc = "store" /\ K.out = 0) THEN tile + 1 ELSE tile

\* What will be read is what is read for, while it waits to be read: the
\* operands of the cores, and the results on their way to the image.
DataInv ==
    /\ pc = "prolog" => good = 0
    /\ pc # "prolog" => good = IF Pending("out") THEN Produced - 1 ELSE Produced
    /\ pc = "fetch" /\ ~Pending("in") => Holds(InLoc(tile), Needs(tile))
    /\ pc = "call" => Holds(InLoc(tile), Needs(tile))
    /\ pc \in {"call", "store"} /\ tile < LastTile /\ ~Pending("in") =>
          Holds(InLoc(tile + 1), Needs(tile + 1))
    /\ pc = "store" /\ K.out # 0 => Holds(OutLoc(tile), Result(tile))
    /\ Pending("out") =>
          LET t == IF pc = "epilog" THEN tile ELSE tile - 1
          IN  Holds(OutLoc(t), Result(t))

\* A queue that is carried out in order keeps a read behind the write whose
\* buffer it shares.
OrderInv ==
    ordered /\ pc \in {"call", "store"} /\ tile < LastTile /\ Pending("out") => Pending("in")

Serial == ordered \/ stage # "norm"

IspInv == LoopInv /\ DmaInv /\ OrderInv /\ (Serial => DataInv)

\* Where main() is, and which of the camera's pins are high there.
PinInv ==
    \/ app \in {"open", "closed", "isp", "done"} /\ pins = {}
    \/ app \in {"open2", "close3"} /\ pins = {"csi_pwr"}
    \/ app \in {"open3", "close2"} /\ pins = {"csi_pwr", "xsleep"}
    \/ /\ app \in {"probe", "alloc", "cluster", "l1", "capture", "wait", "close"}
       /\ pins = {"csi_pwr", "xsleep", "xshdown"}
    \/ app = "failed" /\ CameraPowered

-----------------------------------------------------------------------------
(* The numbers of the kernels.                                             *)

Apart(a, n, b, m) == a + n <= b \/ b + m <= a

LEMMA ParityLemma ==
    ASSUME NEW t \in Int
    PROVE  \/ t % 2 = 0 /\ (t + 1) % 2 = 1 /\ (t + 2) % 2 = 0
           \/ t % 2 = 1 /\ (t + 1) % 2 = 0 /\ (t + 2) % 2 = 1
OBVIOUS

LEMMA KernelLemma ==
    ASSUME stage \in Stages
    PROVE  \/ stage = "demosaic" /\ K = Demosaic
           \/ stage = "histogram" /\ K = Histogram
           \/ stage = "norm" /\ K = Norm
BY DEF Stages, K

LEMMA SizeLemma ==
    ASSUME stage \in Stages, NEW t \in Nat
    PROVE  /\ K.out \in Nat /\ K.tiles \in Nat /\ K.tiles > 1
           /\ InSize(t) \in Nat /\ InSize(t) > 0 /\ InSize(t) <= K.inStep
<1>1. CASE K = Demosaic
  BY <1>1 DEF Demosaic, InSize
<1>2. CASE K = Histogram
  BY <1>2 DEF Histogram, InSize
<1>3. CASE K = Norm
  BY <1>3 DEF Norm, InSize
<1>4. QED  BY <1>1, <1>2, <1>3, KernelLemma

\* Where the buffers are: those of a tile and of the next are apart, and the
\* input of a tile is apart from every output but, in place, its own.
LEMMA BufferLemma ==
    ASSUME stage \in Stages, NEW t \in Nat
    PROVE  /\ InLoc(t) \in Nat /\ InLoc(t + 2) = InLoc(t)
           /\ OutLoc(t) \in Nat
           /\ InLoc(t) + InSize(t) <= L1Size /\ OutLoc(t) + K.out <= L1Size
           /\ InLoc(t) # InLoc(t + 1)
           /\ Apart(InLoc(t), InSize(t), InLoc(t + 1), InSize(t + 1))
           /\ Apart(OutLoc(t), K.out, OutLoc(t + 1), K.out)
           /\ K.out # 0 => OutLoc(t) # OutLoc(t + 1)
           /\ stage = "demosaic" => \A u \in Nat :
                 /\ InLoc(t) # OutLoc(u)
                 /\ Apart(InLoc(t), InSize(t), OutLoc(u), K.out)
           /\ stage = "histogram" => K.out = 0 /\ InLoc(t) + InSize(t) <= 61452
           /\ stage = "norm" => /\ InLoc(t) = OutLoc(t) /\ InSize(t) = K.out
                                /\ InLoc(t) >= 12
<1>1. \/ t % 2 = 0 /\ (t + 1) % 2 = 1 /\ (t + 2) % 2 = 0
      \/ t % 2 = 1 /\ (t + 1) % 2 = 0 /\ (t + 2) % 2 = 1
  BY ParityLemma
<1>2. /\ InSize(t) \in Nat /\ InSize(t) <= K.inStep
      /\ InSize(t + 1) \in Nat /\ InSize(t + 1) <= K.inStep
  BY SizeLemma
<1>3. \A u \in Nat : u % 2 = 0 \/ u % 2 = 1
  OBVIOUS
<1>4. CASE stage = "demosaic" /\ K = Demosaic
  <2>1. /\ K.inBase = 0 /\ K.inStep = 14080 /\ K.outBase = 28160
        /\ K.outStep = 38400 /\ K.out = 38400
    BY <1>4 DEF Demosaic
  <2>2. \A u \in Nat :
           /\ u % 2 = 0 => InLoc(u) = 0 /\ OutLoc(u) = 28160
           /\ u % 2 = 1 => InLoc(u) = 14080 /\ OutLoc(u) = 66560
    BY <2>1 DEF InLoc, OutLoc
  <2>3. \/ /\ InLoc(t) = 0 /\ InLoc(t + 1) = 14080 /\ InLoc(t + 2) = 0
           /\ OutLoc(t) = 28160 /\ OutLoc(t + 1) = 66560
        \/ /\ InLoc(t) = 14080 /\ InLoc(t + 1) = 0 /\ InLoc(t + 2) = 14080
           /\ OutLoc(t) = 66560 /\ OutLoc(t + 1) = 28160
    BY <1>1, <2>2
  <2>4. /\ InLoc(t) \in Nat /\ Apart(InLoc(t), InSize(t), InLoc(t + 1), InSize(t + 1))
        /\ InLoc(t) + InSize(t) <= 28160 /\ InLoc(t) # InLoc(t + 1)
    <3>1. InSize(t) <= 14080 /\ InSize(t + 1) <= 14080
      BY <1>2, <2>1
    <3>2. InLoc(t) \in Nat /\ InLoc(t + 1) \in Nat
      BY <2>3
    <3>3. QED  BY <1>2, <2>3, <3>1, <3>2 DEF Apart
  <2>5. /\ OutLoc(t) \in Nat /\ Apart(OutLoc(t), K.out, OutLoc(t + 1), K.out)
        /\ OutLoc(t) + K.out <= 104960 /\ OutLoc(t) # OutLoc(t + 1)
    <3>1. OutLoc(t) \in Nat /\ OutLoc(t + 1) \in Nat
      BY <2>3
    <3>2. QED  BY <2>1, <2>3, <3>1 DEF Apart
  <2>6. ASSUME NEW u \in Nat
        PROVE  /\ InLoc(t) # OutLoc(u)
               /\ Apart(InLoc(t), InSize(t), OutLoc(u), K.out)
    <3>1. OutLoc(u) = 28160 \/ OutLoc(u) = 66560
      BY <1>3, <2>2
    <3>2. OutLoc(u) \in Int /\ OutLoc(u) >= 28160
      BY <3>1
    <3>3. InLoc(t) + InSize(t) <= OutLoc(u)
      BY <1>2, <2>4, <3>2
    <3>4. InLoc(t) # OutLoc(u)
      BY <2>3, <3>1
    <3>5. QED  BY <3>3, <3>4 DEF Apart
  <2>7. InLoc(t + 2) = InLoc(t)
    BY <2>3
  <2>8. InLoc(t) + InSize(t) <= 104960
    BY <1>2, <2>1, <2>4
  <2>9. QED  BY <1>4, <2>4, <2>5, <2>6, <2>7, <2>8 DEF L1Size
<1>5. CASE stage = "histogram" /\ K = Histogram
  <2>1. /\ K.inBase = 12 /\ K.inStep = 30720 /\ K.outBase = 12
        /\ K.outStep = 30720 /\ K.out = 0
    BY <1>5 DEF Histogram
  <2>2. \A u \in Nat :
           /\ u % 2 = 0 => InLoc(u) = 12 /\ OutLoc(u) = 12
           /\ u % 2 = 1 => InLoc(u) = 30732 /\ OutLoc(u) = 30732
    BY <2>1 DEF InLoc, OutLoc
  <2>3. \/ /\ InLoc(t) = 12 /\ InLoc(t + 1) = 30732 /\ InLoc(t + 2) = 12
           /\ OutLoc(t) = 12 /\ OutLoc(t + 1) = 30732
        \/ /\ InLoc(t) = 30732 /\ InLoc(t + 1) = 12 /\ InLoc(t + 2) = 30732
           /\ OutLoc(t) = 30732 /\ OutLoc(t + 1) = 12
    BY <1>1, <2>2
  <2>4. /\ InLoc(t) \in Nat /\ Apart(InLoc(t), InSize(t), InLoc(t + 1), InSize(t + 1))
        /\ InLoc(t) + InSize(t) <= 61452 /\ InLoc(t) # InLoc(t + 1)
    <3>1. InSize(t) <= 30720 /\ InSize(t + 1) <= 30720
      BY <1>2, <2>1
    <3>2. InLoc(t) \in Nat /\ InLoc(t + 1) \in Nat
      BY <2>3
    <3>3. QED  BY <1>2, <2>3, <3>1, <3>2 DEF Apart
  <2>5. /\ OutLoc(t) \in Nat /\ Apart(OutLoc(t), K.out, OutLoc(t + 1), K.out)
        /\ OutLoc(t) + K.out <= 61452
    <3>1. OutLoc(t) \in Nat /\ OutLoc(t + 1) \in Nat
      BY <2>3
    <3>2. QED  BY <2>1, <2>3, <3>1 DEF Apart
  <2>6. InLoc(t + 2) = InLoc(t)
    BY <2>3
  <2>7. InLoc(t) + InSize(t) <= 104960 /\ OutLoc(t) + K.out <= 104960
    BY <1>2, <2>1, <2>4, <2>5
  <2>8. QED  BY <1>5, <2>1, <2>4, <2>5, <2>6, <2>7 DEF L1Size
<1>6. CASE stage = "norm" /\ K = Norm
  <2>1. /\ K.inBase = 12 /\ K.inStep = 46080 /\ K.outBase = 12
        /\ K.outStep = 46080 /\ K.out = 46080
        /\ InSize(t) = 46080
    BY <1>6 DEF Norm, InSize
  <2>2. \A u \in Nat :
           /\ u % 2 = 0 => InLoc(u) = 12 /\ OutLoc(u) = 12
           /\ u % 2 = 1 => InLoc(u) = 46092 /\ OutLoc(u) = 46092
    BY <2>1 DEF InLoc, OutLoc
  <2>3. \/ /\ InLoc(t) = 12 /\ InLoc(t + 1) = 46092 /\ InLoc(t + 2) = 12
           /\ OutLoc(t) = 12 /\ OutLoc(t + 1) = 46092
        \/ /\ InLoc(t) = 46092 /\ InLoc(t + 1) = 12 /\ InLoc(t + 2) = 46092
           /\ OutLoc(t) = 46092 /\ OutLoc(t + 1) = 12
    BY <1>1, <2>2
  <2>4. /\ InLoc(t) \in Nat /\ Apart(InLoc(t), InSize(t), InLoc(t + 1), InSize(t + 1))
        /\ InLoc(t) + InSize(t) <= 92172 /\ InLoc(t) # InLoc(t + 1)
    <3>1. InSize(t) <= 46080 /\ InSize(t + 1) <= 46080
      BY <1>2, <2>1
    <3>2. InLoc(t) \in Nat /\ InLoc(t + 1) \in Nat
      BY <2>3
    <3>3. QED  BY <1>2, <2>3, <3>1, <3>2 DEF Apart
  <2>5. /\ OutLoc(t) \in Nat /\ Apart(OutLoc(t), K.out, OutLoc(t + 1), K.out)
        /\ OutLoc(t) + K.out <= 92172 /\ OutLoc(t) # OutLoc(t + 1)
    <3>1. OutLoc(t) \in Nat /\ OutLoc(t + 1) \in Nat
      BY <2>3
    <3>2. QED  BY <2>1, <2>3, <3>1 DEF Apart
  <2>6. InLoc(t + 2) = InLoc(t) /\ InLoc(t) = OutLoc(t)
    BY <2>3
  <2>7. /\ InLoc(t) + InSize(t) <= 104960 /\ OutLoc(t) + K.out <= 104960
        /\ InLoc(t) >= 12
    BY <1>2, <2>1, <2>3, <2>4, <2>5
  <2>8. QED  BY <1>6, <2>1, <2>4, <2>5, <2>6, <2>7 DEF L1Size
<1>7. QED  BY <1>4, <1>5, <1>6, KernelLemma

\* The loop's address of the next tile is the tile table's.
LEMMA NextLemma ==
    ASSUME stage \in Stages, NEW t \in Nat
    PROVE  /\ Needs(t).from \in Int
           /\ Needs(t + 1).from
                 = Needs(t).from + K.advance - (IF t = 0 THEN K.skew ELSE 0)
           /\ In(0) = [dir |-> "in", ext |-> 0, loc |-> InLoc(0), size |-> K.first]
           /\ Needs(0).from = 0
<1>1. CASE K = Demosaic
  BY <1>1 DEF Demosaic, Needs, In, InSize
<1>2. CASE K = Histogram
  BY <1>2 DEF Histogram, Needs, In, InSize
<1>3. CASE K = Norm
  BY <1>3 DEF Norm, Needs, In, InSize
<1>4. QED  BY <1>1, <1>2, <1>3, KernelLemma

-----------------------------------------------------------------------------
(* Queues of at most two transfers.                                        *)

Has(q, dir) == \E i \in DOMAIN q : q[i].dir = dir

LEMMA PendingLemma ==
    ASSUME NEW dir
    PROVE  /\ Pending(dir) <=> Has(dma, dir)
           /\ Pending(dir)' <=> Has(dma', dir)
BY DEF Pending, Has

LEMMA PieceLemma ==
    ASSUME NEW S, NEW s \in Seq(S), NEW m \in 1..Len(s)
    PROVE  SubSeq(s, m, m) = <<s[m]>>
<1> DEFINE u == SubSeq(s, m, m)
           v == <<s[m]>>
<1>1. s[m] \in S /\ Len(s) \in Nat
  OBVIOUS
<1>2. u \in Seq(S) /\ Len(u) = 1 /\ u[1] = s[m]
  BY <1>1, SubSeqProperties
<1>3. v \in Seq(S) /\ Len(v) = 1 /\ v[1] = s[m]
  BY <1>1
<1> HIDE DEF u, v
<1>4. u = v
  BY <1>2, <1>3, SeqEqual
<1>5. QED  BY <1>4 DEF u, v

\* What is left when a transfer is removed.
LEMMA RemoveLemma ==
    ASSUME NEW x, NEW y
    PROVE  /\ RemoveAt(<<x>>, 1) = <<>>
           /\ RemoveAt(<<x, y>>, 1) = <<y>> /\ RemoveAt(<<x, y>>, 2) = <<x>>
<1> DEFINE one == <<x>>
           two == <<x, y>>
           S == {x, y}
<1>1. /\ one \in Seq(S) /\ Len(one) = 1
      /\ two \in Seq(S) /\ Len(two) = 2 /\ two[1] = x /\ two[2] = y
  OBVIOUS
<1> HIDE DEF one, two
<1>2. SubSeq(two, 1, 1) = <<x>> /\ SubSeq(two, 2, 2) = <<y>>
  <2>1. 1 \in 1..Len(two) /\ 2 \in 1..Len(two)
    BY <1>1
  <2>2. SubSeq(two, 1, 1) = <<two[1]>>
    BY <1>1, <2>1, PieceLemma, Zenon
  <2>3. SubSeq(two, 2, 2) = <<two[2]>>
    BY <1>1, <2>1, PieceLemma, Zenon
  <2>4. QED  BY <1>1, <2>2, <2>3, Zenon
<1>3. /\ SubSeq(one, 1, 0) = <<>> /\ SubSeq(one, 2, 1) = <<>>
      /\ SubSeq(two, 1, 0) = <<>> /\ SubSeq(two, 3, 2) = <<>>
  BY <1>1
<1>4. <<>> \o <<>> = <<>> /\ <<>> \o <<y>> = <<y>> /\ <<x>> \o <<>> = <<x>>
  OBVIOUS
<1>5. 1 - 1 = 0 /\ 1 + 1 = 2 /\ 2 - 1 = 1 /\ 2 + 1 = 3
  OBVIOUS
<1>6. RemoveAt(one, 1) = SubSeq(one, 1, 1 - 1) \o SubSeq(one, 1 + 1, Len(one))
  BY DEF RemoveAt
<1>7. RemoveAt(two, 1) = SubSeq(two, 1, 1 - 1) \o SubSeq(two, 1 + 1, Len(two))
  BY DEF RemoveAt
<1>8. RemoveAt(two, 2) = SubSeq(two, 1, 2 - 1) \o SubSeq(two, 2 + 1, Len(two))
  BY DEF RemoveAt
<1>9. /\ RemoveAt(one, 1) = <<>>
      /\ RemoveAt(two, 1) = <<y>> /\ RemoveAt(two, 2) = <<x>>
  BY <1>1, <1>2, <1>3, <1>4, <1>5, <1>6, <1>7, <1>8, Zenon
<1>10. QED  BY <1>9 DEF one, two

LEMMA HasLemma ==
    ASSUME NEW dir, NEW x, NEW y
    PROVE  /\ ~Has(<<>>, dir)
           /\ (Has(<<x>>, dir) <=> x.dir = dir)
           /\ (Has(<<x, y>>, dir) <=> x.dir = dir \/ y.dir = dir)
<1>1. ~Has(<<>>, dir)
  BY DEF Has
<1>2. Has(<<x>>, dir) <=> x.dir = dir
  <2>1. DOMAIN <<x>> = {1} /\ <<x>>[1] = x
    OBVIOUS
  <2>2. QED  BY <2>1 DEF Has
<1>3. Has(<<x, y>>, dir) <=> (x.dir = dir \/ y.dir = dir)
  <2>1. DOMAIN <<x, y>> = {1, 2} /\ <<x, y>>[1] = x /\ <<x, y>>[2] = y
    OBVIOUS
  <2>2. QED  BY <2>1 DEF Has
<1>4. QED  BY <1>1, <1>2, <1>3

\* A queue of two transfers of different directions, in any state of progress.
LEMMA QueueLemma ==
    ASSUME NEW x, NEW y, x.dir # y.dir,
           NEW q \in Queues(x, y)
    PROVE  /\ \A dir : Has(q, dir) => dir \in {x.dir, y.dir}
           /\ q = IF Has(q, x.dir) THEN IF Has(q, y.dir) THEN <<x, y>> ELSE <<x>>
                  ELSE IF Has(q, y.dir) THEN <<y>> ELSE <<>>
           /\ \A i \in DOMAIN q :
                 /\ q[i] \in {x, y} /\ Has(q, q[i].dir)
                 /\ RemoveAt(q, i) \in Queues(x, y)
                 /\ \A dir : (Has(RemoveAt(q, i), dir) <=> Has(q, dir) /\ dir # q[i].dir)
           /\ Has(q, x.dir) /\ 1 \in DOMAIN q => q[1] = x
<1>1. CASE q = <<>>
  <2>1. DOMAIN q = {}
    BY <1>1
  <2>2. QED  BY <1>1, <2>1, HasLemma DEF Queues
<1>2. ASSUME NEW z \in {x, y}, q = <<z>>
      PROVE  /\ \A dir : Has(q, dir) => dir \in {x.dir, y.dir}
             /\ q = IF Has(q, x.dir) THEN IF Has(q, y.dir) THEN <<x, y>> ELSE <<x>>
                    ELSE IF Has(q, y.dir) THEN <<y>> ELSE <<>>
             /\ \A i \in DOMAIN q :
                   /\ q[i] \in {x, y} /\ Has(q, q[i].dir)
                   /\ RemoveAt(q, i) \in Queues(x, y)
                   /\ \A dir : (Has(RemoveAt(q, i), dir) <=> Has(q, dir) /\ dir # q[i].dir)
             /\ Has(q, x.dir) /\ 1 \in DOMAIN q => q[1] = x
  <2>1. DOMAIN q = {1} /\ q[1] = z
    BY <1>2
  <2>2. \A dir : (Has(q, dir) <=> z.dir = dir)
    BY <1>2, HasLemma
  <2>3. RemoveAt(q, 1) = <<>>
    BY <1>2, RemoveLemma
  <2>4. \A dir : ~Has(RemoveAt(q, 1), dir)
    BY <2>3, HasLemma
  <2>5. \A i \in DOMAIN q :
           /\ q[i] \in {x, y} /\ Has(q, q[i].dir)
           /\ RemoveAt(q, i) \in Queues(x, y)
           /\ \A dir : (Has(RemoveAt(q, i), dir) <=> Has(q, dir) /\ dir # q[i].dir)
    <3>1. \A i \in DOMAIN q : i = 1
      BY <2>1
    <3>2. Has(q, q[1].dir) /\ \A dir : ~(Has(q, dir) /\ dir # q[1].dir)
      BY <2>1, <2>2
    <3>3. RemoveAt(q, 1) \in Queues(x, y)
      BY <2>3 DEF Queues
    <3>4. QED  BY <2>1, <2>4, <3>1, <3>2, <3>3
  <2>6. QED  BY <1>2, <2>1, <2>2, <2>5
<1>3. CASE q = <<x, y>>
  <2>1. DOMAIN q = {1, 2} /\ q[1] = x /\ q[2] = y
    BY <1>3
  <2>2. \A dir : (Has(q, dir) <=> x.dir = dir \/ y.dir = dir)
    BY <1>3, HasLemma
  <2>3. RemoveAt(q, 1) = <<y>> /\ RemoveAt(q, 2) = <<x>>
    BY <1>3, RemoveLemma
  <2>4. \A dir : /\ (Has(RemoveAt(q, 1), dir) <=> y.dir = dir)
                 /\ (Has(RemoveAt(q, 2), dir) <=> x.dir = dir)
    BY <2>3, HasLemma
  <2>5. \A i \in DOMAIN q :
           /\ q[i] \in {x, y} /\ Has(q, q[i].dir)
           /\ RemoveAt(q, i) \in Queues(x, y)
           /\ \A dir : (Has(RemoveAt(q, i), dir) <=> Has(q, dir) /\ dir # q[i].dir)
    <3>1. \A i \in DOMAIN q : i = 1 \/ i = 2
      BY <2>1
    <3>2. Has(q, x.dir) /\ Has(q, y.dir)
      BY <2>2
    <3>3. \A dir : /\ (y.dir = dir <=> Has(q, dir) /\ dir # x.dir)
                   /\ (x.dir = dir <=> Has(q, dir) /\ dir # y.dir)
      BY <2>2
    <3>4. RemoveAt(q, 1) \in Queues(x, y) /\ RemoveAt(q, 2) \in Queues(x, y)
      BY <2>3 DEF Queues
    <3>5. QED  BY <2>1, <2>4, <3>1, <3>2, <3>3, <3>4
  <2>6. QED  BY <1>3, <2>1, <2>2, <2>5
<1>4. QED  BY <1>1, <1>2, <1>3 DEF Queues

LEMMA AppendLemma ==
    ASSUME NEW x, NEW y
    PROVE  Append(<<>>, x) = <<x>> /\ Append(<<x>>, y) = <<x, y>>
<1> DEFINE S == {x, y}
           u == Append(<<x>>, y)
           v == <<x, y>>
<1>1. Append(<<>>, x) = <<x>>
  OBVIOUS
<1>2. <<x>> \in Seq(S) /\ Len(<<x>>) = 1 /\ v \in Seq(S) /\ Len(v) = 2
  OBVIOUS
<1>3. u \in Seq(S) /\ Len(u) = 2 /\ u[1] = x /\ u[2] = y
  BY <1>2
<1>4. \A i \in 1..Len(u) : u[i] = v[i]
  BY <1>2, <1>3
<1> HIDE DEF u, v
<1>5. u = v
  BY <1>2, <1>3, <1>4, SeqEqual
<1>6. QED  BY <1>1, <1>5 DEF u, v

-----------------------------------------------------------------------------
(* The steps of a kernel.                                                  *)

LEMMA SameStage ==
    ASSUME stage' = stage
    PROVE  /\ K' = K /\ LastTile' = LastTile /\ (stage \in Stages)' = (stage \in Stages)
           /\ \A t : /\ InLoc(t)' = InLoc(t) /\ OutLoc(t)' = OutLoc(t)
                     /\ Needs(t)' = Needs(t) /\ Result(t)' = Result(t)
                     /\ In(t)' = In(t) /\ Out(t)' = Out(t)
<1>1. K' = K
  BY DEF K, Demosaic, Histogram, Norm
<1>2. \A t : InLoc(t)' = InLoc(t) /\ OutLoc(t)' = OutLoc(t) /\ InSize(t)' = InSize(t)
  BY <1>1 DEF InLoc, OutLoc, InSize
<1>3. \A t : Needs(t)' = Needs(t) /\ Result(t)' = Result(t)
  BY <1>1, <1>2 DEF Needs, Result
<1>4. \A t : In(t)' = In(t) /\ Out(t)' = Out(t)
  BY <1>1, <1>2, <1>3 DEF In, Out
<1>5. QED  BY <1>1, <1>2, <1>3, <1>4 DEF LastTile, Stages

\* The two transfers differ in their direction.
LEMMA DirLemma ==
    ASSUME NEW t, NEW u
    PROVE  In(t).dir = "in" /\ Out(u).dir = "out" /\ "in" # "out"
BY DEF In, Out

\* The queue is what is pending of it.
LEMMA LeftLemma ==
    ASSUME NEW t, NEW u
    PROVE  /\ Left(In(t), Out(u)) <=>
                 dma = IF Pending("in")
                       THEN IF Pending("out") THEN <<In(t), Out(u)>> ELSE <<In(t)>>
                       ELSE IF Pending("out") THEN <<Out(u)>> ELSE <<>>
           /\ Left(Out(u), In(t)) <=>
                 dma = IF Pending("out")
                       THEN IF Pending("in") THEN <<Out(u), In(t)>> ELSE <<Out(u)>>
                       ELSE IF Pending("in") THEN <<In(t)>> ELSE <<>>
<1>1. /\ In(t).dir = "in" /\ Out(u).dir = "out" /\ In(t).dir # Out(u).dir
      /\ \A dir : Pending(dir) <=> Has(dma, dir)
  BY DirLemma, PendingLemma
<1>2. ASSUME Left(In(t), Out(u))
      PROVE  dma = IF Pending("in")
                   THEN IF Pending("out") THEN <<In(t), Out(u)>> ELSE <<In(t)>>
                   ELSE IF Pending("out") THEN <<Out(u)>> ELSE <<>>
  <2>1. dma = IF Has(dma, In(t).dir)
              THEN IF Has(dma, Out(u).dir) THEN <<In(t), Out(u)>> ELSE <<In(t)>>
              ELSE IF Has(dma, Out(u).dir) THEN <<Out(u)>> ELSE <<>>
    BY <1>1, <1>2, QueueLemma DEF Left
  <2>2. QED  BY <1>1, <2>1
<1>3. ASSUME Left(Out(u), In(t))
      PROVE  dma = IF Pending("out")
                   THEN IF Pending("in") THEN <<Out(u), In(t)>> ELSE <<Out(u)>>
                   ELSE IF Pending("in") THEN <<In(t)>> ELSE <<>>
  <2>1. dma = IF Has(dma, Out(u).dir)
              THEN IF Has(dma, In(t).dir) THEN <<Out(u), In(t)>> ELSE <<Out(u)>>
              ELSE IF Has(dma, In(t).dir) THEN <<In(t)>> ELSE <<>>
    BY <1>1, <1>3, QueueLemma DEF Left
  <2>2. QED  BY <1>1, <2>1
<1>4. QED  BY <1>2, <1>3 DEF Left, Queues

\* What a buffer holds after one was filled.
HoldsNext(loc, content) == loc \in DOMAIN l1' /\ l1'[loc] = content

LEMMA FillLemma ==
    ASSUME NEW a, NEW content, l1' = Fill(a, content)
    PROVE  /\ HoldsNext(a, content)
           /\ \A b, c : b # a /\ Holds(b, c) => HoldsNext(b, c)
BY DEF Fill, Holds, HoldsNext

LEMMA PrologStep ==
    ASSUME IspInv, stage \in Stages, Prolog
    PROVE  IspInv'
<1>1. /\ pc = "prolog" /\ dma = <<>> /\ (Serial => good = 0)
  BY DEF IspInv, DmaInv, DataInv, Prolog
<1>2. /\ tile' = 0 /\ nIn' = 0 /\ cOut' = 0 /\ scOut' = K.out /\ spOut' = 0
      /\ pc' = "fetch" /\ ordered' = ordered /\ stage' = stage
      /\ l1' = l1 /\ good' = good
  BY DEF Prolog
<1>3. dma' = <<In(0)>>
  BY <1>1, NextLemma DEF Prolog, Copy
<1>4. LastTile \in Nat /\ LastTile > 0 /\ K.out \in Nat
  BY SizeLemma DEF LastTile
<1>5. Pending("in")' /\ ~Pending("out")'
  BY <1>3, PendingLemma, HasLemma, DirLemma
<1>6. LoopInv'
  BY <1>2, <1>4, SameStage, NextLemma DEF IspInv, LoopInv, Stages
<1>7. DmaInv'
  <2>1. Left(In(tile), Out(tile - 1))'
    BY <1>2, <1>3, SameStage DEF Left, Queues
  <2>2. QED  BY <1>2, <1>5, <2>1 DEF DmaInv
<1>8. OrderInv'
  BY <1>2 DEF OrderInv
<1>9. Serial' => DataInv'
  BY <1>1, <1>2, <1>5, SameStage DEF Serial, DataInv, Produced
<1>10. QED  BY <1>6, <1>7, <1>8, <1>9 DEF IspInv

LEMMA FetchStep ==
    ASSUME IspInv, stage \in Stages, Fetch
    PROVE  IspInv'
<1>1. /\ pc = "fetch" /\ tile \in 0..LastTile /\ LastTile \in Nat
      /\ ~Pending("in") /\ (tile = 0 => ~Pending("out")) /\ (K.out = 0 => ~Pending("out"))
      /\ dma = IF Pending("out") THEN <<Out(tile - 1)>> ELSE <<>>
  <2>1. pc = "fetch" /\ ~Pending("in")
    BY DEF Fetch
  <2>2. LastTile \in Nat /\ tile \in 0..LastTile
    BY <2>1, SizeLemma DEF IspInv, LoopInv, LastTile
  <2>3. /\ tile = 0 => ~Pending("out")
        /\ K.out = 0 => ~Pending("out")
        /\ Left(In(tile), Out(tile - 1))
    BY <2>1 DEF IspInv, DmaInv
  <2>4. dma = IF Pending("out") THEN <<Out(tile - 1)>> ELSE <<>>
    BY <2>1, <2>3, LeftLemma
  <2>5. QED  BY <2>1, <2>2, <2>3, <2>4
<1>2. /\ pc' = "call" /\ UNCHANGED <<ordered, stage, tile, cOut, scOut, spOut, l1, good>>
  BY DEF Fetch
<1>3. /\ nIn' = Needs(IF tile = LastTile THEN tile ELSE tile + 1).from
      /\ dma' = IF tile = LastTile THEN dma ELSE Append(dma, In(tile + 1))
  <2>1. nIn = Needs(tile).from
    BY <1>1 DEF IspInv, LoopInv
  <2>2. Needs(tile + 1).from
            = Needs(tile).from + K.advance - (IF tile = 0 THEN K.skew ELSE 0)
    BY <1>1, NextLemma
  <2>3. QED  BY <2>1, <2>2 DEF Fetch, Copy, In, LastTile
<1>4. /\ Pending("out")' <=> Pending("out")
      /\ Pending("in")' <=> tile # LastTile
      /\ dma' = IF tile = LastTile
                THEN IF Pending("out") THEN <<Out(tile - 1)>> ELSE <<>>
                ELSE IF Pending("out") THEN <<Out(tile - 1), In(tile + 1)>>
                     ELSE <<In(tile + 1)>>
  <2>1. dma' = IF tile = LastTile
               THEN IF Pending("out") THEN <<Out(tile - 1)>> ELSE <<>>
               ELSE IF Pending("out") THEN <<Out(tile - 1), In(tile + 1)>>
                    ELSE <<In(tile + 1)>>
    <3>1. /\ Append(<<>>, In(tile + 1)) = <<In(tile + 1)>>
          /\ Append(<<Out(tile - 1)>>, In(tile + 1)) = <<Out(tile - 1), In(tile + 1)>>
      BY AppendLemma
    <3>2. QED  BY <1>1, <1>3, <3>1, Zenon
  <2>2. /\ In(tile + 1).dir = "in" /\ Out(tile - 1).dir = "out" /\ "in" # "out"
        /\ \A dir : Pending(dir)' <=> Has(dma', dir)
    BY DirLemma, PendingLemma
  <2>3. /\ \A dir : ~Has(<<>>, dir)
        /\ \A x, dir : Has(<<x>>, dir) <=> x.dir = dir
        /\ \A x, y, dir : Has(<<x, y>>, dir) <=> x.dir = dir \/ y.dir = dir
    BY HasLemma
  <2>4. QED  BY <2>1, <2>2, <2>3
<1>5. LoopInv'
  BY <1>1, <1>2, <1>3, SameStage DEF IspInv, LoopInv, Stages
<1>6. DmaInv'
  <2>1. Left(Out(tile - 1), In(tile + 1))'
    BY <1>2, <1>4, SameStage DEF Left, Queues
  <2>2. QED  BY <1>1, <1>2, <1>4, <2>1, SameStage DEF DmaInv
<1>7. OrderInv'
  BY <1>1, <1>2, <1>4, SameStage DEF OrderInv
<1>8. Serial' => DataInv'
  <2> SUFFICES ASSUME Serial  PROVE DataInv'
    BY <1>2 DEF Serial
  <2>1. DataInv
    BY DEF IspInv
  <2>2. \A a, c : Holds(a, c) => Holds(a, c)'
    BY <1>2 DEF Holds
  <2>3. Produced' = Produced
    BY <1>1, <1>2 DEF Produced
  <2>4. QED  BY <1>1, <1>2, <1>4, <2>1, <2>2, <2>3, SameStage DEF DataInv
<1>9. QED  BY <1>5, <1>6, <1>7, <1>8 DEF IspInv

LEMMA CallStep ==
    ASSUME IspInv, stage \in Stages, Call
    PROVE  IspInv'
<1>1. /\ pc = "call" /\ tile \in Nat /\ (tile = 0 => ~Pending("out"))
      /\ K.out = 0 => ~Pending("out")
  BY DEF IspInv, LoopInv, DmaInv, Call
<1>2. /\ pc' = "store"
      /\ UNCHANGED <<ordered, stage, tile, nIn, cOut, scOut, spOut, dma>>
  BY DEF Call
<1>3. \A dir : Pending(dir)' <=> Pending(dir)
  BY <1>2, PendingLemma
<1>4. LoopInv'
  BY <1>1, <1>2, SameStage DEF IspInv, LoopInv, Stages
<1>5. DmaInv'
  BY <1>1, <1>2, <1>3, SameStage DEF IspInv, DmaInv, Left
<1>6. OrderInv'
  BY <1>1, <1>2, <1>3, SameStage DEF IspInv, OrderInv
<1>7. Serial' => DataInv'
  <2> SUFFICES ASSUME Serial  PROVE DataInv'
    BY <1>2 DEF Serial
  <2>1. /\ DataInv /\ InLoc(tile) \in DOMAIN l1 /\ l1[InLoc(tile)] = Needs(tile)
    BY <1>1 DEF IspInv, DataInv, Holds
  <2>2. CASE K.out = 0
    <3>1. l1' = l1 /\ good' = good + 1
      BY <2>1, <2>2 DEF Call
    <3>2. \A a, c : Holds(a, c) => Holds(a, c)'
      BY <3>1 DEF Holds
    <3>3. good' = tile + 1
      BY <1>1, <2>1, <2>2, <3>1 DEF DataInv, Produced
    <3>4. QED
      BY <1>1, <1>2, <1>3, <2>1, <2>2, <3>2, <3>3, SameStage DEF DataInv, Produced
  <2>3. CASE K.out # 0
    <3>1. l1' = Fill(OutLoc(tile), Result(tile)) /\ good' = good
      BY <2>1, <2>3 DEF Call
    <3>2. /\ HoldsNext(OutLoc(tile), Result(tile))
          /\ \A a, c : a # OutLoc(tile) /\ Holds(a, c) => HoldsNext(a, c)
      BY <3>1, FillLemma
    <3>3. OutLoc(tile) # InLoc(tile + 1)
      <4>1. CASE stage = "demosaic"
        BY <1>1, <4>1, BufferLemma
      <4>2. CASE stage = "norm"
        BY <1>1, <4>2, BufferLemma
      <4>3. CASE stage = "histogram"
        BY <1>1, <2>3, <4>3, BufferLemma
      <4>4. QED  BY <4>1, <4>2, <4>3 DEF Stages
    <3>4. Pending("out") => OutLoc(tile - 1) # OutLoc(tile)
      <4> SUFFICES ASSUME Pending("out")  PROVE OutLoc(tile - 1) # OutLoc(tile)
        OBVIOUS
      <4>1. tile - 1 \in Nat /\ (tile - 1) + 1 = tile
        BY <1>1
      <4>2. QED  BY <2>3, <4>1, BufferLemma
    <3>5. Produced' = Produced /\ Produced = tile
      BY <1>1, <1>2, <2>3, SameStage DEF Produced
    <3>6. good' = IF Pending("out")' THEN Produced' - 1 ELSE Produced'
      BY <1>1, <1>3, <2>1, <3>1, <3>5 DEF DataInv
    <3>7. tile < LastTile /\ ~Pending("in") => HoldsNext(InLoc(tile + 1), Needs(tile + 1))
      BY <1>1, <2>1, <3>2, <3>3 DEF DataInv
    <3>8. Pending("out") => HoldsNext(OutLoc(tile - 1), Result(tile - 1))
      BY <1>1, <2>1, <3>2, <3>4 DEF DataInv
    <3> HIDE <3>1
    <3>9. QED
      BY <1>2, <1>3, <3>2, <3>6, <3>7, <3>8, SameStage DEF DataInv, Holds, HoldsNext
  <2>4. QED  BY <2>2, <2>3
<1>8. QED  BY <1>4, <1>5, <1>6, <1>7 DEF IspInv

LEMMA StoreStep ==
    ASSUME IspInv, stage \in Stages, Store
    PROVE  IspInv'
<1> DEFINE last == tile = LastTile
<1>1. /\ pc = "store" /\ tile \in 0..LastTile /\ LastTile \in Nat /\ K.out \in Nat
      /\ tile \in Nat
      /\ cOut = tile * K.out /\ scOut = K.out
      /\ spOut = (IF tile = 0 THEN 0 ELSE K.out)
      /\ nIn = Needs(IF last THEN tile ELSE tile + 1).from
  BY SizeLemma DEF IspInv, LoopInv, Store, LastTile
<1>2. ~Pending("out") /\ (last => ~Pending("in"))
      /\ dma = IF Pending("in") THEN <<In(tile + 1)>> ELSE <<>>
  <2>1. /\ tile = 0 => ~Pending("out")
        /\ K.out = 0 => ~Pending("out")
        /\ last => ~Pending("in")
        /\ Left(Out(tile - 1), In(tile + 1))
    BY <1>1 DEF IspInv, DmaInv
  <2>2. ~Pending("out")
    BY <1>1, <2>1 DEF Store
  <2>3. QED  BY <2>1, <2>2, LeftLemma
<1>3. /\ dma' = IF K.out = 0 THEN dma ELSE Append(dma, Out(tile))
      /\ cOut' = (IF last THEN cOut ELSE cOut + K.out)
      /\ scOut' = (IF last THEN 0 ELSE K.out) /\ spOut' = K.out
      /\ tile' = (IF last THEN tile ELSE tile + 1)
      /\ pc' = (IF last THEN "epilog" ELSE "fetch")
      /\ UNCHANGED <<ordered, stage, nIn, l1, good>>
  BY <1>1 DEF Store, Copy, Out, LastTile
<1>4. /\ Pending("in")' <=> Pending("in")
      /\ Pending("out")' <=> K.out # 0
      /\ dma' = IF K.out = 0
                THEN IF Pending("in") THEN <<In(tile + 1)>> ELSE <<>>
                ELSE IF Pending("in") THEN <<In(tile + 1), Out(tile)>> ELSE <<Out(tile)>>
  <2>1. dma' = IF K.out = 0
               THEN IF Pending("in") THEN <<In(tile + 1)>> ELSE <<>>
               ELSE IF Pending("in") THEN <<In(tile + 1), Out(tile)>> ELSE <<Out(tile)>>
    <3>1. /\ Append(<<>>, Out(tile)) = <<Out(tile)>>
          /\ Append(<<In(tile + 1)>>, Out(tile)) = <<In(tile + 1), Out(tile)>>
      BY AppendLemma
    <3>2. QED  BY <1>2, <1>3, <3>1, Zenon
  <2>2. /\ In(tile + 1).dir = "in" /\ Out(tile).dir = "out" /\ "in" # "out"
        /\ \A dir : Pending(dir)' <=> Has(dma', dir)
    BY DirLemma, PendingLemma
  <2>3. /\ \A dir : ~Has(<<>>, dir)
        /\ \A x, dir : Has(<<x>>, dir) <=> x.dir = dir
        /\ \A x, y, dir : Has(<<x, y>>, dir) <=> x.dir = dir \/ y.dir = dir
    BY HasLemma
  <2>4. QED  BY <2>1, <2>2, <2>3
<1>5. ~last => /\ tile + 1 \in 0..LastTile /\ tile + 1 - 1 = tile /\ tile + 1 # 0
               /\ (tile + 1) * K.out = tile * K.out + K.out
  BY <1>1
<1>6. LoopInv'
  <2>1. CASE last
    BY <1>1, <1>3, <2>1, SameStage DEF IspInv, LoopInv, Stages
  <2>2. CASE ~last
    <3>1. /\ tile' = tile + 1 /\ tile' \in 0..LastTile /\ tile' # 0 /\ pc' = "fetch"
          /\ cOut' = tile' * K.out /\ scOut' = K.out /\ spOut' = K.out
          /\ nIn' = Needs(tile').from
      BY <1>1, <1>3, <1>5, <2>2
    <3>2. QED  BY <1>1, <1>3, <3>1, SameStage DEF IspInv, LoopInv, Stages
  <2>3. QED  BY <2>1, <2>2
<1>7. DmaInv'
  <2>1. CASE last
    <3>1. dma' \in {<<>>, <<Out(tile)>>}
      BY <1>2, <1>4, <2>1
    <3>2. QED  BY <1>2, <1>3, <1>4, <2>1, <3>1, SameStage DEF DmaInv
  <2>2. CASE ~last
    <3>1. tile' = tile + 1 /\ tile' - 1 = tile /\ tile' # 0 /\ pc' = "fetch"
      BY <1>1, <1>3, <1>5, <2>2
    <3>2. dma' \in Queues(In(tile'), Out(tile' - 1))
      BY <1>4, <3>1 DEF Queues
    <3>3. Left(In(tile), Out(tile - 1))'
      BY <1>3, <3>2, SameStage DEF Left, Queues
    <3>4. QED  BY <1>3, <1>4, <3>1, <3>3, SameStage DEF DmaInv
  <2>3. QED  BY <2>1, <2>2
<1>8. OrderInv'
  BY <1>3 DEF OrderInv
<1>9. Serial' => DataInv'
  <2> SUFFICES ASSUME Serial  PROVE DataInv'
    BY <1>3 DEF Serial
  <2>1. /\ good = IF K.out = 0 THEN tile + 1 ELSE tile
        /\ ~last /\ ~Pending("in") => Holds(InLoc(tile + 1), Needs(tile + 1))
        /\ K.out # 0 => Holds(OutLoc(tile), Result(tile))
    BY <1>1, <1>2 DEF IspInv, DataInv, Produced
  <2>2. \A a, c : Holds(a, c) => Holds(a, c)'
    BY <1>3 DEF Holds
  <2>3. CASE last
    <3>1. /\ tile' = tile /\ pc' = "epilog" /\ good' = good
          /\ Produced' = tile + 1
      BY <1>3, <2>3 DEF Produced
    <3>2. good' = IF Pending("out")' THEN Produced' - 1 ELSE Produced'
      BY <1>1, <1>4, <2>1, <3>1
    <3>3. Pending("out")' => Holds(OutLoc(tile), Result(tile))'
      BY <1>3, <1>4, <2>1, <2>2, <3>1, SameStage
    <3>4. QED  BY <3>1, <3>2, <3>3, SameStage DEF DataInv
  <2>4. CASE ~last
    <3>1. /\ tile' = tile + 1 /\ tile' - 1 = tile /\ pc' = "fetch" /\ good' = good
          /\ Produced' = tile + 1
      BY <1>1, <1>3, <1>5, <2>4 DEF Produced
    <3>2. good' = IF Pending("out")' THEN Produced' - 1 ELSE Produced'
      BY <1>1, <1>4, <2>1, <3>1
    <3>3. Pending("out")' => Holds(OutLoc(tile - 1), Result(tile - 1))'
      BY <1>3, <1>4, <2>1, <2>2, <3>1, SameStage
    <3>4. ~Pending("in")' => Holds(InLoc(tile), Needs(tile))'
      BY <1>3, <1>4, <2>1, <2>2, <2>4, <3>1, SameStage
    <3>5. QED  BY <3>1, <3>2, <3>3, <3>4, SameStage DEF DataInv
  <2>5. QED  BY <2>3, <2>4
<1>10. QED  BY <1>6, <1>7, <1>8, <1>9 DEF IspInv

LEMMA EpilogStep ==
    ASSUME IspInv, stage \in Stages, Epilog
    PROVE  IspInv' /\ stage' # "idle" /\ (Serial => good = K.tiles)
<1>1. /\ pc = "epilog" /\ tile = LastTile /\ ~Pending("out") /\ ordered \in BOOLEAN
  BY DEF IspInv, LoopInv, Epilog
<1>2. dma = <<>>
  <2>1. dma \in {<<>>, <<Out(tile)>>}
    BY <1>1 DEF IspInv, DmaInv
  <2>2. Has(<<Out(tile)>>, "out")
    BY HasLemma, DirLemma
  <2>3. QED  BY <1>1, <2>1, <2>2, PendingLemma
<1>3. /\ stage' = After[stage] /\ pc' = "prolog" /\ good' = 0
      /\ dma' = <<>> /\ ordered' = ordered
  BY <1>2 DEF Epilog
<1>4. stage' \in Stages \cup {"done"} /\ "idle" \notin Stages \cup {"done"}
  BY <1>3 DEF Stages, After
<1>5. \A dir : ~Pending(dir)'
  BY <1>3, PendingLemma, HasLemma
<1>6. Serial => good = K.tiles
  BY <1>1, SizeLemma DEF IspInv, DataInv, Produced, LastTile
<1>7. LoopInv'
  BY <1>1, <1>3, <1>4 DEF LoopInv, Stages
<1>8. DmaInv'
  BY <1>3, <1>5 DEF DmaInv
<1>9. OrderInv' /\ DataInv'
  BY <1>3, <1>5 DEF OrderInv, DataInv
<1>10. QED  BY <1>4, <1>6, <1>7, <1>8, <1>9 DEF IspInv

\* The tile that a read is for, and the one that a write is of.
ReadTile == IF pc = "fetch" THEN tile ELSE tile + 1
WriteTile == IF pc = "epilog" THEN tile ELSE tile - 1

\* A transfer in the queue is of a tile that exists.
LEMMA QueuedLemma ==
    ASSUME LoopInv, DmaInv, NEW i \in DOMAIN dma
    PROVE  /\ pc # "prolog" /\ stage \in Stages /\ Pending(dma[i].dir)
           /\ LastTile \in Nat /\ tile \in 0..LastTile /\ tile \in Nat
           /\ \/ /\ dma[i].dir = "in" /\ dma[i] = In(ReadTile)
                 /\ ReadTile \in 0..LastTile /\ ReadTile \in Nat
                 /\ pc # "epilog"
              \/ /\ dma[i].dir = "out" /\ dma[i] = Out(WriteTile)
                 /\ K.out # 0
                 /\ WriteTile \in 0..LastTile /\ WriteTile \in Nat
                 /\ pc # "epilog" => WriteTile + 1 = tile
<1>1. pc # "prolog"
  <2>1. DOMAIN <<>> = {}
    OBVIOUS
  <2>2. QED  BY <2>1 DEF DmaInv
<1>2. /\ stage \in Stages /\ tile \in 0..LastTile
      /\ pc \in {"fetch", "call", "store", "epilog"}
  BY <1>1 DEF LoopInv
<1>3. LastTile \in Nat /\ tile \in Nat
  BY <1>2, SizeLemma DEF LastTile
<1>4. Pending(dma[i].dir)
  BY DEF Pending
<1>5. \A t, u : /\ In(t).dir = "in" /\ Out(u).dir = "out"
               /\ In(t).dir # Out(u).dir
  BY DirLemma
<1>6. dma[i] \in {In(ReadTile), Out(WriteTile)}
  <2>1. CASE pc = "fetch"
    <3>1. dma \in Queues(In(tile), Out(tile - 1))
      BY <2>1 DEF DmaInv, Left
    <3>2. dma[i] \in {In(tile), Out(tile - 1)}
      BY <1>5, <3>1, QueueLemma
    <3>3. QED  BY <2>1, <3>2 DEF ReadTile, WriteTile
  <2>2. CASE pc \in {"call", "store"}
    <3>1. dma \in Queues(Out(tile - 1), In(tile + 1))
      BY <2>2 DEF DmaInv, Left
    <3>2. dma[i] \in {Out(tile - 1), In(tile + 1)}
      BY <1>5, <3>1, QueueLemma
    <3>3. QED  BY <2>2, <3>2 DEF ReadTile, WriteTile
  <2>3. CASE pc = "epilog"
    <3>1. dma \in {<<>>, <<Out(tile)>>}
      BY <2>3 DEF DmaInv
    <3>2. dma[i] = Out(tile)
      BY <3>1
    <3>3. QED  BY <2>3, <3>2 DEF WriteTile
  <2>4. QED  BY <1>2, <2>1, <2>2, <2>3
<1>7. CASE dma[i] = In(ReadTile)
  <2>1. dma[i].dir = "in"
    BY <1>5, <1>7
  <2>2. pc # "epilog" /\ (pc \in {"call", "store"} => tile # LastTile)
    BY <1>4, <2>1 DEF DmaInv
  <2>3. ReadTile \in 0..LastTile /\ ReadTile \in Nat
    BY <1>2, <1>3, <2>2 DEF ReadTile
  <2>4. QED  BY <1>1, <1>2, <1>3, <1>4, <1>7, <2>1, <2>2, <2>3
<1>8. CASE dma[i] = Out(WriteTile)
  <2>1. dma[i].dir = "out"
    BY <1>5, <1>8
  <2>2. K.out # 0 /\ (pc \in {"fetch", "call", "store"} => tile # 0)
    BY <1>4, <2>1 DEF DmaInv
  <2>3. /\ WriteTile \in 0..LastTile /\ WriteTile \in Nat
        /\ pc # "epilog" => WriteTile + 1 = tile
    BY <1>2, <1>3, <2>2 DEF WriteTile
  <2>4. QED  BY <1>1, <1>2, <1>3, <1>4, <1>8, <2>1, <2>2, <2>3
<1>9. QED  BY <1>6, <1>7, <1>8

\* What is left when the engine completes a transfer: the rest, in order.
LEMMA RemovedLemma ==
    ASSUME LoopInv, DmaInv, NEW i \in DOMAIN dma, Complete(i)
    PROVE  /\ ordered => i = 1
           /\ \A dir : Pending(dir)' <=> Pending(dir) /\ dir # dma[i].dir
           /\ pc = "fetch" => dma' \in Queues(In(tile), Out(tile - 1))
           /\ pc \in {"call", "store"} =>
                 /\ dma' \in Queues(Out(tile - 1), In(tile + 1))
                 /\ i = 1 /\ Pending("out") => dma[i].dir = "out"
           /\ pc = "epilog" => dma' = <<>>
<1>1. i \in Active /\ dma' = RemoveAt(dma, i)
  BY DEF Complete
<1>2. ordered => i = 1
  BY <1>1 DEF Active
<1>3. \A t, u : In(t).dir = "in" /\ Out(u).dir = "out" /\ "in" # "out"
  BY DirLemma
<1>4. \A dir : (Pending(dir) <=> Has(dma, dir)) /\ (Pending(dir)' <=> Has(dma', dir))
  BY PendingLemma
<1>5. ASSUME NEW x, NEW y, x.dir # y.dir, dma \in Queues(x, y)
      PROVE  /\ dma' \in Queues(x, y)
             /\ \A dir : Has(dma', dir) <=> Has(dma, dir) /\ dir # dma[i].dir
             /\ i = 1 /\ Has(dma, x.dir) => dma[i] = x
  BY <1>1, <1>5, QueueLemma
<1>6. CASE pc = "fetch"
  <2>1. dma \in Queues(In(tile), Out(tile - 1))
    BY <1>6 DEF DmaInv, Left
  <2>2. In(tile).dir # Out(tile - 1).dir
    BY <1>3
  <2>3. QED  BY <1>1, <1>2, <1>3, <1>4, <1>5, <1>6, <2>1, <2>2
<1>7. CASE pc \in {"call", "store"}
  <2>1. dma \in Queues(Out(tile - 1), In(tile + 1))
    BY <1>7 DEF DmaInv, Left
  <2>2. Out(tile - 1).dir # In(tile + 1).dir
    BY <1>3
  <2>3. QED  BY <1>1, <1>2, <1>3, <1>4, <1>5, <1>7, <2>1, <2>2
<1>8. CASE pc = "epilog"
  <2>1. dma \in {<<>>, <<Out(tile)>>}
    BY <1>8 DEF DmaInv
  <2>2. dma = <<Out(tile)>> /\ i = 1 /\ dma[i] = Out(tile)
    BY <2>1
  <2>3. dma' = <<>>
    BY <1>1, <2>2, RemoveLemma
  <2>4. /\ \A dir : Has(dma, dir) <=> dir = "out"
        /\ \A dir : ~Has(dma', dir)
    BY <1>3, <2>2, <2>3, HasLemma
  <2>5. QED  BY <1>1, <1>2, <1>3, <1>4, <1>8, <2>2, <2>3, <2>4
<1>9. QED  BY <1>6, <1>7, <1>8, QueuedLemma DEF LoopInv

\* A read completes, on data that nothing else is waiting for.
LEMMA ReadDone ==
    ASSUME IspInv, Serial, NEW i \in DOMAIN dma, Complete(i), dma[i].dir = "in"
    PROVE  DataInv'
<1>1. /\ LoopInv /\ DmaInv /\ DataInv
      /\ UNCHANGED <<ordered, stage, pc, tile, nIn, cOut, scOut, spOut>>
  BY DEF IspInv, Complete
<1>2. /\ dma[i] = In(ReadTile) /\ ReadTile \in Nat /\ ReadTile \in 0..LastTile
      /\ pc \notin {"prolog", "epilog"} /\ stage \in Stages
      /\ tile \in Nat /\ tile \in 0..LastTile /\ LastTile \in Nat
  BY <1>1, QueuedLemma
<1>3. ~Pending("in")' /\ (Pending("out")' <=> Pending("out"))
  BY <1>1, RemovedLemma
<1>4. l1' = Fill(InLoc(ReadTile), Needs(ReadTile)) /\ good' = good
  <2>1. /\ dma[i].loc = InLoc(ReadTile) /\ dma[i].ext = Needs(ReadTile).from
        /\ dma[i].size = InSize(ReadTile)
    BY <1>2 DEF In
  <2>2. Needs(ReadTile) = [what |-> "image", from |-> Needs(ReadTile).from,
                           size |-> InSize(ReadTile)]
    BY DEF Needs
  <2>3. QED  BY <2>1, <2>2 DEF Complete
<1>5. /\ HoldsNext(InLoc(ReadTile), Needs(ReadTile))
      /\ \A a, c : a # InLoc(ReadTile) /\ Holds(a, c) => HoldsNext(a, c)
  BY <1>4, FillLemma
<1>6. good' = IF Pending("out")' THEN Produced' - 1 ELSE Produced'
  <2>1. Produced' = Produced
    BY <1>1, SameStage DEF Produced
  <2>2. QED  BY <1>1, <1>2, <1>3, <1>4, <2>1 DEF DataInv
<1>7. /\ pc = "fetch" => HoldsNext(InLoc(tile), Needs(tile))
      /\ pc \in {"call", "store"} => HoldsNext(InLoc(tile + 1), Needs(tile + 1))
  BY <1>5 DEF ReadTile
<1>8. pc = "call" => HoldsNext(InLoc(tile), Needs(tile))
  <2>1. InLoc(tile) # InLoc(tile + 1)
    BY <1>2, BufferLemma
  <2>2. QED  BY <1>1, <1>5, <2>1 DEF DataInv, ReadTile
<1>9. pc = "store" /\ K.out # 0 => HoldsNext(OutLoc(tile), Result(tile))
  <2> SUFFICES ASSUME pc = "store", K.out # 0
               PROVE  HoldsNext(OutLoc(tile), Result(tile))
    OBVIOUS
  <2>1. OutLoc(tile) # InLoc(tile + 1)
    <3>1. CASE stage = "demosaic"
      BY <1>2, <3>1, BufferLemma
    <3>2. CASE stage = "norm"
      BY <1>2, <3>2, BufferLemma
    <3>3. CASE stage = "histogram"
      BY <1>2, <3>3, BufferLemma
    <3>4. QED  BY <1>2, <3>1, <3>2, <3>3 DEF Stages
  <2>2. QED  BY <1>1, <1>5, <2>1 DEF DataInv, ReadTile
\* The write of a result is in the other buffer, or done: in place it is in
\* the same buffer, but before the read in an ordered queue.
<1>10. Pending("out") => HoldsNext(OutLoc(WriteTile), Result(WriteTile))
  <2> SUFFICES ASSUME Pending("out")
               PROVE  HoldsNext(OutLoc(WriteTile), Result(WriteTile))
    OBVIOUS
  <2>1. /\ K.out # 0 /\ WriteTile = tile - 1
        /\ WriteTile \in Nat /\ WriteTile + 1 = tile
    BY <1>1, <1>2 DEF DmaInv, LoopInv, WriteTile
  <2>2. OutLoc(WriteTile) # InLoc(ReadTile)
    <3>1. CASE stage = "demosaic"
      <4>1. \A v \in Nat, w \in Nat : InLoc(v) # OutLoc(w)
        BY <1>2, <3>1, BufferLemma
      <4>2. QED  BY <1>2, <2>1, <4>1
    <3>2. CASE stage = "norm"
      <4>1. pc = "fetch"
        <5>1. ordered /\ i = 1
          BY <1>1, <3>2, RemovedLemma DEF Serial
        <5>2. pc \in {"call", "store"} => dma[i].dir = "out"
          BY <1>1, <5>1, RemovedLemma
        <5>3. QED  BY <1>1, <1>2, <5>2 DEF LoopInv
      <4>2. OutLoc(WriteTile) = InLoc(WriteTile) /\ InLoc(WriteTile) # InLoc(tile)
        BY <1>2, <2>1, <3>2, BufferLemma
      <4>3. QED  BY <4>1, <4>2 DEF ReadTile
    <3>3. CASE stage = "histogram"
      BY <1>2, <2>1, <3>3, BufferLemma
    <3>4. QED  BY <1>2, <3>1, <3>2, <3>3 DEF Stages
  <2>3. Holds(OutLoc(WriteTile), Result(WriteTile))
    BY <1>1 DEF DataInv, WriteTile
  <2>4. QED  BY <1>5, <2>2, <2>3
<1>11. QED
  BY <1>1, <1>2, <1>3, <1>6, <1>7, <1>8, <1>9, <1>10, SameStage
  DEF DataInv, Holds, HoldsNext, WriteTile

\* A write completes: its buffer held the result, and no read tore it.
LEMMA WriteDone ==
    ASSUME IspInv, Serial, NEW i \in DOMAIN dma, Complete(i), dma[i].dir = "out"
    PROVE  DataInv'
<1>1. /\ LoopInv /\ DmaInv /\ DataInv
      /\ UNCHANGED <<ordered, stage, pc, tile, nIn, cOut, scOut, spOut>>
  BY DEF IspInv, Complete
<1>2. /\ dma[i] = Out(WriteTile) /\ WriteTile \in Nat /\ K.out # 0
      /\ Pending("out") /\ pc # "prolog" /\ stage \in Stages /\ tile \in Nat
  BY <1>1, QueuedLemma
<1>3. ~Pending("out")' /\ (Pending("in")' <=> Pending("in"))
  BY <1>1, RemovedLemma
<1>4. /\ dma[i].loc = OutLoc(WriteTile) /\ dma[i].ext = WriteTile * K.out
      /\ dma[i].size = K.out
  BY <1>2 DEF Out
<1>5. l1[OutLoc(WriteTile)] = Result(WriteTile)
  BY <1>1, <1>2 DEF DataInv, Holds, WriteTile
<1>6. ~Torn(i)
  <2> SUFFICES ASSUME NEW j \in Active, dma[j].dir = "in", Overlap(dma[i], dma[j])
               PROVE  FALSE
    BY DEF Torn
  <2>1. ~ordered
    BY <1>1, RemovedLemma DEF Active
  <2>2. dma[j] = In(ReadTile) /\ ReadTile \in Nat
    <3>1. j \in DOMAIN dma
      BY DEF Active
    <3>2. QED  BY <1>1, <3>1, QueuedLemma
  <2>3. stage = "demosaic"
    BY <1>2, <2>1, BufferLemma DEF Serial, Stages
  <2>4. dma[j].loc = InLoc(ReadTile) /\ dma[j].size = InSize(ReadTile)
    BY <2>2 DEF In
  <2>5. Apart(InLoc(ReadTile), InSize(ReadTile), OutLoc(WriteTile), K.out)
    BY <1>2, <2>2, <2>3, BufferLemma
  <2>6. InLoc(ReadTile) \in Nat /\ OutLoc(WriteTile) \in Nat
    BY <1>2, <2>2, BufferLemma
  <2>7. InSize(ReadTile) \in Nat /\ K.out \in Nat
    BY <1>2, <2>2, SizeLemma
  <2>8. QED  BY <1>4, <2>4, <2>5, <2>6, <2>7 DEF Overlap, Apart
<1>7. l1' = l1 /\ good' = good + 1
  <2>1. l1[dma[i].loc] = [what |-> "result", from |-> dma[i].ext, size |-> dma[i].size]
    BY <1>4, <1>5 DEF Result
  <2>2. QED  BY <1>6, <2>1 DEF Complete
<1>8. good' = IF Pending("out")' THEN Produced' - 1 ELSE Produced'
  <2>1. Produced' = Produced /\ Produced \in Int
    BY <1>1, <1>2, SameStage DEF Produced
  <2>2. QED  BY <1>1, <1>2, <1>3, <1>7, <2>1 DEF DataInv
<1>9. \A a, c : Holds(a, c) => Holds(a, c)'
  BY <1>7 DEF Holds
<1>10. QED  BY <1>1, <1>2, <1>3, <1>8, <1>9, SameStage DEF DataInv

LEMMA CompleteStep ==
    ASSUME IspInv, NEW i \in DOMAIN dma, Complete(i)
    PROVE  IspInv'
<1>1. LoopInv /\ DmaInv /\ OrderInv
  BY DEF IspInv
<1>2. UNCHANGED <<ordered, stage, pc, tile, nIn, cOut, scOut, spOut>>
  BY DEF Complete
<1>3. /\ dma[i].dir \in {"in", "out"} /\ (ordered => i = 1) /\ pc # "prolog"
      /\ \A dir : Pending(dir)' <=> Pending(dir) /\ dir # dma[i].dir
  BY <1>1, QueuedLemma, RemovedLemma
<1>4. LoopInv'
  BY <1>1, <1>2, SameStage DEF LoopInv, Stages
<1>5. DmaInv'
  <2>1. /\ pc = "fetch" => Left(In(tile), Out(tile - 1))'
        /\ pc \in {"call", "store"} => Left(Out(tile - 1), In(tile + 1))'
        /\ pc = "epilog" => dma' = <<>>
    BY <1>1, <1>2, RemovedLemma, SameStage DEF Left, Queues
  <2>2. QED  BY <1>1, <1>2, <1>3, <2>1, SameStage DEF DmaInv
<1>6. OrderInv'
  <2>1. ordered /\ pc \in {"call", "store"} /\ Pending("out") => dma[i].dir = "out"
    BY <1>1, <1>3, RemovedLemma
  <2>2. QED  BY <1>1, <1>2, <1>3, <2>1, SameStage DEF OrderInv
<1>7. Serial' => DataInv'
  BY <1>2, <1>3, ReadDone, WriteDone DEF Serial
<1>8. QED  BY <1>4, <1>5, <1>6, <1>7 DEF IspInv

-----------------------------------------------------------------------------
(* The program.                                                            *)

LEMMA StutterStep ==
    ASSUME IspInv, UNCHANGED ispVars
    PROVE  IspInv'
<1>1. /\ UNCHANGED <<ordered, stage, pc, tile, nIn, cOut, scOut, spOut, dma, l1, good>>
      /\ Produced' = Produced
  BY SameStage DEF ispVars, Produced
<1>2. \A dir : Pending(dir)' <=> Pending(dir)
  BY <1>1, PendingLemma
<1>3. LoopInv'
  BY <1>1, SameStage DEF IspInv, LoopInv, Stages
<1>4. DmaInv' /\ OrderInv'
  BY <1>1, <1>2, SameStage DEF IspInv, DmaInv, OrderInv, Left, Queues
<1>5. Serial' => DataInv'
  <2>1. \A a, c : Holds(a, c) => Holds(a, c)'
    BY <1>1 DEF Holds
  <2>2. QED  BY <1>1, <1>2, <2>1, SameStage DEF IspInv, DataInv, Serial
<1>6. QED  BY <1>3, <1>4, <1>5 DEF IspInv

\* Before the first kernel and between two, nothing is on its way.
LEMMA RestLemma ==
    ASSUME pc = "prolog", dma = <<>>, good = 0, ordered \in BOOLEAN,
           stage \in Stages \cup {"idle", "done"}
    PROVE  IspInv
<1>1. \A dir : ~Pending(dir)
  BY PendingLemma, HasLemma
<1>2. LoopInv
  BY DEF LoopInv
<1>3. DmaInv /\ OrderInv /\ DataInv
  BY <1>1 DEF DmaInv, OrderInv, DataInv
<1>4. QED  BY <1>2, <1>3 DEF IspInv

LEMMA BeginStep ==
    ASSUME IspInv, IspBegin
    PROVE  IspInv'
<1>1. /\ stage = "idle" /\ stage' = "demosaic"
      /\ UNCHANGED <<ordered, pc, tile, nIn, cOut, scOut, spOut, dma, l1, good>>
  BY DEF IspBegin, After
<1>2. pc = "prolog" /\ ordered \in BOOLEAN /\ dma = <<>>
  BY <1>1 DEF IspInv, LoopInv, DmaInv, Stages
<1>3. good = 0
  BY <1>1, <1>2 DEF IspInv, DataInv, Serial
<1>4. \A dir : ~Pending(dir)'
  BY <1>1, <1>2, PendingLemma, HasLemma
<1>5. LoopInv'
  BY <1>1, <1>2 DEF LoopInv, Stages
<1>6. DmaInv' /\ OrderInv' /\ DataInv'
  BY <1>1, <1>2, <1>3, <1>4 DEF DmaInv, OrderInv, DataInv
<1>7. QED  BY <1>5, <1>6 DEF IspInv

\* A step of the program is one of a kernel, the start of the first one, or
\* does not concern them.
LEMMA CamSteps ==
    ASSUME LoopInv, [Next]_allVars
    PROVE  \/ UNCHANGED ispVars
           \/ IspBegin
           \/ /\ stage \in Stages
              /\ \/ Prolog \/ Fetch \/ Call \/ Store \/ Epilog
                 \/ \E i \in DOMAIN dma : Complete(i)
<1>1. CASE Main
  BY <1>1 DEF Main, BspOpen, OpenCamera, Allocate, Capture, StopCapture, BspClose,
     SendTask, Finish
<1>2. CASE FrameArrives
  BY <1>2 DEF FrameArrives
<1>3. CASE IspNext
  <2>1. stage \in Stages
    BY <1>3 DEF IspNext, LoopInv
  <2>2. QED  BY <1>3, <2>1 DEF IspNext
<1>4. CASE Stopped \/ UNCHANGED allVars
  BY <1>4 DEF Stopped, allVars
<1>5. QED  BY <1>1, <1>2, <1>3, <1>4 DEF Next

LEMMA CamStep == IspInv /\ [Next]_allVars => IspInv'
<1> SUFFICES ASSUME IspInv, [Next]_allVars  PROVE IspInv'
  OBVIOUS
<1>1. CASE UNCHANGED ispVars
  BY <1>1, StutterStep
<1>2. CASE IspBegin
  BY <1>2, BeginStep
<1>3. CASE stage \in Stages /\ Prolog
  BY <1>3, PrologStep
<1>4. CASE stage \in Stages /\ Fetch
  BY <1>4, FetchStep
<1>5. CASE stage \in Stages /\ Call
  BY <1>5, CallStep
<1>6. CASE stage \in Stages /\ Store
  BY <1>6, StoreStep
<1>7. CASE stage \in Stages /\ Epilog
  BY <1>7, EpilogStep
<1>8. ASSUME NEW i \in DOMAIN dma, Complete(i)  PROVE IspInv'
  BY <1>8, CompleteStep
<1>9. LoopInv
  BY DEF IspInv
<1>10. QED
  BY <1>1, <1>2, <1>3, <1>4, <1>5, <1>6, <1>7, <1>8, <1>9, CamSteps

\* The loop invariant of the kernels: at each place of the loop the queue
\* holds what is expected there, and the buffers that are about to be read
\* hold the tile or the result that they are read for (ISPKernels.c).
THEOREM LoopsAreInStep == Spec => []IspInv
<1>1. Init => IspInv
  <2> SUFFICES ASSUME Init  PROVE IspInv
    OBVIOUS
  <2>1. pc = "prolog" /\ dma = <<>> /\ good = 0 /\ ordered \in BOOLEAN /\ stage = "idle"
    BY DEF Init, IspInit
  <2>2. QED  BY <2>1, RestLemma
<1>2. QED  BY <1>1, CamStep, PTL DEF Spec

\* A kernel ends when the result of every tile has been produced from the
\* bytes the tile needs and written where it belongs, whatever order the DMA
\* engine and the cores work in (demosaic_image_HWC, white_balance_HWC).
THEOREM KernelsComplete == Spec => StageComplete
<1> DEFINE Claim == stage # "idle" /\ stage' # stage /\ (ordered \/ stage # "norm")
                        => good = K.tiles
<1>1. IspInv /\ [Next]_allVars => [Claim]_ispVars
  <2> SUFFICES ASSUME IspInv, [Next]_allVars  PROVE Claim \/ UNCHANGED ispVars
    OBVIOUS
  <2>1. CASE IspBegin
    BY <2>1 DEF IspBegin
  <2>2. CASE stage \in Stages /\ Epilog
    BY <2>2, EpilogStep DEF Serial
  <2>3. CASE Prolog \/ Fetch \/ Call \/ Store \/ \E i \in DOMAIN dma : Complete(i)
    BY <2>3 DEF Prolog, Fetch, Call, Store, Complete
  <2>4. LoopInv
    BY DEF IspInv
  <2>5. QED  BY <2>1, <2>2, <2>3, <2>4, CamSteps
<1>2. QED  BY <1>1, LoopsAreInStep, PTL DEF Spec, StageComplete

-----------------------------------------------------------------------------
(* The L1 memory and the image buffers.                                    *)

\* Who uses the memory: the two transfers, the cores, and their tables.
ReadUse == [loc |-> InLoc(ReadTile), size |-> InSize(ReadTile), writes |-> TRUE]
WriteUse == [loc |-> OutLoc(WriteTile), size |-> K.out, writes |-> FALSE]
OperandUse == [loc |-> InLoc(tile), size |-> InSize(tile),
               writes |-> K.out # 0 /\ InLoc(tile) = OutLoc(tile)]
ResultUse == [loc |-> OutLoc(tile), size |-> K.out, writes |-> TRUE]
TableUse == [loc |-> 61452, size |-> 24576, writes |-> TRUE]
NormsUse == [loc |-> 0, size |-> 9, writes |-> FALSE]

Reading == \E i \in Active : dma[i].dir = "in"
Writing == \E i \in Active : dma[i].dir = "out"

\* The touches of a state: what there is to know of each.
LEMMA TouchLemma ==
    ASSUME LoopInv, DmaInv, NEW a \in Touches
    PROVE  \/ a = ReadUse /\ Reading
           \/ a = WriteUse /\ Writing
           \/ a = OperandUse /\ pc = "call"
           \/ a = ResultUse /\ pc = "call" /\ K.out # 0
           \/ a = TableUse /\ stage = "histogram"
           \/ a = NormsUse /\ stage = "norm"
<1>1. ASSUME NEW i \in Active,
             a = [loc |-> dma[i].loc, size |-> dma[i].size, writes |-> dma[i].dir = "in"]
      PROVE  (a = ReadUse /\ Reading) \/ (a = WriteUse /\ Writing)
  <2>1. i \in DOMAIN dma
    BY DEF Active
  <2>2. CASE dma[i].dir = "in" /\ dma[i] = In(ReadTile)
    <3>1. Reading
      BY <2>2 DEF Reading
    <3>2. /\ dma[i].loc = InLoc(ReadTile) /\ dma[i].size = InSize(ReadTile)
          /\ (dma[i].dir = "in") = TRUE
      BY <2>2 DEF In
    <3>3. QED  BY <1>1, <3>1, <3>2 DEF ReadUse
  <2>3. CASE dma[i].dir = "out" /\ dma[i] = Out(WriteTile)
    <3>1. Writing
      BY <2>3 DEF Writing
    <3>2. /\ dma[i].loc = OutLoc(WriteTile) /\ dma[i].size = K.out
          /\ (dma[i].dir = "in") = FALSE
      BY <2>3 DEF Out
    <3>3. QED  BY <1>1, <3>1, <3>2 DEF WriteUse
  <2>4. QED  BY <2>1, <2>2, <2>3, QueuedLemma
<1>2. 3 * 8192 = 24576
  OBVIOUS
<1>3. QED
  BY <1>1, <1>2 DEF Touches, OperandUse, ResultUse, TableUse, NormsUse

\* The tiles of what is used.
LEMMA UseLemma ==
    ASSUME LoopInv, DmaInv
    PROVE  /\ Reading => /\ stage \in Stages /\ ReadTile \in Nat
                         /\ pc = "call" => ReadTile = tile + 1
           /\ Writing => /\ stage \in Stages /\ WriteTile \in Nat /\ K.out # 0
                         /\ pc = "call" => WriteTile + 1 = tile
           /\ pc = "call" => stage \in Stages /\ tile \in Nat
           /\ Reading /\ Writing => ~ordered
<1>1. ASSUME Reading
      PROVE  /\ stage \in Stages /\ ReadTile \in Nat
             /\ pc = "call" => ReadTile = tile + 1
  <2>1. PICK i \in DOMAIN dma : dma[i].dir = "in"
    BY <1>1 DEF Reading, Active
  <2>2. QED  BY <2>1, QueuedLemma DEF ReadTile
<1>2. ASSUME Writing
      PROVE  /\ stage \in Stages /\ WriteTile \in Nat /\ K.out # 0
             /\ pc = "call" => WriteTile + 1 = tile
  <2>1. PICK i \in DOMAIN dma : dma[i].dir = "out"
    BY <1>2 DEF Writing, Active
  <2>2. QED  BY <2>1, QueuedLemma
<1>3. pc = "call" => stage \in Stages /\ tile \in Nat
  BY DEF LoopInv
<1>4. Reading /\ Writing => ~ordered
  BY DEF Reading, Writing, Active
<1>5. QED  BY <1>1, <1>2, <1>3, <1>4

\* Two users of the memory that may be there together.
Clear(a, b) == a = b \/ ~(a.writes \/ b.writes) \/ Apart(a.loc, a.size, b.loc, b.size)

Sane(a) == a.loc \in Nat /\ a.size \in Nat /\ a.loc + a.size <= L1Size

LEMMA SaneLemma ==
    ASSUME LoopInv, DmaInv, NEW a \in Touches
    PROVE  Sane(a)
<1>1. CASE a = ReadUse /\ Reading
  <2>1. stage \in Stages /\ ReadTile \in Nat
    BY <1>1, UseLemma
  <2>2. /\ InLoc(ReadTile) \in Nat /\ InLoc(ReadTile) + InSize(ReadTile) <= L1Size
        /\ InSize(ReadTile) \in Nat
    BY <2>1, BufferLemma, SizeLemma
  <2>3. QED  BY <1>1, <2>2 DEF ReadUse, Sane
<1>2. CASE a = WriteUse /\ Writing
  <2>1. stage \in Stages /\ WriteTile \in Nat
    BY <1>2, UseLemma
  <2>2. /\ OutLoc(WriteTile) \in Nat /\ OutLoc(WriteTile) + K.out <= L1Size
        /\ K.out \in Nat
    BY <2>1, BufferLemma, SizeLemma
  <2>3. QED  BY <1>2, <2>2 DEF WriteUse, Sane
<1>3. CASE pc = "call" /\ a \in {OperandUse, ResultUse}
  <2>1. stage \in Stages /\ tile \in Nat
    BY <1>3, UseLemma
  <2>2. /\ InLoc(tile) \in Nat /\ InLoc(tile) + InSize(tile) <= L1Size
        /\ OutLoc(tile) \in Nat /\ OutLoc(tile) + K.out <= L1Size
        /\ InSize(tile) \in Nat /\ K.out \in Nat
    BY <2>1, BufferLemma, SizeLemma
  <2>3. QED  BY <1>3, <2>2 DEF OperandUse, ResultUse, Sane
<1>4. CASE a = TableUse \/ a = NormsUse
  BY <1>4 DEF TableUse, NormsUse, Sane, L1Size
<1>5. QED  BY <1>1, <1>2, <1>3, <1>4, TouchLemma

LEMMA ClearLemma ==
    ASSUME NEW a, NEW b, Sane(a), Sane(b), Clear(a, b) \/ Clear(b, a),
           a # b, a.writes \/ b.writes
    PROVE  ~Overlap(a, b)
<1>1. Apart(a.loc, a.size, b.loc, b.size) \/ Apart(b.loc, b.size, a.loc, a.size)
  BY DEF Clear
<1>2. QED  BY <1>1 DEF Apart, Overlap, Sane

\* The demosaicing kernel has a buffer for each of its users.
LEMMA DemosaicClear ==
    ASSUME LoopInv, DmaInv, stage = "demosaic", NEW a \in Touches, NEW b \in Touches
    PROVE  Clear(a, b) \/ Clear(b, a)
<1>1. \A t \in Nat : /\ Apart(InLoc(t), InSize(t), InLoc(t + 1), InSize(t + 1))
                     /\ Apart(OutLoc(t), K.out, OutLoc(t + 1), K.out)
                     /\ \A u \in Nat : Apart(InLoc(t), InSize(t), OutLoc(u), K.out)
  BY BufferLemma DEF Stages
<1>2. \A c \in Touches : \/ c = ReadUse /\ Reading
                         \/ c = WriteUse /\ Writing
                         \/ c = OperandUse /\ pc = "call"
                         \/ c = ResultUse /\ pc = "call"
  BY TouchLemma
<1>3. /\ Reading /\ Writing => Clear(ReadUse, WriteUse)
      /\ Reading /\ pc = "call" => Clear(OperandUse, ReadUse) /\ Clear(ReadUse, ResultUse)
      /\ Writing /\ pc = "call" => Clear(OperandUse, WriteUse) /\ Clear(WriteUse, ResultUse)
      /\ pc = "call" => Clear(OperandUse, ResultUse)
  BY <1>1, UseLemma DEF Clear, ReadUse, WriteUse, OperandUse, ResultUse
<1>4. Clear(a, a)
  BY DEF Clear
<1>5. QED  BY <1>2, <1>3, <1>4

\* The histogram kernel writes nothing back; its table is behind the buffers.
LEMMA HistogramClear ==
    ASSUME LoopInv, DmaInv, stage = "histogram", NEW a \in Touches, NEW b \in Touches
    PROVE  Clear(a, b) \/ Clear(b, a)
<1>1. \A t \in Nat : /\ Apart(InLoc(t), InSize(t), InLoc(t + 1), InSize(t + 1))
                     /\ InLoc(t) + InSize(t) <= 61452 /\ K.out = 0
  BY BufferLemma DEF Stages
<1>2. \A c \in Touches : \/ c = ReadUse /\ Reading
                         \/ c = OperandUse /\ pc = "call"
                         \/ c = TableUse
  BY <1>1, TouchLemma, UseLemma
<1>3. /\ Reading => Clear(ReadUse, TableUse)
      /\ pc = "call" => Clear(OperandUse, TableUse)
      /\ Reading /\ pc = "call" => Clear(OperandUse, ReadUse)
  BY <1>1, UseLemma DEF Clear, Apart, ReadUse, OperandUse, TableUse
<1>4. Clear(a, a)
  BY DEF Clear
<1>5. QED  BY <1>2, <1>3, <1>4

\* The in-place kernel's operand is its result; its read and its write share
\* a buffer, and are never under way together in an ordered engine.
LEMMA NormClear ==
    ASSUME LoopInv, DmaInv, stage = "norm", ordered, NEW a \in Touches, NEW b \in Touches
    PROVE  Clear(a, b) \/ Clear(b, a)
<1>1. \A t \in Nat : /\ Apart(InLoc(t), InSize(t), InLoc(t + 1), InSize(t + 1))
                     /\ Apart(OutLoc(t), K.out, OutLoc(t + 1), K.out)
                     /\ InLoc(t) = OutLoc(t) /\ InSize(t) = K.out
                     /\ InLoc(t) \in Nat /\ InLoc(t) >= 12
  BY BufferLemma DEF Stages
<1>2. K.out # 0
  BY DEF K, Norm
<1>3. pc = "call" => ResultUse = OperandUse
  BY <1>1, <1>2, UseLemma DEF ResultUse, OperandUse
<1>4. \A c \in Touches : \/ c = ReadUse /\ Reading
                         \/ c = WriteUse /\ Writing
                         \/ c = OperandUse /\ pc = "call"
                         \/ c = NormsUse
  BY <1>3, TouchLemma
<1>5. ~(Reading /\ Writing)
  BY UseLemma
<1>6. /\ Reading => Clear(NormsUse, ReadUse)
      /\ Writing => Clear(NormsUse, WriteUse)
      /\ pc = "call" => Clear(NormsUse, OperandUse)
  BY <1>1, UseLemma DEF Clear, Apart, ReadUse, WriteUse, OperandUse, NormsUse
<1>7. Reading /\ pc = "call" => Clear(OperandUse, ReadUse)
  BY <1>1, UseLemma DEF Clear, ReadUse, OperandUse
<1>8. Writing /\ pc = "call" => Clear(WriteUse, OperandUse)
  BY <1>1, UseLemma DEF Clear, WriteUse, OperandUse
<1>9. Clear(a, a)
  BY DEF Clear
<1>10. QED  BY <1>4, <1>5, <1>6, <1>7, <1>8, <1>9

LEMMA IdleClear ==
    ASSUME LoopInv, DmaInv, stage \notin Stages
    PROVE  Touches = {}
<1>1. \A a \in Touches : FALSE
  BY TouchLemma, UseLemma DEF Stages
<1>2. QED  BY <1>1

\* Nothing writes a part of the L1 memory that something else is using, and
\* nothing leaves the memory that was allocated: the double buffers of the
\* kernels are never confused.  Of the in-place kernel this is said for a DMA
\* engine that carries out its commands in order (ISPKernels.c).
THEOREM BuffersAreDisjoint == Spec => []BuffersDisjoint
<1>1. IspInv => BuffersDisjoint
  <2> SUFFICES ASSUME LoopInv, DmaInv  PROVE BuffersDisjoint
    BY DEF IspInv
  <2>1. \A a \in Touches : a.loc + a.size <= L1Size
    BY SaneLemma DEF Sane
  <2>2. ASSUME ordered \/ stage # "norm", NEW a \in Touches, NEW b \in Touches
        PROVE  Clear(a, b) \/ Clear(b, a)
    BY <2>2, DemosaicClear, HistogramClear, NormClear, IdleClear DEF Stages
  <2>3. QED  BY <2>1, <2>2, SaneLemma, ClearLemma DEF BuffersDisjoint
<1>2. QED  BY <1>1, LoopsAreInStep, PTL

\* The tiles cover a frame, and no more.
LEMMA TilesLemma ==
    ASSUME stage \in Stages, NEW t \in 0..LastTile
    PROVE  /\ Needs(t).from + InSize(t) <= K.image
           /\ K.out # 0 => t * K.out + K.out <= 3 * Frame
           /\ t = LastTile => /\ Needs(t).from + K.last = K.image
                              /\ K.out # 0 => t * K.out + K.out = 3 * Frame
<1>1. CASE K = Demosaic
  <2>1. t \in 0..23 /\ LastTile = 23 /\ K.image = 307200 /\ K.out = 38400
    BY <1>1 DEF Demosaic, LastTile, Frame
  <2>2. /\ Needs(t).from + InSize(t) \in Int
        /\ Needs(t).from + InSize(t) <= 307200
        /\ t = 23 => Needs(t).from + K.last = 307200
    BY <1>1, <2>1 DEF Demosaic, Needs, InSize
  <2>3. QED  BY <2>1, <2>2 DEF Frame
<1>2. CASE K = Histogram
  <2>1. t \in 0..29 /\ LastTile = 29 /\ K.image = 921600 /\ K.out = 0
    BY <1>2 DEF Histogram, LastTile, Frame
  <2>2. /\ Needs(t).from + InSize(t) \in Int
        /\ Needs(t).from + InSize(t) <= 921600
        /\ t = 29 => Needs(t).from + K.last = 921600
    BY <1>2, <2>1 DEF Histogram, Needs, InSize
  <2>3. QED  BY <2>1, <2>2
<1>3. CASE K = Norm
  <2>1. t \in 0..19 /\ LastTile = 19 /\ K.image = 921600 /\ K.out = 46080
    BY <1>3 DEF Norm, LastTile, Frame
  <2>2. /\ Needs(t).from + InSize(t) \in Int
        /\ Needs(t).from + InSize(t) <= 921600
        /\ t = 19 => Needs(t).from + K.last = 921600
    BY <1>3, <2>1 DEF Norm, Needs, InSize
  <2>3. QED  BY <2>1, <2>2 DEF Frame
<1>4. QED  BY <1>1, <1>2, <1>3, KernelLemma

\* Whatever the camera's format, a kernel reads and writes the bytes of a frame
\* of 640 x 480 pixels, none beyond it and to its very end (ISPKernels.c): that
\* is what the image buffers must hold (test.c:107, test.c:113).
THEOREM FrameIsWhole == Spec => []WholeFrame
<1>1. IspInv => WholeFrame
  <2> SUFFICES ASSUME LoopInv, DmaInv  PROVE WholeFrame
    BY DEF IspInv
  <2>1. ASSUME NEW i \in DOMAIN dma
        PROVE  dma[i].ext + dma[i].size <=
                   IF dma[i].dir = "out" THEN 3 * Frame ELSE K.image
    <3>1. stage \in Stages
      BY QueuedLemma
    <3>2. CASE dma[i].dir = "in"
      <4>1. dma[i] = In(ReadTile) /\ ReadTile \in 0..LastTile
        BY <3>2, QueuedLemma
      <4>2. dma[i].ext = Needs(ReadTile).from /\ dma[i].size = InSize(ReadTile)
        BY <4>1 DEF In
      <4>3. QED  BY <3>1, <3>2, <4>1, <4>2, TilesLemma
    <3>3. CASE dma[i].dir = "out"
      <4>1. dma[i] = Out(WriteTile) /\ WriteTile \in 0..LastTile /\ K.out # 0
        BY <3>3, QueuedLemma
      <4>2. dma[i].ext = WriteTile * K.out /\ dma[i].size = K.out
        BY <4>1 DEF Out
      <4>3. QED  BY <3>1, <3>3, <4>1, <4>2, TilesLemma
    <3>4. QED  BY <3>2, <3>3, QueuedLemma
  <2>2. ASSUME pc = "epilog"
        PROVE  /\ nIn + K.last = K.image
               /\ K.out # 0 => cOut + K.out = 3 * Frame
    <3>1. stage \in Stages /\ tile \in 0..LastTile /\ tile = LastTile
      BY <2>2 DEF LoopInv
    <3>2. cOut = tile * K.out /\ nIn = Needs(tile).from
      BY <2>2 DEF LoopInv
    <3>3. QED  BY <3>1, <3>2, TilesLemma
  <2>3. QED  BY <2>1, <2>2 DEF WholeFrame
<1>2. QED  BY <1>1, LoopsAreInStep, PTL

-----------------------------------------------------------------------------
(* The camera's pins.                                                      *)

LEMMA PinStep == PinInv /\ [Next]_allVars => PinInv'
<1> SUFFICES ASSUME PinInv, [Next]_allVars  PROVE PinInv'
  OBVIOUS
<1> USE DEF PinInv, Goto, CameraPowered
<1>1. CASE BspOpen
  BY <1>1 DEF BspOpen
<1>2. CASE OpenCamera
  BY <1>2 DEF OpenCamera
<1>3. CASE Allocate
  BY <1>3 DEF Allocate
<1>4. CASE Capture \/ StopCapture \/ Finish
  BY <1>4 DEF Capture, StopCapture, Finish
<1>5. CASE BspClose
  BY <1>5 DEF BspClose
<1>6. CASE SendTask
  BY <1>6 DEF SendTask
<1>7. CASE FrameArrives \/ (IspNext /\ UNCHANGED camVars) \/ Stopped \/ UNCHANGED allVars
  BY <1>7 DEF FrameArrives, Stopped, camVars, allVars
<1>8. QED
  BY <1>1, <1>2, <1>3, <1>4, <1>5, <1>6, <1>7 DEF Next, Main

\* The camera's control pins are high only while it is supplied, on every
\* path through opening, failing and closing (bsp_hm0360_open and _close).
THEOREM CameraIsPowered == Spec => []CameraPowered
<1>1. Init => PinInv
  BY DEF Init, PinInv
<1>2. PinInv => CameraPowered
  BY DEF PinInv, CameraPowered
<1>3. QED  BY <1>1, <1>2, PinStep, PTL DEF Spec
=============================================================================
