---------------------------------- MODULE Isp ----------------------------------
(***************************************************************************)
(* The image kernels of the camera example (ISPKernels.c): a loop over     *)
(* tiles that overlaps three things through double buffers in the L1       *)
(* memory of the cluster: the DMA reads tile t + 1, the cores work on tile *)
(* t, the DMA writes the result of tile t - 1.                             *)
(*                                                                         *)
(* The three kernels differ in their numbers only, which are the code's.   *)
(* A pixel is abstracted away: a buffer holds a range of bytes of the      *)
(* image, or the result of a tile, or junk.                                *)
(*                                                                         *)
(* The DMA engine is external.  `ordered' says whether it carries out its  *)
(* commands one after the other, or reads and writes at the same time.     *)
(***************************************************************************)
EXTENDS Integers, Sequences, SequencesExt

VARIABLES
    ordered,                  \* the DMA engine serialises its commands
    stage, pc, tile,          \* kernel, place in its loop, T0Ind
    nIn, cOut, scOut, spOut,  \* _N_In, _C_Out, _SC_Out, _SP_Out
    dma,                      \* transfers issued and not completed, in order
    l1,                       \* what the buffers hold, by their address
    good                      \* history: how many tiles of this kernel have
                              \* been produced from the right data and stored

ispVars == <<ordered, stage, pc, tile, nIn, cOut, scOut, spOut, dma, l1, good>>

Frame == 640 * 480 \* the pixels for which the tiles are laid out
L1Size == 104960 \* _ISP_L1_Memory_SIZE

\* demosaic_image_HWC: a tile of 20 lines needs a line more on either side.
Demosaic == [tiles |-> 24, image |-> Frame,
             inBase |-> 0, inStep |-> 14080, first |-> 13440, size |-> 14080,
             last |-> 13440, advance |-> 12800, skew |-> 640,
             outBase |-> 28160, outStep |-> 38400, out |-> 38400]

\* white_balance_HWCHistogram reads the image and writes no image.
Histogram == [tiles |-> 30, image |-> 3 * Frame,
              inBase |-> 12, inStep |-> 30720, first |-> 30720,
              size |-> 30720, last |-> 30720, advance |-> 30720, skew |-> 0,
              outBase |-> 12, outStep |-> 30720, out |-> 0]

\* white_balance_HWCNorm works in place: In and Out share their buffers.
Norm == [tiles |-> 20, image |-> 3 * Frame,
         inBase |-> 12, inStep |-> 46080, first |-> 46080, size |-> 46080,
         last |-> 46080, advance |-> 46080, skew |-> 0,
         outBase |-> 12, outStep |-> 46080, out |-> 46080]

\* The order of cluster_main and white_balance_HWC.
After == [idle |-> "demosaic", demosaic |-> "histogram",
          histogram |-> "norm", norm |-> "done"]

K == CASE stage = "demosaic"  -> Demosaic
       [] stage = "histogram" -> Histogram
       [] OTHER               -> Norm

InLoc(t) == K.inBase + K.inStep * (t % 2)
OutLoc(t) == K.outBase + K.outStep * (t % 2)
InSize(t) == IF t = 0 THEN K.first ELSE IF t = K.tiles - 1 THEN K.last ELSE K.size

\* What the comments of the kernels give as the tile table: the bytes of the
\* image that tile t needs, and where its result belongs.
Needs(t) ==
    LET from == IF t = 0 THEN 0 ELSE t * K.advance - K.skew
    IN  [what |-> "image", from |-> from, size |-> InSize(t)]
Result(t) == [what |-> "result", from |-> t * K.out, size |-> K.out]
Junk == [what |-> "junk", from |-> 0, size |-> 0]

Fill(loc, content) == [a \in DOMAIN l1 \cup {loc} |->
                           IF a = loc THEN content ELSE l1[a]]

Pending(dir) == \E i \in DOMAIN dma : dma[i].dir = dir

Copy(dir, ext, loc, size) ==
    Append(dma, [dir |-> dir, ext |-> ext, loc |-> loc, size |-> size])

-----------------------------------------------------------------------------
\* The prolog: reset the loop's variables and read the first tile.
Prolog ==
    /\ pc = "prolog"
    /\ tile' = 0
    /\ nIn' = 0 /\ cOut' = 0 /\ scOut' = K.out /\ spOut' = 0
    /\ dma' = Copy("in", 0, InLoc(0), K.first)
    /\ pc' = "fetch"
    /\ UNCHANGED <<ordered, stage, l1, good>>

\* Mutant: the skew of the first tile is forgotten.
FetchUnskewed ==
    LET last == tile = K.tiles - 1
        next == nIn + K.advance
    IN  /\ pc = "fetch"
        /\ ~Pending("in")
        /\ nIn' = IF last THEN nIn ELSE next
        /\ dma' = IF last THEN dma
                  ELSE Copy("in", next, InLoc(tile + 1), InSize(tile + 1))
        /\ pc' = "call"
        /\ UNCHANGED <<ordered, stage, tile, cOut, scOut, spOut, l1, good>>

\* "Wait previous DMA read In", then read the next tile, if there is one,
\* into the other buffer.
Fetch ==
    LET last == tile = K.tiles - 1
        next == nIn + K.advance - (IF tile = 0 THEN K.skew ELSE 0)
    IN  /\ pc = "fetch"
        /\ ~Pending("in")
        /\ nIn' = IF last THEN nIn ELSE next
        /\ dma' = IF last THEN dma
                  ELSE Copy("in", next, InLoc(tile + 1), InSize(tile + 1))
        /\ pc' = "call"
        /\ UNCHANGED <<ordered, stage, tile, cOut, scOut, spOut, l1, good>>

\* The cores work between the state before this step and the one after.
Call ==
    LET right == InLoc(tile) \in DOMAIN l1 /\ l1[InLoc(tile)] = Needs(tile)
    IN  /\ pc = "call"
        /\ l1' = IF K.out = 0 THEN l1
                 ELSE Fill(OutLoc(tile), IF right THEN Result(tile) ELSE Junk)
        /\ good' = IF K.out = 0 /\ right THEN good + 1 ELSE good
        /\ pc' = "store"
        /\ UNCHANGED <<ordered, stage, tile, nIn, cOut, scOut, spOut, dma>>

\* Mutant: the result is written without waiting for the previous write.
StoreNoWait ==
    /\ pc = "store"
    /\ dma' = IF K.out = 0 THEN dma ELSE Copy("out", cOut, OutLoc(tile), scOut)
    /\ spOut' = scOut
    /\ LET last == tile = K.tiles - 1
       IN  /\ cOut' = IF last THEN cOut ELSE cOut + K.out
           /\ scOut' = IF last THEN 0 ELSE K.out
           /\ tile' = IF last THEN tile ELSE tile + 1
           /\ pc' = IF last THEN "epilog" ELSE "fetch"
    /\ UNCHANGED <<ordered, stage, nIn, l1, good>>

\* "Wait previous DMA write Out", from the second tile on, then write this
\* tile's result and prepare the next.
Store ==
    /\ pc = "store"
    /\ spOut # 0 => ~Pending("out")
    /\ dma' = IF K.out = 0 THEN dma ELSE Copy("out", cOut, OutLoc(tile), scOut)
    /\ spOut' = scOut
    /\ LET last == tile = K.tiles - 1
       IN  /\ cOut' = IF last THEN cOut ELSE cOut + K.out
           /\ scOut' = IF last THEN 0 ELSE K.out
           /\ tile' = IF last THEN tile ELSE tile + 1
           /\ pc' = IF last THEN "epilog" ELSE "fetch"
    /\ UNCHANGED <<ordered, stage, nIn, l1, good>>

\* Mutant: a kernel ends while its last write is on its way.
EpilogNoWait ==
    /\ pc = "epilog"
    /\ stage' = After[stage]
    /\ pc' = "prolog"
    /\ good' = 0 /\ l1' = [a \in {0} |-> Junk]
    /\ UNCHANGED <<ordered, tile, nIn, cOut, scOut, spOut, dma>>

\* The last write is waited for; the next kernel begins.
Epilog ==
    /\ pc = "epilog"
    /\ ~Pending("out")
    /\ stage' = After[stage]
    /\ pc' = "prolog"
    /\ good' = 0 /\ l1' = [a \in {0} |-> Junk]
    /\ UNCHANGED <<ordered, tile, nIn, cOut, scOut, spOut, dma>>

-----------------------------------------------------------------------------
(* The DMA engine and what touches the L1 memory.                          *)

Overlap(a, b) == a.loc < b.loc + b.size /\ b.loc < a.loc + a.size

Active == IF ordered THEN {i \in DOMAIN dma : i = 1} ELSE DOMAIN dma

Torn(i) == \E j \in Active : dma[j].dir = "in" /\ Overlap(dma[i], dma[j])

\* A transfer completes.  A result is good when its buffer held it all the
\* time and it lands where the tile belongs.
Complete(i) ==
    /\ i \in Active
    /\ dma' = RemoveAt(dma, i)
    /\ LET d == dma[i]
           r == [what |-> "result", from |-> d.ext, size |-> d.size]
       IN  IF d.dir = "in"
           THEN /\ l1' = Fill(d.loc, [what |-> "image", from |-> d.ext,
                                      size |-> d.size])
                /\ UNCHANGED good
           ELSE /\ good' = IF l1[d.loc] = r /\ ~Torn(i)
                           THEN good + 1 ELSE good
                /\ UNCHANGED l1
    /\ UNCHANGED <<ordered, stage, pc, tile, nIn, cOut, scOut, spOut>>

IspInit ==
    /\ ordered \in BOOLEAN
    /\ stage = "idle" /\ pc = "prolog" /\ tile = 0
    /\ nIn = 0 /\ cOut = 0 /\ scOut = 0 /\ spOut = 0
    /\ dma = <<>> /\ good = 0
    /\ l1 = [a \in {0} |-> Junk]

IspBegin ==
    /\ stage = "idle"
    /\ stage' = After[stage]
    /\ UNCHANGED <<ordered, pc, tile, nIn, cOut, scOut, spOut, dma, l1, good>>

IspNext ==
    /\ stage \notin {"idle", "done"}
    /\ \/ Prolog
       \/ Fetch
       \/ Call
       \/ Store
       \/ Epilog
       \/ \E i \in DOMAIN dma : Complete(i)

-----------------------------------------------------------------------------
(* Properties.                                                             *)

\* Accesses to L1 in progress: transfers, the operands of the cores, and the
\* tables that outlive a tile (the histograms, and the norms the last kernel
\* reads).
Touches ==
    {[loc |-> dma[i].loc, size |-> dma[i].size, writes |-> dma[i].dir = "in"]
        : i \in Active}
    \cup (IF pc # "call" THEN {} ELSE
             {[loc |-> InLoc(tile), size |-> InSize(tile), writes |->
                  K.out # 0 /\ InLoc(tile) = OutLoc(tile)]})
    \cup (IF pc # "call" \/ K.out = 0 THEN {} ELSE
             {[loc |-> OutLoc(tile), size |-> K.out, writes |-> TRUE]})
    \cup (IF stage # "histogram" THEN {} ELSE
             {[loc |-> 61452, size |-> 3 * 8192, writes |-> TRUE]})
    \cup (IF stage # "norm" THEN {} ELSE
             {[loc |-> 0, size |-> 9, writes |-> FALSE]})

\* Nothing writes a part of L1 that something else is using, and nothing
\* leaves the memory that was allocated.  The in-place kernel needs a DMA
\* engine that serialises: it reads tile t + 1 into the buffer from which the
\* result of tile t - 1 is still being written.
BuffersDisjoint ==
    /\ \A a \in Touches : a.loc + a.size <= L1Size
    /\ ordered \/ stage # "norm" =>
          \A a, b \in Touches :
             a # b /\ (a.writes \/ b.writes) =>
                ~Overlap(a, b)

\* When a kernel ends, the result of every tile has been produced from the
\* bytes the tile needs and written to its place in the image.  Again the
\* in-place kernel on an engine that does not serialise is excepted.
StageComplete ==
    [][stage # "idle" /\ stage' # stage /\ (ordered \/ stage # "norm")
           => good = K.tiles]_ispVars

\* Whatever the camera's format, a kernel reads and writes the bytes of a frame
\* of 640 x 480 pixels: none beyond it, and to its very end.  Buffers of that
\* format hold them; the smaller ones that test.c allocates for QVGA do not.
WholeFrame ==
    /\ \A i \in DOMAIN dma :
          dma[i].ext + dma[i].size <=
              IF dma[i].dir = "out" THEN 3 * Frame ELSE K.image
    /\ pc = "epilog" => /\ nIn + K.last = K.image
                        /\ K.out # 0 => cOut + K.out = 3 * Frame
=============================================================================
